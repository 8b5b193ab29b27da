---------------------------- MODULE ProtoStates ----------------------------
(***************************************************************************)
(* Protocol declarations: the trees of ProtoState objects a descriptor     *)
(* builds in initializeProtocol(), and the way ProtoDescriptor.initialize  *)
(* splits such a tree into one tree per list of tag keys.                  *)
(*                                                                         *)
(* A node is a record.  "id" is the uuid of the state: every node of one   *)
(* protocol carries its own.  A leaf (kind "State") is a state class with  *)
(* its own canRun/execute; the other kinds are the SpecialProtoStates.     *)
(***************************************************************************)
EXTENDS Sequences, SequencesExt, FiniteSets, Functions

SpecialKinds == {"While", "SwitchCase", "Sequence", "Tagged"}

Node(kind, id, children) ==
    [kind |-> kind, id |-> id, optional |-> FALSE, children |-> children, keys |-> <<>>]

State(id)                == Node("State", id, <<>>)
While(id, children)      == Node("While", id, children)
SwitchCase(id, children) == Node("SwitchCase", id, children)
Sequence(id, children)   == Node("Sequence", id, children)
Tagged(keys, child)      == [Node("Tagged", Last(keys), <<child>>) EXCEPT !.keys = keys]
asOptional(node)         == [node EXCEPT !.optional = TRUE]

isNormalState(node) == node.kind \notin SpecialKinds

(***************************************************************************)
(* initializeInternal removes the Tagged children from the tree            *)
(* (Untagged), after it has put what they hold in taggedStates under the   *)
(* keys of the enclosing tags followed by their own (TaggedStates).        *)
(***************************************************************************)
RECURSIVE Untagged(_)
Untagged(node) ==
    LET kept == SelectSeq(node.children, LAMBDA c : c.kind # "Tagged")
    IN  [node EXCEPT !.children = [i \in DOMAIN kept |-> Untagged(kept[i])]]

RECURSIVE initializeInternal(_, _)
initializeInternal(node, parentKeys) ==
    UNION { IF c.kind = "Tagged"
            THEN LET keys == parentKeys \o c.keys
                 IN  {<<keys, c.children[1]>>} \cup initializeInternal(c.children[1], keys)
            ELSE initializeInternal(c, parentKeys) : c \in Range(node.children) }

Declared(start) ==
    LET entries == {<< <<>>, start >>} \cup initializeInternal(start, <<>>)
    IN  [keys \in {e[1] : e \in entries} |-> (CHOOSE e \in entries : e[1] = keys)[2]]

TaggedStates(start) ==
    LET declared == Declared(start) IN [keys \in DOMAIN declared |-> Untagged(declared[keys])]

-----------------------------------------------------------------------------
(***************************************************************************)
(* What a declaration means, read as a regular expression: a Sequence is a *)
(* concatenation, a SwitchCase a choice, a While zero or more rounds of    *)
(* its children, an optional node may be left out, a Tagged node is a gate *)
(* any number of events of its machine may pass.  A continuation is the    *)
(* sequence of nodes still to be run; Residuals(k, runs) is the set of     *)
(* continuations left once one event, the one the leaves in "runs" can     *)
(* run, has been consumed.  This is the reference the interpreter of       *)
(* ProtoContext is compared with; it models no code.                       *)
(***************************************************************************)
RECURSIVE Skippable(_)
Skippable(node) ==
    \/ node.optional
    \/ node.kind \in {"While", "Tagged"}
    \/ node.kind = "Sequence" /\ \A c \in Range(node.children) : Skippable(c)
    \/ node.kind = "SwitchCase" /\ \E c \in Range(node.children) : Skippable(c)

MayStop(k) == \A i \in DOMAIN k : Skippable(k[i])

RECURSIVE Residuals(_, _)
Residuals(k, runs) ==
    IF k = <<>> THEN {}
    ELSE LET n == Head(k)
             ofHead ==
                CASE n.kind = "State"      -> IF n.id \in runs THEN {<<>>} ELSE {}
                  [] n.kind = "Tagged"     -> IF n.id \in runs THEN {<<n>>} ELSE {}
                  [] n.kind = "Sequence"   -> Residuals(n.children, runs)
                  [] n.kind = "While"      -> {r \o <<n>> : r \in Residuals(n.children, runs)}
                  [] n.kind = "SwitchCase" -> UNION {Residuals(<<c>>, runs) : c \in Range(n.children)}
         IN  {r \o Tail(k) : r \in ofHead}
                \cup (IF Skippable(n) THEN Residuals(Tail(k), runs) ELSE {})

RECURSIVE Leaves(_)
Leaves(node) == IF isNormalState(node) THEN {node.id}
                ELSE UNION {Leaves(c) : c \in Range(node.children)}

RECURSIVE Nodes(_)
Nodes(node) == {node} \cup UNION {Nodes(c) : c \in Range(node.children)}

(* The nodes on the longest path from a node to a leaf.                    *)
RECURSIVE Height(_)
Height(node) ==
    1 + (IF node.children = <<>> THEN 0
         ELSE CHOOSE h \in {Height(c) : c \in Range(node.children)} :
                \A c \in Range(node.children) : Height(c) <= h)
=============================================================================
