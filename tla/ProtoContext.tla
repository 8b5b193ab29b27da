---------------------------- MODULE ProtoContext ----------------------------
(***************************************************************************)
(* The interpreter of protocol declarations: ProtoContext.reactToEvent and *)
(* the search it makes on the execution stack of the event's tags, with    *)
(* what NetworkProtoContext overrides of it (greetings, missing data, the  *)
(* closing of the client).                                                 *)
(*                                                                         *)
(* One context reacts to one event at a time, in the order of the one      *)
(* executor thread: frames of the client and the events that states send   *)
(* to their own context share a queue.  The search works on a record s:    *)
(* s.heap holds every ProtoStackItem made so far (an item's id is its      *)
(* place in the heap), s.stack the ids on the execution stack,             *)
(* s.blocked the recursionBlocker and s.res the ProtoState found, or one   *)
(* of the results below.  Items are mutable objects that callers up the    *)
(* Java stack still hold after they left the execution stack: this is why  *)
(* a heap is needed.                                                       *)
(***************************************************************************)
EXTENDS ProtoStates, Integers, TLC

CONSTANTS
    Machines,       \* the protocols explored, records as in module Protocols
    MaxDepth,       \* bound of the recursion in findThePossibleNextStateOnStack
    Pipelined(_)    \* bound: events waiting when a client of a machine sends a frame

ASSUME BoundsAssumption == MaxDepth \in Nat /\ \A m \in Machines : Pipelined(m) \in Nat

Failed  == "FailedState"            \* an instance of FailedState
NoState == "null"                   \* the null reference
AskMore == "AskMoreDataException"
Thrown  == "TPMException"           \* max recursion hit, or unknown command

isFailed(s)    == s.res = Failed
isException(s) == s.res \in {AskMore, Thrown}

-----------------------------------------------------------------------------
(***************************************************************************)
(* canRunEvent of a leaf of machine m: the events it takes and those on    *)
(* which its canRun asks for more data.  A leaf without an entry takes the *)
(* event with its own name.                                                *)
(***************************************************************************)
canRunEvent(m, leaf, e) ==
    IF leaf \in DOMAIN m.more /\ e.name \in m.more[leaf] THEN AskMore
    ELSE IF leaf \in DOMAIN m.takes
         THEN (IF e.name \in m.takes[leaf] THEN "yes" ELSE "no")
         ELSE (IF e.name = leaf THEN "yes" ELSE "no")

(* The keys of a list of tags; a tag is a pair <<key, value>>.             *)
TagKeys(tag) == [i \in DOMAIN tag |-> tag[i][1]]

isSubKey(parent, child) == parent = <<>> \/ IsStrictPrefix(parent, child)

ProtoStackItem(node) == [node |-> node, next |-> 1]
Missing == [node |-> Node("Missing", NoState, <<>>), next |-> 1]

isEmpty(item) == item.next > Len(item.node.children)
canRun(item)  == ~isEmpty(item) /\ ~isNormalState(item.node)

Push(s, node) ==
    [s EXCEPT !.heap = Append(@, ProtoStackItem(node)),
              !.stack = Append(@, Len(s.heap) + 1)]

Pop(s) == [s EXCEPT !.stack = Front(@)]

(* Mutant: two children are taken at once.                                 *)
TakeTwo(s, i) == [s EXCEPT !.heap[i].next = @ + 2]

(* getNextExecutable: the item's next child is taken for good.             *)
Take(s, i) == [s EXCEPT !.heap[i].next = @ + 1]

popTheCurrentState(s, i) ==
    IF s.stack # <<>> /\ Last(s.stack) = i THEN Pop(s) ELSE s

blockRecursion(s, i) == [s EXCEPT !.blocked = @ \cup {s.heap[i].node.id}]

(* Mutant: an item that has run out is never refilled.                     *)
NoRefill(s, i) == s

resetInstanceIfEmptyAndNotBlocked(s, i) ==
    IF s.heap[i].node.id \notin s.blocked /\ ~canRun(s.heap[i])
    THEN [s EXCEPT !.heap[i].next = 1] ELSE s

(* Mutant: anything left on the stack of longer tags counts as open.       *)
NothingLeft(stacks, tag) ==
    \A t \in DOMAIN stacks \ {tag} : isSubKey(tag, t) => stacks[t] = <<>>

(* parentAreClosed: the stacks of longer tags have nothing left on top.    *)
parentAreClosed(stacks, tag) ==
    \A t \in DOMAIN stacks \ {tag} :
        isSubKey(tag, t) /\ stacks[t] # <<>> => isEmpty(Last(stacks[t]))

-----------------------------------------------------------------------------
(* x carries what one search does not change: the machine, the event and   *)
(* whether the stacks of longer tags are closed.                           *)
RECURSIVE findThePossibleNextStateOnStack(_, _, _)
RECURSIVE RunChildren(_, _, _, _)

getProtoState(x, s, node, depth) ==
    IF isNormalState(node)
    THEN LET c == canRunEvent(x.m, node.id, x.e)
         IN  [s EXCEPT !.res = CASE c = "yes"   -> node.id
                                 [] c = "no"    -> Failed
                                 [] c = AskMore -> AskMore]
    ELSE IF node.id \in s.blocked
         THEN [s EXCEPT !.res = Failed]
         ELSE findThePossibleNextStateOnStack(x, Push(s, node), depth + 1)

(***************************************************************************)
(* The loop the three execute* methods share: children are taken until one *)
(* can run.  A child that fails ends the loop, except in a SwitchCase and  *)
(* when it is optional.                                                    *)
(***************************************************************************)
RunChildren(x, s, i, depth) ==
    IF ~canRun(s.heap[i]) THEN s
    ELSE LET child == s.heap[i].node.children[s.heap[i].next]
             t == getProtoState(x, Take(s, i), child, depth)
         IN  IF isFailed(t) /\ (child.optional \/ s.heap[i].node.kind = "SwitchCase")
             THEN RunChildren(x, t, i, depth)
             ELSE t

executeLoop(x, s, i, depth) ==
    LET t == RunChildren(x, s, i, depth)
        u == IF isEmpty(t.heap[i]) \/ isFailed(t) THEN blockRecursion(t, i) ELSE t
    IN  IF isException(t) THEN t
        ELSE IF isFailed(u) THEN popTheCurrentState(u, i) ELSE u

executeSequence(x, s, i, depth) ==
    LET t == RunChildren(x, s, i, depth)
    IN  IF isException(t) THEN t
        ELSE IF isEmpty(t.heap[i]) \/ isFailed(t)
             THEN popTheCurrentState(blockRecursion(t, i), i) ELSE t

executeSwitchCase(x, s, i, depth) ==
    IF s.heap[i].next # 1                               \* not all executors are set
    THEN [Pop(s) EXCEPT !.res = Failed]
    ELSE LET t == RunChildren(x, s, i, depth)
             u == IF t.res = NoState THEN [t EXCEPT !.res = Failed] ELSE t
         IN  IF isException(t) THEN t
             ELSE popTheCurrentState(blockRecursion(u, i), i)

(* One round of the do-while of findThePossibleNextStateOnStack.           *)
RECURSIVE SearchTop(_, _, _)
SearchTop(x, s, depth) ==
    IF s.stack = <<>> \/ ~x.closed \/ s.heap[Last(s.stack)].node.kind = "Missing"
    THEN [s EXCEPT !.res = Failed]
    ELSE LET i == Last(s.stack)
             node == s.heap[i].node
             start == [resetInstanceIfEmptyAndNotBlocked(s, i) EXCEPT !.res = NoState]
             c == canRunEvent(x.m, node.id, x.e)
             t == CASE node.kind = "State" ->
                            [s EXCEPT !.res = CASE c = "yes" -> node.id
                                                [] c = "no"  -> NoState
                                                [] c = AskMore -> AskMore]
                    [] node.kind = "While"      -> executeLoop(x, start, i, depth)
                    [] node.kind = "SwitchCase" -> executeSwitchCase(x, start, i, depth)
                    [] node.kind = "Sequence"   -> executeSequence(x, start, i, depth)
         IN  IF isFailed(t) THEN SearchTop(x, t, depth) ELSE t

findThePossibleNextStateOnStack(x, s, depth) ==
    IF depth > MaxDepth THEN [s EXCEPT !.res = Thrown] ELSE SearchTop(x, s, depth)

-----------------------------------------------------------------------------
VARIABLES
    machine,            \* the protocol of this context
    executionStack,     \* tag |-> sequence of ProtoStackItems, the top is last
    greetingsSent,
    remainingBytes,     \* TRUE: incomplete bytes wait for the rest of them
    clientOpen,
    queue,              \* events given to send() and not yet reacted to
    last,               \* the last reaction: the event and the result
    expected,           \* the reference: tag |-> the continuations left
    conforms            \* the reference: every frame so far was allowed

vars == <<machine, executionStack, greetingsSent, remainingBytes, clientOpen,
          queue, last, expected, conforms>>

HasRoot(m, tag) == TagKeys(tag) \in DOMAIN m.roots
Root(m, tag)    == m.roots[TagKeys(tag)]

(* Mutant: the root is pushed again by every event.                        *)
RootEveryTime(m, stacks, tag) ==
    LET root == IF HasRoot(m, tag) THEN ProtoStackItem(Root(m, tag)) ELSE Missing
    IN  IF tag \in DOMAIN stacks THEN [stacks EXCEPT ![tag] = Append(@, root)]
        ELSE (tag :> <<root>>) @@ stacks

(* preExecute: the stack of the tags is made by their first event.         *)
preExecute(m, stacks, tag) ==
    IF tag \in DOMAIN stacks THEN stacks
    ELSE (tag :> << IF HasRoot(m, tag) THEN ProtoStackItem(Root(m, tag)) ELSE Missing >>) @@ stacks

findPossibleInterrupt(m, e) ==
    LET hits == SelectSeq(m.interrupts, LAMBDA i : canRunEvent(m, i, e) # "no")
    IN  IF hits = <<>> THEN NoState
        ELSE IF canRunEvent(m, Head(hits), e) = AskMore THEN AskMore ELSE Head(hits)

(***************************************************************************)
(* The search for event e: the interrupts first, then the stack.  The      *)
(* override in NetworkProtoContext answers null to an event without bytes  *)
(* unless it is the greeting, and throws on an empty stack.                *)
(***************************************************************************)
findThePossibleNextState(m, stacks, greeted, e) ==
    LET items == stacks[e.tag]
        s == [heap |-> items, stack |-> [i \in DOMAIN items |-> i], blocked |-> {}, res |-> NoState]
        x == [m |-> m, e |-> e, closed |-> parentAreClosed(stacks, e.tag)]
        interrupt == findPossibleInterrupt(m, e)
    IN  CASE interrupt # NoState -> [s EXCEPT !.res = interrupt]
          [] interrupt = NoState /\ e.name = "Empty" /\ (items = <<>> \/ greeted \/ ~m.greets) -> s
          [] interrupt = NoState /\ e.name # "Empty" /\ items = <<>> ->
                [s EXCEPT !.res = Thrown]
          [] OTHER -> findThePossibleNextStateOnStack(x, s, 0)

-----------------------------------------------------------------------------
(***************************************************************************)
(* The reference: a frame and the events it unfolds into are consumed one  *)
(* after the other, as if nothing else waited.  Advance returns what is    *)
(* expected after e, or Lost when the declaration does not allow e: the    *)
(* machine of its tag must be able to run it, the enclosing machine must   *)
(* have come to the Tagged node, and every machine of longer tags must be  *)
(* able to stop where it is.                                               *)
(***************************************************************************)
Lost == "lost" :> {}

Fragments == {"Partial", "Stub", "Short"}

Expected(m, exp, tag) == IF tag \in DOMAIN exp THEN exp[tag] ELSE {<<m.declared[TagKeys(tag)]>>}

Consume(m, exp, tag, by) == (tag :> UNION {Residuals(k, by) : k \in Expected(m, exp, tag)}) @@ exp

Meant(m, e) == IF e.name \in DOMAIN m.meant THEN m.meant[e.name]
               ELSE {leaf \in m.leaves : canRunEvent(m, leaf, e) = "yes"}

RECURSIVE Advance(_, _, _)
Advance(m, exp, e) ==
    LET interrupt == findPossibleInterrupt(m, e)
        by    == IF interrupt = NoState THEN Meant(m, e) ELSE {interrupt}
        gate  == IF e.tag = <<>> THEN exp ELSE Consume(m, exp, Front(e.tag), {Last(e.tag)[1]})
        after == Consume(m, gate, e.tag, by)
        stop  == \A t \in DOMAIN exp \ {e.tag} : isSubKey(e.tag, t) => \E k \in exp[t] : MayStop(k)
        now   == CASE exp = Lost -> Lost
                   [] exp # Lost /\ (interrupt # NoState \/ e.name \in Fragments) -> exp
                   [] OTHER -> IF stop /\ \A t \in DOMAIN after : after[t] # {} THEN after ELSE Lost
    IN  IF e.body # <<>> /\ by \cap m.forwards # {} THEN Advance(m, now, e.body[1]) ELSE now

-----------------------------------------------------------------------------
(* sendGreetings, on accept: an empty BytesEvent.                          *)
Greeting == [name |-> "Empty", tag |-> <<>>, raw |-> TRUE, body |-> <<>>]

Init ==
    /\ machine \in Machines
    /\ executionStack = << >>
    /\ greetingsSent = FALSE
    /\ remainingBytes = FALSE
    /\ clientOpen = TRUE
    /\ queue = IF machine.greets THEN <<Greeting>> ELSE <<>>
    /\ last = [event |-> Greeting, res |-> NoState]
    /\ expected = IF machine.greets THEN Advance(machine, << >>, Greeting) ELSE << >>
    /\ conforms = TRUE

(* channelRead: a frame of the client, whole or only its beginning.        *)
ClientSends(e) ==
    /\ clientOpen
    /\ Len(queue) <= Pipelined(machine)
    /\ queue' = Append(queue, e)
    /\ expected' = Advance(machine, expected, e)
    /\ conforms' = (expected' # Lost)
    /\ UNCHANGED <<machine, executionStack, greetingsSent, remainingBytes, clientOpen, last>>

(* Bytes are appended to what was left by the event before: with them a    *)
(* stub is more than one.                                                  *)
Joined(e) == IF remainingBytes /\ e.name = "Stub" THEN [e EXCEPT !.name = "Partial"] ELSE e

(* Mutant: the event a state sends to its own context is lost.             *)
SentEventLost ==
    /\ queue # <<>>
    /\ LET e == Head(queue)
           stacks == preExecute(machine, executionStack, e.tag)
           s == findThePossibleNextState(machine, stacks, greetingsSent, e)
       IN  /\ executionStack' = [stacks EXCEPT ![e.tag] = [i \in DOMAIN s.stack |-> s.heap[s.stack[i]]]]
           /\ last' = [event |-> e, res |-> s.res]
           /\ queue' = Tail(queue)
           /\ greetingsSent' = (greetingsSent \/ (e.name = "Empty" /\ machine.greets))
    /\ UNCHANGED <<machine, expected, conforms, remainingBytes, clientOpen>>

(***************************************************************************)
(* reactToEvent: the search, then the execution of the state found.  A     *)
(* translator or a command sends what it decoded to its own context, a     *)
(* Stop step closes the client, and so do a FailedState and an exception   *)
(* (handleExceptionInternal).  A search that asks for more data keeps the  *)
(* bytes for the next event.  The empty buffer postExecute sends again     *)
(* after a whole frame finds the greetings sent, or no greetings, and      *)
(* changes nothing.                                                        *)
(***************************************************************************)
reactToEvent ==
    /\ queue # <<>>
    /\ LET e == Joined(Head(queue))
           stacks == preExecute(machine, executionStack, e.tag)
           s == findThePossibleNextState(machine, stacks, greetingsSent, e)
           res == IF e.name \in machine.throws THEN Thrown ELSE s.res
       IN  /\ executionStack' = [stacks EXCEPT ![e.tag] = [i \in DOMAIN s.stack |-> s.heap[s.stack[i]]]]
           /\ greetingsSent' = (greetingsSent \/ (e.name = "Empty" /\ machine.greets))
           /\ remainingBytes' = (s.res = AskMore \/ (remainingBytes /\ ~e.raw))
           /\ clientOpen' = (clientOpen /\ res \notin {Failed, Thrown} \cup machine.stops)
           /\ queue' = IF res \in machine.forwards THEN Tail(queue) \o e.body ELSE Tail(queue)
           /\ last' = [event |-> e, res |-> res]
    /\ UNCHANGED <<machine, expected, conforms>>

Next == (\E e \in machine.events : ClientSends(e)) \/ reactToEvent

Spec == Init /\ [][Next]_vars

-----------------------------------------------------------------------------
(* Every item on a stack is a node of the machine of its tags and points   *)
(* at one of its children or just past the last one.                       *)
TypeOK ==
    /\ machine \in Machines
    /\ \A t \in DOMAIN executionStack : \A i \in DOMAIN executionStack[t] :
            LET item == executionStack[t][i]
            IN  \/ item = Missing
                \/ HasRoot(machine, t) /\ item.node \in Nodes(Root(machine, t))
                     /\ item.next \in 1..(Len(item.node.children) + 1)
    /\ greetingsSent \in BOOLEAN /\ remainingBytes \in BOOLEAN /\ clientOpen \in BOOLEAN
    /\ conforms = (expected # Lost)

(***************************************************************************)
(* A client whose frames, one after the other, follow the declaration of   *)
(* the protocol is closed only by a Stop step, whatever waits in the queue *)
(* when they arrive: the greedy search of findThePossibleNextStateOnStack, *)
(* which takes children for good and never goes back, loses no declared    *)
(* run.  The exception is a frame the network cut where no leaf asks for   *)
(* the rest: within its header, or just before its last byte.              *)
(***************************************************************************)
ConformingClientServed ==
    [][conforms /\ clientOpen /\ ~clientOpen'
         => last'.res \in machine.stops \/ last'.event.name \in {"Stub", "Short"}]_vars

(***************************************************************************)
(* The execution stack does not leak: the items left on it by While,       *)
(* SwitchCase and Sequence searches never outnumber the nodes on the       *)
(* longest path of the declaration, however many events were handled.      *)
(***************************************************************************)
StackBounded ==
    \A t \in DOMAIN executionStack :
        executionStack[t] # <<>> /\ HasRoot(machine, t)
            => Len(executionStack[t]) <= Height(Root(machine, t))

(***************************************************************************)
(* No event is swallowed: a search that finds nothing fails.  It returns   *)
(* null ("May be next time") only for the empty buffer.                    *)
(***************************************************************************)
NoEventSwallowed == last.res = NoState => last.event.name = "Empty"

Reacted == queue # <<>> /\ last'.event = Joined(Head(queue)) /\ Len(queue') <= Len(queue)

(***************************************************************************)
(* The beginning of a frame does not move the machine: asking for more     *)
(* data leaves every execution stack as it was ("In case of askmoredata    *)
(* just continue without doing nothing").  It is worth asking only of the  *)
(* protocols without a translator, and there it does not hold.             *)
(***************************************************************************)
FragmentKeepsPlace ==
    [][Reacted /\ last'.res = AskMore
         => \A t \in DOMAIN executionStack : executionStack'[t] = executionStack[t]]_vars

(* The While on top of a stack has mandatory children left in its round    *)
(* and the state that runs next on that stack is not one of theirs.        *)
RoundLeft ==
    /\ Reacted
    /\ last'.res \in machine.leaves
    /\ last'.event.tag \in DOMAIN executionStack
    /\ LET stack == executionStack[last'.event.tag]
           item  == Last(stack)
           rest  == {c \in DOMAIN item.node.children : c >= item.next}
       IN  /\ stack # <<>>
           /\ item.node.kind = "While"
           /\ item.next > 1 /\ rest # {} /\ ~Skippable(item.node.children[item.next])
           /\ last'.res \notin UNION {Leaves(item.node.children[c]) : c \in rest}

(***************************************************************************)
(* executeLoop: "loops, can stop only before start or after end".  When    *)
(* the client sends a frame only after the last one was reacted to, with   *)
(* the events it unfolded into, a round of a While that has begun is run   *)
(* to its end before another state runs.                                   *)
(***************************************************************************)
LoopStopsBetweenRounds == [][~RoundLeft]_vars
=============================================================================
