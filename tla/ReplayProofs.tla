---------------------------- MODULE ReplayProofs ----------------------------
(***************************************************************************)
(* Replaying, for any recording, any clients and modes, and any number of  *)
(* switches and connections.                                               *)
(***************************************************************************)
EXTENDS Replay, TLAPS, FiniteSetTheorems, SequenceTheorems, WellFoundedInduction

Callbacks == Lines \ Calls
Pairs     == Callbacks \X Contexts
AnyTask   == [do : {"none", "react", "steps", "callbacks"}, ctx : Contexts \cup {<<>>},
              call : Calls \cup {0}, extra : BOOLEAN, callbacks : Seq(Pairs)]

(* The types of every variable.                                            *)
TypedFlags ==
    /\ mode \in Modes
    /\ active \in BOOLEAN /\ settingsActive \in BOOLEAN /\ repo \in BOOLEAN /\ disturbed \in BOOLEAN
    /\ completedIndexes \in SUBSET Calls /\ completedOutIndexes \in SUBSET Callbacks
    /\ indexes \in {{}, Indexed}
    /\ events \in Seq({"StartPlay", "EndPlay"})
    /\ switchPc \in {"idle", "wait", "load", "unload", "reset"}
    /\ toReset \in SUBSET Contexts /\ cache \in SUBSET Contexts /\ fresh \in SUBSET Contexts
    /\ switches \in 0..MaxSwitches
TypedClients ==
    /\ connects \in [Clients -> 0..MaxConnects]
    /\ subscribed \in [Clients -> SUBSET Queues]
    /\ pos \in [Clients -> Nat]
    /\ answers \in [Clients -> Seq(Calls \cup {0})]
    /\ messages \in [Clients -> Seq([line : Callbacks, after : Nat])]
TypedThread ==
    /\ tasks \in Seq(AnyTask) /\ task \in AnyTask
    /\ pc \in {"idle", "find", "mark", "load", "callbacks"}
    /\ found \in Calls \cup {0} /\ result \in Seq(Pairs)
Typed == TypedFlags /\ TypedClients /\ TypedThread

(* What the thread of the executor has in hand.                            *)
InCall == pc \in {"find", "mark", "load"}
Proper(t) ==
    \/ t.do = "callbacks" /\ t.ctx = <<>>
    \/ /\ t.do \in {"react", "steps"} /\ t.callbacks = <<>>
       /\ t.ctx \in Contexts /\ t.call \in Calls
Hands ==
    /\ \A i \in DOMAIN tasks : Proper(tasks[i])
    /\ InCall => task.ctx \in Contexts /\ task.call \in Calls
    /\ ~InCall => task = Task
    /\ pc # "callbacks" => result = <<>>
    /\ pc \in {"mark", "load"} =>
          found # 0 /\ (mode.tagged => Recorded[found].type = Recorded[task.call].type)

(* A client has one context open at most, its last; what there is was      *)
(* opened before.                                                          *)
Known(ctx, last) == ctx[2] <= last[ctx[1]]
KnownTask(t, last) ==
    /\ t.ctx \in Contexts => Known(t.ctx, last)
    /\ \A j \in DOMAIN t.callbacks : Known(t.callbacks[j][2], last)
Opened ==
    /\ \A ctx \in cache : ctx = Context(ctx[1])
    /\ \A i \in DOMAIN tasks : KnownTask(tasks[i], connects)
    /\ KnownTask(task, connects)
    /\ \A j \in DOMAIN result : Known(result[j][2], connects)

(* The two flags while replaying is switched, and the contexts there are   *)
(* then: none is fresh, and only the iteration of disconnectAll has some.  *)
Switched ==
    /\ switchPc \in {"wait", "load"} => settingsActive /\ ~active
    /\ switchPc = "unload" => ~settingsActive /\ active
    /\ switchPc \in {"reset", "idle"} => (active <=> settingsActive)
    /\ switchPc # "reset" => toReset = {}
    /\ fresh # {} => switchPc = "idle" /\ active
    /\ fresh \subseteq cache /\ toReset \subseteq cache

TypeInv == Typed /\ Hands /\ Opened /\ Switched

-----------------------------------------------------------------------------
(* A client has one call under way at most, the one it sent last: of the   *)
(* queue q and the task t in hand at most one is for its context, when it  *)
(* has sent p calls and has a answers.                                     *)
CallOk(t, p, a, prog) ==
    /\ p = a + 1
    /\ IF p > Len(prog) THEN t.extra /\ t.call = prog[Len(prog)] ELSE ~t.extra /\ t.call = prog[p]
Single(ctx, q, t, p, a, prog) ==
    /\ \A i \in DOMAIN q : q[i].ctx = ctx => CallOk(q[i], p, a, prog)
    /\ t.ctx = ctx => CallOk(t, p, a, prog) /\ \A i \in DOMAIN q : q[i].ctx # ctx
    /\ \A i, j \in DOMAIN q : q[i].ctx = ctx /\ q[j].ctx = ctx => i = j
    /\ a <= p /\ p <= Len(prog) + 1
OneCall(c) == Single(Context(c), tasks, task, pos[c], Len(answers[c]), Program[c])

(* The calls of the flow that were answered, or have taken their line.     *)
Served ==
    {l \in Calls : LET c == Recorded[l].client IN
        /\ Context(c) \in fresh
        /\ \E k \in DOMAIN Program[c] :
              /\ Program[c][k] = l
              /\ k <= Len(answers[c]) \/ (k = pos[c] /\ pc = "load" /\ task.ctx = Context(c))}

(* No more lines are used than calls were served, among those that match.  *)
Alike(l) == {m \in Calls : mode.tagged => Recorded[m].type = Recorded[l].type}
Counted ==
    ~disturbed => \A l \in Calls :
        Cardinality(completedIndexes \cap Alike(l)) <= Cardinality(Served \cap Alike(l))

(* The plugin has lines and does not leave the calls to the server.        *)
Plays == indexes # {} /\ (mode.tagged => mode.blockExternal)
TakesLines ==
    task.ctx \in fresh =>
        /\ pc \in {"mark", "load"} => Plays
        /\ pc = "load" /\ ~disturbed => ~task.extra

CallInv == TypeInv /\ (\A c \in Clients : OneCall(c)) /\ Counted /\ TakesLines /\ NoCallLost

-----------------------------------------------------------------------------
(* A context that is neither of the session nor to be disconnected.        *)
Stray(ctx) == ctx \in cache \ (fresh \cup toReset)
Strays ==
    isActive /\ ~disturbed /\ Plays => \A c \in Clients : Stray(Context(c)) =>
        answers[c] = <<>> /\ (task.ctx = Context(c) => pc # "load")

(* Clients that keep the order: what a call follows was answered.          *)
Turns ==
    mode.ordered => \A c \in Fresh :
        pos[c] <= Len(Program[c]) /\ \A k \in 1..pos[c] : InTurn(Program[c][k])

(* A line is used by its own call only.                                    *)
Recalled ==
    Faithful =>
        /\ completedIndexes \subseteq Served
        /\ task.ctx \in fresh /\ ~task.extra =>
              /\ pc \in {"mark", "load"} => found = task.call
              /\ pc = "load" => found \in completedIndexes
        /\ \A c \in Fresh : \A k \in DOMAIN Program[c] : k <= Len(answers[c]) =>
              IF Plays THEN answers[c][k] = Program[c][k] /\ Program[c][k] \in completedIndexes
                       ELSE answers[c][k] = Upstream

RecallInv == CallInv /\ Strays /\ Turns /\ Recalled

-----------------------------------------------------------------------------
(* The callbacks of a context, in the order in which it gets them, are in  *)
(* the relation R: those it got, those of the result r that is being sent, *)
(* and those of the tasks q.                                               *)
For(p, ctx) == p[2] = ctx
Lined(ctx, got, r, q, R) ==
    /\ \A i, j \in DOMAIN got : i < j => <<got[i].line, got[j].line>> \in R
    /\ \A i \in DOMAIN got : \A j \in DOMAIN r : For(r[j], ctx) => <<got[i].line, r[j][1]>> \in R
    /\ \A i \in DOMAIN got : \A t \in DOMAIN q : \A j \in DOMAIN q[t].callbacks :
          For(q[t].callbacks[j], ctx) => <<got[i].line, q[t].callbacks[j][1]>> \in R
    /\ \A i, j \in DOMAIN r : i < j /\ For(r[i], ctx) /\ For(r[j], ctx) => <<r[i][1], r[j][1]>> \in R
    /\ \A i \in DOMAIN r : \A t \in DOMAIN q : \A j \in DOMAIN q[t].callbacks :
          For(r[i], ctx) /\ For(q[t].callbacks[j], ctx) => <<r[i][1], q[t].callbacks[j][1]>> \in R
    /\ \A t \in DOMAIN q : \A i, j \in DOMAIN q[t].callbacks :
          i < j /\ For(q[t].callbacks[i], ctx) /\ For(q[t].callbacks[j], ctx)
              => <<q[t].callbacks[i][1], q[t].callbacks[j][1]>> \in R
    /\ \A t, u \in DOMAIN q : \A i \in DOMAIN q[t].callbacks : \A j \in DOMAIN q[u].callbacks :
          t < u /\ For(q[t].callbacks[i], ctx) /\ For(q[u].callbacks[j], ctx)
              => <<q[t].callbacks[i][1], q[u].callbacks[j][1]>> \in R
LineUp(c, R) == Lined(Context(c), messages[c], result, tasks, R)

(* Callback m was given to the last context of a client.                   *)
Holds(ctx, got, r, q, m) ==
    \/ \E i \in DOMAIN got : got[i].line = m
    \/ \E j \in DOMAIN r : For(r[j], ctx) /\ r[j][1] = m
    \/ \E t \in DOMAIN q : \E j \in DOMAIN q[t].callbacks :
           For(q[t].callbacks[j], ctx) /\ q[t].callbacks[j][1] = m
Given(c, m) == Holds(Context(c), messages[c], result, tasks, m)

Doomed(ctx) == switchPc = "unload" \/ ctx \in toReset
Different   == {p \in Callbacks \X Callbacks : p[1] # p[2]}

(* A client gets no callback twice.                                        *)
NeverTwice ==
    \A c \in Clients : \A i, j \in DOMAIN messages[c] :
        i # j => messages[c][i].line # messages[c][j].line

(* While replaying is on, a callback that was given to an open context is  *)
(* not taken again.                                                        *)
GivenTaken ==
    settingsActive => \A c \in Clients : Context(c) \in cache =>
        LineUp(c, Different) /\ \A m \in Callbacks : Given(c, m) => m \in completedOutIndexes

(* While it is off, a context that will stay has none, and does not get    *)
(* one from the call that is still in hand.                                *)
NoneLeft ==
    ~settingsActive => \A c \in Clients : Context(c) \in cache /\ ~Doomed(Context(c)) =>
        (\A m \in Callbacks : ~Given(c, m)) /\ (InCall => subscribed[c] = {})

Once == NeverTwice /\ GivenTaken /\ NoneLeft

(* A call from before the session takes no callbacks; only the calls of    *)
(* the flow do.                                                            *)
Takers ==
    settingsActive /\ ~disturbed =>
        /\ pc = "load" /\ task.ctx \notin fresh =>
              \A c \in Clients : Context(c) \in cache => subscribed[c] = {}
        /\ completedOutIndexes # {} => fresh # {} /\ Plays

OnceInv == CallInv /\ Once /\ Takers

-----------------------------------------------------------------------------
(* The k-th call of a client subscribes to a queue.                        *)
Subscribes(c, k, q) ==
    /\ k \in DOMAIN Program[c]
    /\ Recorded[Program[c][k]].type = "Subscribe" /\ Recorded[Program[c][k]].queue = q

(* The k-th call was answered, is in hand, or is ahead of position t in    *)
(* the queue q: what waits there comes after its answer.                   *)
Ahead(ctx, q, t) == \E i \in DOMAIN q : i < t /\ q[i].ctx = ctx /\ q[i].do = "steps"
Ready(c, k, t) ==
    \/ k <= Len(answers[c])
    \/ k = pos[c] /\ (task.ctx = Context(c) \/ Ahead(Context(c), tasks, t))

(* A subscription to a queue was answered with the first n calls, or will  *)
(* be before position t of the queue.                                      *)
Answered(c, queue, n) == \E k \in DOMAIN Program[c] : Subscribes(c, k, queue) /\ k <= n
Awaited(c, queue, t)  == \E k \in DOMAIN Program[c] : Subscribes(c, k, queue) /\ Ready(c, k, t)

Subscriptions ==
    ~disturbed /\ indexes # {} => \A c \in Fresh :
        \A queue \in subscribed[c] : Awaited(c, queue, Len(tasks) + 1)

(* Callbacks follow the subscription on their way.                         *)
GotFollow(c) ==
    \A i \in DOMAIN messages[c] :
        Answered(c, Recorded[messages[c][i].line].queue, messages[c][i].after)
SentFollow(c) ==
    \A j \in DOMAIN result : For(result[j], Context(c)) =>
        Answered(c, Recorded[result[j][1]].queue, Len(answers[c]))
TasksFollow(c) ==
    \A t \in DOMAIN tasks : \A j \in DOMAIN tasks[t].callbacks :
        For(tasks[t].callbacks[j], Context(c)) =>
            Awaited(c, Recorded[tasks[t].callbacks[j][1]].queue, t)
Follows == ~disturbed => \A c \in Fresh : GotFollow(c) /\ SentFollow(c) /\ TasksFollow(c)

FollowInv == OnceInv /\ Subscriptions /\ Follows

-----------------------------------------------------------------------------
(* Callback m was recorded after call l and before any other.              *)
After(l, m) == l < m /\ \A n \in (l + 1)..m : Recorded[n].type = "RESPONSE"
Before == {p \in Callbacks \X Callbacks : Precedes(p[1], p[2])}
Done(c, k) == k \in DOMAIN Program[c] /\ k <= Len(answers[c])

(* The callbacks given are those of calls that were answered.              *)
Ordered ==
    mode.ordered /\ ~disturbed => \A c \in Fresh :
        /\ LineUp(c, Before)
        /\ \A m \in Callbacks : Given(c, m) =>
              \E d \in Fresh : \E k \in DOMAIN Program[d] : Done(d, k) /\ After(Program[d][k], m)

OrderInv == RecallInv /\ OnceInv /\ Ordered

-----------------------------------------------------------------------------
(* The queue of a subscription is in the context, or without tags that of  *)
(* a later one.                                                            *)
Noted(c, k, queue) ==
    \/ queue \in subscribed[c]
    \/ ~mode.tagged /\ \E n \in DOMAIN Program[c] : \E other \in Queues :
          n > k /\ other # queue /\ Subscribes(c, n, other) /\ Ready(c, n, Len(tasks) + 1)
AllNoted ==
    mode.ordered /\ ~disturbed /\ Plays =>
        \A c \in Fresh : \A k \in DOMAIN Program[c] : \A queue \in Queues :
            Subscribes(c, k, queue) /\ Ready(c, k, Len(tasks) + 1) => Noted(c, k, queue)

(* A batch is for open contexts or for none.                               *)
Whole(pairs, open) ==
    (\A j \in DOMAIN pairs : pairs[j][2] \in open) \/ (\A j \in DOMAIN pairs : pairs[j][2] \notin open)
AllWhole ==
    settingsActive /\ ~disturbed =>
        Whole(result, cache) /\ \A t \in DOMAIN tasks : Whole(tasks[t].callbacks, cache)

(* What was taken is on its way.                                           *)
OnItsWay ==
    settingsActive /\ ~disturbed =>
        \A m \in completedOutIndexes : \E c \in Clients : Context(c) \in cache /\ Given(c, m)

(* The callbacks after an answered call were taken.                        *)
AllTaken ==
    Addressed /\ mode.ordered /\ ~disturbed /\ Plays => \A c \in Fresh : \A k \in DOMAIN Program[c] :
        Done(c, k) => \A m \in Indexed \ Calls :
            After(Program[c][k], m) => m \in completedOutIndexes

ReachInv == RecallInv /\ OnceInv /\ AllNoted /\ AllWhole /\ OnItsWay /\ AllTaken

-----------------------------------------------------------------------------
(* The lines are the first numbers.                                        *)
LEMMA LinesAre ==
    /\ Len(Recorded) \in Nat /\ Lines = 1..Len(Recorded)
    /\ IsFiniteSet(Lines) /\ IsFiniteSet(Calls)
    /\ Calls \subseteq Lines
    /\ \A l \in Lines : /\ Recorded[l].type \in CallType \cup {"RESPONSE"}
                        /\ Recorded[l].client \in Clients /\ Recorded[l].queue \in Queues
                        /\ Recorded[l].at \in Nat
<1>1. Len(Recorded) \in Nat /\ Lines = 1..Len(Recorded)
    BY RecordingAssumption, LenProperties DEF Lines
<1>2. IsFiniteSet(Lines)
    <2>1. Len(Recorded) \in Int /\ 1 \in Int
        BY <1>1
    <2> QED
        BY <1>1, <2>1, FS_Interval
<1>3. Calls \in SUBSET Lines
    BY DEF Calls
<1>4. IsFiniteSet(Calls)
    BY <1>2, <1>3, FS_Subset
<1>5. ASSUME NEW l \in Lines
      PROVE  /\ Recorded[l].type \in CallType \cup {"RESPONSE"}
             /\ Recorded[l].client \in Clients /\ Recorded[l].queue \in Queues
             /\ Recorded[l].at \in Nat
    <2>1. Recorded[l] \in [type : CallType \cup {"RESPONSE"}, client : Clients, queue : Queues, at : Nat]
        BY <1>1, <1>5, RecordingAssumption, ElementOfSeq
    <2> QED
        BY <2>1
<1> QED
    BY <1>1, <1>2, <1>3, <1>4, <1>5

(* A set is sorted by a strict total order.                                *)
LEMMA SortedIs ==
    ASSUME NEW S \in SUBSET Lines, NEW R,
           \A x \in S : <<x, x>> \notin R,
           \A x, y \in S : x # y => <<x, y>> \in R \/ <<y, x>> \in R,
           \A x, y, z \in S : <<x, y>> \in R /\ <<y, z>> \in R => <<x, z>> \in R
    PROVE  /\ Sorted(S, R) \in Seq(S)
           /\ Cardinality(S) \in Nat /\ Len(Sorted(S, R)) = Cardinality(S)
           /\ \A x \in S : \E k \in DOMAIN Sorted(S, R) : Sorted(S, R)[k] = x
           /\ \A i, j \in DOMAIN Sorted(S, R) : i < j => <<Sorted(S, R)[i], Sorted(S, R)[j]>> \in R
<1> DEFINE UpTo(x) == {y \in S : y = x \/ <<y, x>> \in R}
           n == Cardinality(S)
           rank == [x \in S |-> Cardinality(UpTo(x))]
<1>1. IsFiniteSet(S) /\ n \in Nat
    BY LinesAre, FS_Subset, FS_CardinalityType
<1>2. ASSUME NEW x \in S
      PROVE  IsFiniteSet(UpTo(x)) /\ Cardinality(UpTo(x)) \in 1..n
    <2>1. UpTo(x) \in SUBSET S /\ x \in UpTo(x)
        OBVIOUS
    <2>2. IsFiniteSet(UpTo(x)) /\ Cardinality(UpTo(x)) <= n
        BY <1>1, <2>1, FS_Subset
    <2>3. Cardinality(UpTo(x)) \in Nat /\ Cardinality(UpTo(x)) # 0
        BY <2>1, <2>2, FS_CardinalityType, FS_EmptySet
    <2> QED
        BY <1>1, <2>2, <2>3
<1>3. ASSUME NEW x \in S, NEW y \in S, <<x, y>> \in R
      PROVE  Cardinality(UpTo(x)) < Cardinality(UpTo(y))
    <2>1. UpTo(x) \in SUBSET UpTo(y)
        BY <1>3
    <2>2. y \in UpTo(y) /\ y \notin UpTo(x)
        <3>1. y # x
            BY <1>3
        <3>2. <<y, x>> \notin R
            BY <1>3
        <3> QED
            BY <3>1, <3>2
    <2>3. UpTo(x) # UpTo(y)
        BY <2>2
    <2>4. /\ Cardinality(UpTo(x)) <= Cardinality(UpTo(y))
          /\ Cardinality(UpTo(y)) # Cardinality(UpTo(x))
        BY <1>2, <2>1, <2>3, FS_Subset
    <2> HIDE DEF UpTo
    <2>5. Cardinality(UpTo(x)) \in Nat /\ Cardinality(UpTo(y)) \in Nat
        BY <1>1, <1>2
    <2> QED
        BY <2>4, <2>5
<1> HIDE DEF UpTo
<1>4. rank \in [S -> 1..n]
    BY <1>2
<1>5. \A x, y \in S : rank[x] = rank[y] => x = y
    <2> SUFFICES ASSUME NEW x \in S, NEW y \in S, x # y PROVE rank[x] # rank[y]
        OBVIOUS
    <2>1. rank[x] = Cardinality(UpTo(x)) /\ rank[y] = Cardinality(UpTo(y))
        OBVIOUS
    <2>2. rank[x] \in Nat /\ rank[y] \in Nat
        BY <1>2, <2>1
    <2>3. rank[x] < rank[y] \/ rank[y] < rank[x]
        BY <1>3, <2>1
    <2> QED
        BY <2>2, <2>3
<1>6. rank \in Injection(S, 1..n)
    BY <1>4, <1>5 DEF Injection, IsInjective
<1>7. rank \in Surjection(S, 1..n)
    <2>1. IsFiniteSet(1..n) /\ Cardinality(1..n) = n
        <3>1. 1 \in Int /\ n \in Int
            BY <1>1
        <3> QED
            BY <1>1, <3>1, FS_Interval
    <2> QED
        BY <1>6, <2>1, FS_Injection
<1>8. ASSUME NEW k \in 1..n
      PROVE  Sorted(S, R)[k] \in S /\ rank[Sorted(S, R)[k]] = k
    <2>1. \E x \in S : Cardinality(UpTo(x)) = k
        BY <1>7 DEF Surjection
    <2>2. Sorted(S, R)[k] = CHOOSE x \in S : Cardinality(UpTo(x)) = k
        BY DEF Sorted, UpTo
    <2> QED
        BY <2>1, <2>2
<1> DEFINE nth(k) == CHOOSE x \in S : Cardinality(UpTo(x)) = k
<1>9. Sorted(S, R) = [k \in 1..n |-> nth(k)] /\ \A k \in 1..n : nth(k) \in S
    <2>1. Sorted(S, R) = [k \in 1..n |-> nth(k)]
        BY DEF Sorted, UpTo
    <2>2. \A k \in 1..n : Sorted(S, R)[k] = nth(k)
        BY <2>1
    <2>3. ASSUME NEW k \in 1..n PROVE nth(k) \in S
        BY <1>8, <2>2
    <2> HIDE DEF nth
    <2> QED
        BY <2>1, <2>3
<1> HIDE DEF rank, nth
<1>10. Sorted(S, R) \in Seq(S) /\ Len(Sorted(S, R)) = n /\ DOMAIN Sorted(S, R) = 1..n
    BY <1>1, <1>9
<1>11. ASSUME NEW x \in S PROVE \E k \in 1..n : Sorted(S, R)[k] = x
    <2>1. rank[x] \in 1..n
        BY <1>4
    <2> QED
        BY <1>5, <1>8, <2>1
<1>12. ASSUME NEW i \in 1..n, NEW j \in 1..n, i < j
       PROVE  <<Sorted(S, R)[i], Sorted(S, R)[j]>> \in R
    <2> DEFINE x == Sorted(S, R)[i]
               y == Sorted(S, R)[j]
    <2>1. x \in S /\ y \in S /\ rank[x] = i /\ rank[y] = j
        BY <1>8
    <2>2. x # y
        BY <1>12, <2>1
    <2>3. <<y, x>> \notin R
        <3>1. rank[x] = Cardinality(UpTo(x)) /\ rank[y] = Cardinality(UpTo(y))
            BY <2>1 DEF rank
        <3> QED
            BY <1>3, <1>12, <2>1, <3>1
    <2> QED
        BY <2>1, <2>2, <2>3
<1> QED
    BY <1>1, <1>10, <1>11, <1>12

(* The program of a client has its calls, each once, in their order.       *)
LEMMA ProgramIs ==
    ASSUME NEW c \in Clients
    PROVE  /\ Program[c] \in Seq(Calls) /\ Len(Program[c]) \in Nat /\ Len(Program[c]) > 0
           /\ DOMAIN Program[c] = 1..Len(Program[c])
           /\ \A k \in DOMAIN Program[c] : Program[c][k] \in Calls /\ Recorded[Program[c][k]].client = c
           /\ \A l \in Calls : Recorded[l].client = c => \E k \in DOMAIN Program[c] : Program[c][k] = l
           /\ \A i, j \in DOMAIN Program[c] : i < j => Program[c][i] < Program[c][j]
<1> DEFINE S == {l \in Calls : Recorded[l].client = c}
<1>1. S \in SUBSET Lines /\ S \subseteq Calls
    BY LinesAre
<1>2. \A x, y \in S : <<x, y>> \in Ids <=> x < y
    BY <1>1 DEF Ids
<1>3. S \subseteq Nat
    BY <1>1, LinesAre
<1>4. Program[c] = Sorted(S, Ids)
    BY DEF Program
<1>a. /\ \A x \in S : <<x, x>> \notin Ids
      /\ \A x, y \in S : x # y => <<x, y>> \in Ids \/ <<y, x>> \in Ids
      /\ \A x, y, z \in S : <<x, y>> \in Ids /\ <<y, z>> \in Ids => <<x, z>> \in Ids
    BY <1>2, <1>3
<1> HIDE DEF S
<1>5. /\ Program[c] \in Seq(S)
      /\ \A x \in S : \E k \in DOMAIN Program[c] : Program[c][k] = x
      /\ \A i, j \in DOMAIN Program[c] : i < j => <<Program[c][i], Program[c][j]>> \in Ids
    BY <1>1, <1>a, <1>4, SortedIs
<1>6. /\ Len(Program[c]) \in Nat /\ DOMAIN Program[c] = 1..Len(Program[c])
      /\ \A k \in DOMAIN Program[c] : Program[c][k] \in S
    BY <1>5
<1>7. Program[c] \in Seq(Calls)
    <2>1. Program[c] \in [1..Len(Program[c]) -> Calls]
        BY <1>1, <1>5, <1>6
    <2> QED
        BY <1>6, <2>1
<1>8. PICK l \in S : TRUE
    BY RecordingAssumption DEF S
<1>9. Len(Program[c]) > 0
    BY <1>5, <1>6, <1>8
<1>10. \A i, j \in DOMAIN Program[c] : i < j => Program[c][i] < Program[c][j]
    BY <1>2, <1>5, <1>6
<1> QED
    BY <1>5, <1>6, <1>7, <1>9, <1>10 DEF S

-----------------------------------------------------------------------------
(* Sequences: an element is appended, or the first one taken away.         *)
LEMMA Appended ==
    ASSUME NEW T, NEW s \in Seq(T), NEW e \in T, NEW t, t = Append(s, e)
    PROVE  /\ t \in Seq(T) /\ Len(s) \in Nat /\ Len(t) = Len(s) + 1
           /\ DOMAIN s = 1..Len(s) /\ DOMAIN t = 1..(Len(s) + 1)
           /\ \A i \in DOMAIN s : i \in DOMAIN t /\ t[i] = s[i] /\ i < Len(s) + 1 /\ i # Len(s) + 1
           /\ \A i \in DOMAIN t : (i \in DOMAIN s /\ t[i] = s[i]) \/ (i = Len(s) + 1 /\ t[i] = e)
           /\ Len(s) + 1 \in DOMAIN t /\ t[Len(s) + 1] = e
<1>1. t \in Seq(T) /\ Len(t) = Len(s) + 1 /\ Len(s) \in Nat
    OBVIOUS
<1>2. DOMAIN s = 1..Len(s) /\ DOMAIN t = 1..(Len(s) + 1)
    BY <1>1
<1>3. \A i \in 1..Len(s) : t[i] = s[i]
    OBVIOUS
<1>4. t[Len(s) + 1] = e
    OBVIOUS
<1> QED
    BY <1>1, <1>2, <1>3, <1>4

LEMMA Shifted ==
    ASSUME NEW T, NEW s \in Seq(T), s # <<>>, NEW t, t = Tail(s)
    PROVE  /\ t \in Seq(T) /\ 1 \in DOMAIN s /\ Head(s) = s[1] /\ Head(s) \in T
           /\ Len(s) \in Nat /\ Len(s) = Len(t) + 1 /\ Len(t) \in Nat
           /\ DOMAIN s = 1..Len(s) /\ DOMAIN t = 1..Len(t)
           /\ \A i \in DOMAIN t : i + 1 \in DOMAIN s /\ t[i] = s[i + 1] /\ i + 1 # 1
           /\ \A i \in DOMAIN s : i = 1 \/ \E h \in DOMAIN t : i = h + 1 /\ t[h] = s[i]
<1>1. /\ Len(s) \in Nat /\ Len(s) >= 1 /\ DOMAIN s = 1..Len(s) /\ Head(s) = s[1] /\ Head(s) \in T
    OBVIOUS
<1>2. /\ t \in Seq(T) /\ Len(t) = Len(s) - 1
      /\ \A i \in 1..(Len(s) - 1) : t[i] = s[i + 1]
    BY HeadTailProperties
<1>3. DOMAIN t = 1..(Len(s) - 1)
    BY <1>1, <1>2
<1>4. ASSUME NEW i \in DOMAIN s, i # 1 PROVE \E h \in DOMAIN t : i = h + 1 /\ t[h] = s[i]
    <2>1. i - 1 \in DOMAIN t /\ i = (i - 1) + 1
        BY <1>1, <1>3, <1>4
    <2> QED
        BY <1>2, <1>3, <2>1
<1> QED
    BY <1>1, <1>2, <1>3, <1>4

LEMMA Rest ==
    ASSUME NEW T, NEW s \in Seq(T), s # <<>>
    PROVE  /\ Tail(s) \in Seq(T) /\ 1 \in DOMAIN s /\ Head(s) = s[1] /\ Head(s) \in T
           /\ \A i \in DOMAIN s : i = 1 \/ \E h \in DOMAIN Tail(s) : Tail(s)[h] = s[i]
<1>1. PICK t : t = Tail(s)
    OBVIOUS
<1>2. /\ t \in Seq(T) /\ 1 \in DOMAIN s /\ Head(s) = s[1] /\ Head(s) \in T
      /\ Len(s) \in Nat /\ Len(s) = Len(t) + 1 /\ Len(t) \in Nat
      /\ DOMAIN s = 1..Len(s) /\ DOMAIN t = 1..Len(t)
      /\ \A i \in DOMAIN t : t[i] = s[i + 1]
    BY <1>1, Shifted
<1>3. ASSUME NEW i \in DOMAIN s, i # 1 PROVE \E h \in DOMAIN t : t[h] = s[i]
    <2>1. i - 1 \in DOMAIN t /\ i = (i - 1) + 1
        BY <1>2, <1>3
    <2> QED
        BY <1>2, <2>1
<1> QED
    BY <1>1, <1>2, <1>3

(* A context is told from none, and belongs to a client.                   *)
LEMMA ContextsAre ==
    /\ <<>> \notin Contexts
    /\ \A x \in Contexts : x = <<x[1], x[2]>> /\ x[1] \in Clients /\ x[2] \in 1..MaxConnects
    /\ \A c \in Clients : \A n \in 1..MaxConnects : <<c, n>> \in Contexts
    /\ MaxConnects \in Nat
<1>1. \A x \in Contexts : x = <<x[1], x[2]>> /\ x[1] \in Clients /\ x[2] \in 1..MaxConnects
    BY DEF Contexts
<1>2. <<>> \notin Contexts
    <2> SUFFICES ASSUME <<>> \in Contexts PROVE FALSE
        OBVIOUS
    <2>1. \E a, b : <<>> = <<a, b>>
        BY <1>1
    <2> QED
        BY <2>1
<1> QED
    BY <1>1, <1>2, RecordingAssumption DEF Contexts

(* The task there is when the thread has none in hand.                     *)
LEMMA TaskIs ==
    /\ Task \in AnyTask /\ Task.ctx = <<>> /\ Task.ctx \notin Contexts /\ Task.callbacks = <<>>
    /\ Task.do = "none"
<1>1. Task.ctx = <<>> /\ Task.callbacks = <<>> /\ Task.do = "none"
    BY DEF Task
<1>2. <<>> \in Seq(Pairs)
    OBVIOUS
<1>3. Task \in AnyTask
    BY <1>2 DEF Task, AnyTask
<1> QED
    BY <1>1, <1>3, ContextsAre

LEMMA InitTyped == Init => TypeInv
<1> SUFFICES ASSUME Init PROVE TypeInv
    OBVIOUS
<1> USE DEF Init
<1>1. Typed
    <2>1. 0 \in 0..MaxSwitches /\ 0 \in 0..MaxConnects
        BY RecordingAssumption
    <2>2. /\ connects \in [Clients -> 0..MaxConnects] /\ switches \in 0..MaxSwitches
          /\ subscribed \in [Clients -> SUBSET Queues] /\ pos \in [Clients -> Nat]
        BY <2>1
    <2>3. \A T : <<>> \in Seq(T)
        OBVIOUS
    <2>4. /\ answers \in [Clients -> Seq(Calls \cup {0})]
          /\ messages \in [Clients -> Seq([line : Callbacks, after : Nat])]
          /\ tasks \in Seq(AnyTask) /\ result \in Seq(Pairs)
          /\ events \in Seq({"StartPlay", "EndPlay"})
        BY <2>3
    <2> QED
        BY <2>2, <2>4, TaskIs DEF Typed, TypedFlags, TypedClients, TypedThread
<1>2. Hands
    BY DEF Hands, InCall
<1>3. Opened
    BY TaskIs DEF Opened, KnownTask
<1>4. Switched
    BY DEF Switched
<1> QED
    BY <1>1, <1>2, <1>3, <1>4 DEF TypeInv

-----------------------------------------------------------------------------
(* Timestamps, with the ids where they are the same, are a total order.    *)
LEMMA TimestampsOrder ==
    /\ \A x, y \in Lines : <<x, y>> \in Timestamps <=> ByTimestamp(x, y)
    /\ \A x \in Lines : <<x, x>> \notin Timestamps
    /\ \A x, y \in Lines : x # y => <<x, y>> \in Timestamps \/ <<y, x>> \in Timestamps
    /\ \A x, y, z \in Lines : <<x, y>> \in Timestamps /\ <<y, z>> \in Timestamps
                                  => <<x, z>> \in Timestamps
<1>1. \A x, y \in Lines : <<x, y>> \in Timestamps <=> ByTimestamp(x, y)
    BY DEF Timestamps
<1>2. \A x \in Lines : x \in Nat /\ Recorded[x].at \in Nat
    BY LinesAre
<1>3. \A x \in Lines : ~ByTimestamp(x, x)
    BY <1>2 DEF ByTimestamp
<1>4. \A x, y \in Lines : x # y => ByTimestamp(x, y) \/ ByTimestamp(y, x)
    BY <1>2 DEF ByTimestamp
<1>5. \A x, y, z \in Lines : ByTimestamp(x, y) /\ ByTimestamp(y, z) => ByTimestamp(x, z)
    BY <1>2 DEF ByTimestamp
<1> QED
    BY <1>1, <1>3, <1>4, <1>5

(* The callbacks an answer takes, and the task that is to send them.       *)
Taken == {m \in readResponsesFromScenario(found) \cap indexes : Subscribers(m) # {}}
Batch(b) ==
    /\ b \in AnyTask /\ b.do = "callbacks" /\ b.ctx = <<>>
    /\ \A j \in DOMAIN b.callbacks :
          /\ b.callbacks[j][1] \in Taken
          /\ b.callbacks[j][2] \in Subscribers(b.callbacks[j][1])
    /\ \A m \in Taken : \E j \in DOMAIN b.callbacks : b.callbacks[j][1] = m
    /\ \A i, j \in DOMAIN b.callbacks :
          i < j => <<b.callbacks[i][1], b.callbacks[j][1]>> \in Timestamps

(* The callbacks are the lines recorded as responses.                      *)
LEMMA CallbacksAre ==
    /\ \A m \in Callbacks : m \in Lines /\ Recorded[m].type = "RESPONSE"
    /\ \A m \in Lines : Recorded[m].type = "RESPONSE" => m \in Callbacks
BY LinesAre DEF Callbacks, Calls, CallType

(* What an answer takes was recorded after its line and not taken before.  *)
LEMMA TakenIs ==
    ASSUME Typed
    PROVE  Taken \in SUBSET Callbacks /\ \A m \in Taken : After(found, m) /\ m \notin completedOutIndexes
<1> SUFFICES ASSUME NEW m \in Taken
             PROVE  m \in Callbacks /\ After(found, m) /\ m \notin completedOutIndexes
    OBVIOUS
<1>1. m \in Lines /\ m > found /\ \A n \in found + 1..m : Recorded[n].type = "RESPONSE"
    BY DEF Taken, readResponsesFromScenario
<1>2. m \in Nat /\ found \in Nat
    BY <1>1, LinesAre DEF Typed, TypedFlags, TypedClients, TypedThread
<1>3. m \in found + 1..m
    BY <1>1, <1>2
<1> QED
    BY <1>1, <1>2, <1>3, CallbacksAre DEF After, Taken, readResponsesFromScenario

(* The tasks as records: a field is set.                                   *)
AsRecord(d, x, l, e, cb) == [do |-> d, ctx |-> x, call |-> l, extra |-> e, callbacks |-> cb]

LEMMA RecordsAre ==
    ASSUME NEW no, Task = AsRecord("none", <<>>, 0, no, <<>>), NEW x, NEW l, NEW e, NEW cb
    PROVE  /\ [Task EXCEPT !.do = "callbacks", !.callbacks = cb] =
                  AsRecord("callbacks", <<>>, 0, no, cb)
           /\ [Task EXCEPT !.do = "react", !.ctx = x, !.call = l, !.extra = e] =
                  AsRecord("react", x, l, e, <<>>)
<1>1. [Task EXCEPT !.do = "callbacks", !.callbacks = cb] = AsRecord("callbacks", <<>>, 0, no, cb)
    <2> DEFINE r == [Task EXCEPT !.do = "callbacks"]
    <2>1. r = AsRecord("callbacks", <<>>, 0, no, <<>>)
        BY DEF AsRecord
    <2>2. [Task EXCEPT !.do = "callbacks", !.callbacks = cb] = [r EXCEPT !.callbacks = cb]
        OBVIOUS
    <2> HIDE DEF r
    <2>3. [r EXCEPT !.callbacks = cb] = AsRecord("callbacks", <<>>, 0, no, cb)
        BY ONLY <2>1 DEF AsRecord
    <2> QED
        BY <2>2, <2>3
<1>2. [Task EXCEPT !.do = "react", !.ctx = x, !.call = l, !.extra = e] =
          AsRecord("react", x, l, e, <<>>)
    <2> DEFINE r == [Task EXCEPT !.do = "react"]
               s == [r EXCEPT !.ctx = x]
               t == [s EXCEPT !.call = l]
    <2>1. [Task EXCEPT !.do = "react", !.ctx = x, !.call = l, !.extra = e] = [t EXCEPT !.extra = e]
        OBVIOUS
    <2>2. r = AsRecord("react", <<>>, 0, no, <<>>)
        BY DEF AsRecord
    <2> HIDE DEF r
    <2>3. s = AsRecord("react", x, 0, no, <<>>)
        BY ONLY <2>2 DEF AsRecord
    <2> HIDE DEF s
    <2>4. t = AsRecord("react", x, l, no, <<>>)
        BY ONLY <2>3 DEF AsRecord
    <2> HIDE DEF t
    <2>5. [t EXCEPT !.extra = e] = AsRecord("react", x, l, e, <<>>)
        BY ONLY <2>4 DEF AsRecord
    <2> QED
        BY <2>1, <2>5
<1> QED
    BY <1>1, <1>2

(* The whole answer: what it takes and the task it submits.                *)
LEMMA AnswerIs ==
    ASSUME Typed, Answer
    PROVE  /\ completedOutIndexes' = completedOutIndexes \cup Taken
           /\ \/ tasks' = tasks /\ (task.ctx \notin cache \/ Taken = {})
              \/ task.ctx \in cache /\ \E b \in AnyTask : Batch(b) /\ tasks' = Append(tasks, b)
<1> DEFINE seq == Sorted(Taken, Timestamps)
<1>1. Taken \in SUBSET Lines /\ Taken \subseteq Callbacks
    BY TakenIs DEF Callbacks
<1>2. /\ seq \in Seq(Taken) /\ Cardinality(Taken) \in Nat /\ Len(seq) = Cardinality(Taken)
      /\ \A x \in Taken : \E k \in DOMAIN seq : seq[k] = x
      /\ \A i, j \in DOMAIN seq : i < j => <<seq[i], seq[j]>> \in Timestamps
    BY <1>1, TimestampsOrder, SortedIs
<1>3. /\ completedOutIndexes' = completedOutIndexes \cup Taken
      /\ IF task.ctx \in cache /\ seq # <<>>
         THEN \E to \in [DOMAIN seq -> cache] :
                /\ \A i \in DOMAIN seq : to[i] \in Subscribers(seq[i])
                /\ tasks' = Append(tasks, CallbackTask(seq, to))
         ELSE tasks' = tasks
    BY DEF Answer, Taken
<1> HIDE DEF seq
<1>4. CASE task.ctx \in cache /\ seq # <<>>
    <2>1. PICK to \in [DOMAIN seq -> cache] :
                /\ \A i \in DOMAIN seq : to[i] \in Subscribers(seq[i])
                /\ tasks' = Append(tasks, CallbackTask(seq, to))
        BY <1>3, <1>4
    <2> DEFINE b == CallbackTask(seq, to)
               cb == [i \in DOMAIN seq |-> <<seq[i], to[i]>>]
    <2>2. PICK no \in BOOLEAN : b = AsRecord("callbacks", <<>>, 0, no, cb)
        <3>1. b = [Task EXCEPT !.do = "callbacks", !.callbacks = cb]
            BY DEF CallbackTask
        <3> HIDE DEF b, cb
        <3>2. PICK no \in BOOLEAN : Task = AsRecord("none", <<>>, 0, no, <<>>)
            BY DEF Task, AsRecord
        <3> QED
            BY <3>1, <3>2, RecordsAre
    <2>3. cb \in Seq(Pairs) /\ DOMAIN cb = DOMAIN seq /\ \A i \in DOMAIN cb : cb[i] = <<seq[i], to[i]>>
        <3>1. DOMAIN seq = 1..Len(seq) /\ Len(seq) \in Nat /\ \A i \in DOMAIN seq : seq[i] \in Taken
            BY <1>2
        <3>2. cache \subseteq Contexts
            BY DEF Typed, TypedFlags, TypedClients, TypedThread
        <3>3. \A i \in DOMAIN seq : <<seq[i], to[i]>> \in Pairs
            BY <1>1, <2>1, <3>1, <3>2 DEF Pairs
        <3>4. cb \in [1..Len(seq) -> Pairs]
            BY <3>1, <3>3
        <3> QED
            BY <3>1, <3>4
    <2> HIDE DEF cb
    <2>4. b.callbacks = cb /\ b.do = "callbacks" /\ b.ctx = <<>>
        BY <2>2 DEF AsRecord
    <2>5. b \in AnyTask
        BY <2>2, <2>3 DEF AnyTask, AsRecord
    <2> HIDE DEF b
    <2>6. \A i \in DOMAIN seq : seq[i] \in Taken
        BY <1>2
    <2>7. Batch(b)
        <3>1. \A j \in DOMAIN cb : cb[j][1] = seq[j] /\ cb[j][2] = to[j]
            BY <2>3
        <3> QED
            BY <1>2, <2>1, <2>3, <2>4, <2>5, <2>6, <3>1 DEF Batch
    <2> QED
        BY <1>3, <1>4, <2>1, <2>5, <2>7 DEF b
<1>5. CASE task.ctx \notin cache
    BY <1>3, <1>5
<1>6. CASE seq = <<>>
    <2>1. Taken = {}
        BY <1>2, <1>6
    <2> QED
        BY <1>3, <1>6, <2>1
<1> QED
    BY <1>4, <1>5, <1>6

-----------------------------------------------------------------------------
(* findIndex gives a line that matches as well as any, the first of those. *)
LEMMA BestIs ==
    ASSUME NEW l, NEW S \in SUBSET Lines, S # {}
    PROVE  /\ Best(l, S) \in S
           /\ \A n \in S : tagsMatching(l, n) <= tagsMatching(l, Best(l, S))
           /\ \A n \in S : tagsMatching(l, n) = tagsMatching(l, Best(l, S)) => Best(l, S) <= n
<1> DEFINE most == {m \in S : \A n \in S : tagsMatching(l, n) <= tagsMatching(l, m)}
<1>1. \A n : tagsMatching(l, n) = 0 \/ tagsMatching(l, n) = 1
    BY DEF tagsMatching
<1>2. most # {}
    <2>1. CASE \E m \in S : tagsMatching(l, m) = 1
        BY <1>1, <2>1
    <2>2. CASE \A m \in S : tagsMatching(l, m) = 0
        BY <2>2
    <2> QED
        BY <1>1, <2>1, <2>2
<1>3. most \subseteq Nat /\ most \subseteq S
    <2>1. S \subseteq Nat
        BY LinesAre
    <2> QED
        BY <2>1
<1>4. \E m \in most : \A n \in most : m <= n
    <2>1. PICK m \in most : \A n \in most : <<n, m>> \notin OpToRel(<, Nat)
        <3> HIDE DEF most
        <3> QED
            BY <1>2, <1>3, NatLessThanWellFounded, WFMin, Zenon
    <2>2. ASSUME NEW n \in most PROVE m <= n
        <3>1. m \in Nat /\ n \in Nat
            BY <1>3
        <3>2. ~(n < m)
            BY <2>1, <3>1 DEF OpToRel
        <3> QED
            BY <3>1, <3>2
    <2> QED
        BY <2>2
<1>5. Best(l, S) = CHOOSE m \in most : \A n \in most : m <= n
    BY DEF Best
<1>6. Best(l, S) \in most /\ \A n \in most : Best(l, S) <= n
    <2> HIDE DEF most
    <2> QED
        BY <1>4, <1>5
<1>7. ASSUME NEW n \in S, tagsMatching(l, n) = tagsMatching(l, Best(l, S))
      PROVE  Best(l, S) <= n
    <2>1. n \in most
        BY <1>6, <1>7
    <2> QED
        BY <1>6, <2>1
<1> QED
    BY <1>6, <1>7

(* findIndex gives an unused line that matches while there is one.         *)
LEMMA FindIs ==
    ASSUME Typed, NEW l \in Calls, findIndex(l) # 0
    PROVE  LET f == findIndex(l)
               unused == Matching(l) \ completedIndexes
           IN  /\ f \in Calls /\ f \in Matching(l)
               /\ mode.tagged => Recorded[f].type = Recorded[l].type
               /\ indexes # {} /\ (mode.tagged => mode.blockExternal)
               /\ unused # {} =>
                     /\ f \in unused
                     /\ \A n \in unused : tagsMatching(l, n) <= tagsMatching(l, f)
                     /\ \A n \in unused : tagsMatching(l, n) = tagsMatching(l, f) => f <= n
<1> DEFINE f == findIndex(l)
           unused == Matching(l) \ completedIndexes
           repeated == {m \in Matching(l) \cap completedIndexes :
                          isRepeatableItem(m) /\ mode.ignoreTrivialCalls}
<1>1. Matching(l) \subseteq Lines
    BY DEF Matching, Typed, TypedFlags, TypedClients, TypedThread, Indexed
<1>2. /\ ~(~mode.blockExternal /\ \E m \in Matching(l) : isRepeatableItem(m))
      /\ IF unused # {} THEN f = Best(l, unused) ELSE repeated # {} /\ f = Best(l, repeated)
    BY DEF findIndex
<1>3. f \in Matching(l) /\ (unused # {} => f \in unused)
    BY <1>1, <1>2, BestIs
<1>4. f \in Calls /\ f \in indexes /\ (mode.tagged => Recorded[f].type = Recorded[l].type)
    BY <1>1, <1>3, LinesAre DEF Matching, typeMatching, Calls
<1>5. mode.tagged => mode.blockExternal
    BY <1>2, <1>3, <1>4 DEF isRepeatableItem, Calls
<1>6. unused # {} =>
        /\ \A n \in unused : tagsMatching(l, n) <= tagsMatching(l, f)
        /\ \A n \in unused : tagsMatching(l, n) = tagsMatching(l, f) => f <= n
    <2> SUFFICES ASSUME unused # {}
                 PROVE  /\ \A n \in unused : tagsMatching(l, n) <= tagsMatching(l, f)
                        /\ \A n \in unused : tagsMatching(l, n) = tagsMatching(l, f) => f <= n
        OBVIOUS
    <2>1. f = Best(l, unused) /\ unused \in SUBSET Lines
        BY <1>1, <1>2
    <2> HIDE DEF unused, f
    <2> QED
        BY <2>1, BestIs
<1> QED
    BY <1>3, <1>4, <1>5, <1>6

(* The types are kept.                                                     *)
LEMMA FlagsNext == TypeInv /\ [Next]_vars => TypedFlags'
<1> SUFFICES ASSUME TypeInv, [Next]_vars PROVE TypedFlags'
    OBVIOUS
<1> USE DEF TypeInv, Typed, TypedFlags, plugin, storage, switch, ghosts
<1>1. ASSUME NEW c \in Clients, Connect(c) PROVE TypedFlags'
    <2>1. <<c, connects[c] + 1>> \in Contexts
        <3>1. connects[c] + 1 \in 1..MaxConnects
            BY <1>1, ContextsAre DEF Connect, TypedClients
        <3> QED
            BY <3>1, ContextsAre
    <2>2. cache' = cache \cup {<<c, connects[c] + 1>>}
        BY <1>1 DEF Connect
    <2>3. toReset' \in SUBSET Contexts
        BY <1>1, <2>1 DEF Connect
    <2>4. fresh' \in SUBSET Contexts
        BY <1>1, <2>1 DEF Connect
    <2> QED
        BY <1>1, <2>1, <2>2, <2>3, <2>4 DEF Connect
<1>2. ASSUME NEW c \in Clients, Call(c) PROVE TypedFlags'
    BY <1>2 DEF Call
<1>3. ASSUME React PROVE TypedFlags'
    BY <1>3 DEF React
<1>4. ASSUME RunSteps PROVE TypedFlags'
    BY <1>4 DEF RunSteps
<1>5. ASSUME FindIndex PROVE TypedFlags'
    <2>1. UNCHANGED <<mode, plugin, storage, switch, cache, ghosts>>
        BY <1>5 DEF FindIndex
    <2> QED
        BY <2>1
<1>6. ASSUME FindIndexThrows PROVE TypedFlags'
    BY <1>6 DEF FindIndexThrows
<1>7. ASSUME Mark PROVE TypedFlags'
    <2>1. found \in Calls
        BY <1>7 DEF Mark, Hands, TypedThread
    <2>2. disturbed' \in BOOLEAN
        BY <1>7, Zenon DEF Mark
    <2> QED
        BY <1>7, <2>1, <2>2 DEF Mark
<1>8. ASSUME Answer PROVE TypedFlags'
    <2>1. completedOutIndexes' \in SUBSET Callbacks
        BY <1>8, AnswerIs, TakenIs
    <2>2. UNCHANGED <<mode, active, settingsActive, completedIndexes, indexes, storage, switch, cache, ghosts>>
        BY <1>8 DEF Answer
    <2> QED
        BY <2>1, <2>2
<1>9. ASSUME LoadThrows PROVE TypedFlags'
    BY <1>9 DEF LoadThrows
<1>10. ASSUME SendBackResponses PROVE TypedFlags'
    BY <1>10 DEF SendBackResponses
<1>11. ASSUME SendBack PROVE TypedFlags'
    BY <1>11 DEF SendBack
<1>12. ASSUME Activate PROVE TypedFlags'
    <2>1. switches + 1 \in 0..MaxSwitches
        BY <1>12, RecordingAssumption DEF Activate
    <2>2. events' \in Seq({"StartPlay", "EndPlay"})
        BY <1>12 DEF Activate
    <2> QED
        BY <1>12, <2>1, <2>2 DEF Activate
<1>13. ASSUME Waited PROVE TypedFlags'
    BY <1>13 DEF Waited
<1>14. ASSUME WaitTimesOut PROVE TypedFlags'
    BY <1>14 DEF WaitTimesOut, BeginsReset
<1>15. ASSUME LoadIndexes PROVE TypedFlags'
    BY <1>15 DEF LoadIndexes, BeginsReset
<1>16. ASSUME Deactivate PROVE TypedFlags'
    <2>1. switches + 1 \in 0..MaxSwitches
        BY <1>16, RecordingAssumption DEF Deactivate
    <2>2. events' \in Seq({"StartPlay", "EndPlay"})
        BY <1>16 DEF Deactivate
    <2> QED
        BY <1>16, <2>1, <2>2 DEF Deactivate
<1>17. ASSUME Unload PROVE TypedFlags'
    BY <1>17 DEF Unload, BeginsReset
<1>18. ASSUME DisconnectAll PROVE TypedFlags'
    BY <1>18 DEF DisconnectAll
<1>19. ASSUME HandleEvent PROVE TypedFlags'
    <2>1. events' \in Seq({"StartPlay", "EndPlay"}) /\ repo' \in BOOLEAN
        BY <1>19 DEF HandleEvent
    <2> QED
        BY <1>19, <2>1 DEF HandleEvent
<1>20. CASE UNCHANGED vars
    BY <1>20 DEF vars, plugin, storage, switch, clients, thread, ghosts
<1> QED
    BY <1>1, <1>2, <1>3, <1>4, <1>5, <1>6, <1>7, <1>8, <1>9, <1>10,
       <1>11, <1>12, <1>13, <1>14, <1>15, <1>16, <1>17, <1>18, <1>19, <1>20 DEF Next, Execute, Switching

LEMMA ClientsNext == TypeInv /\ [Next]_vars => TypedClients'
<1> SUFFICES ASSUME TypeInv, [Next]_vars PROVE TypedClients'
    OBVIOUS
<1> USE DEF TypeInv, Typed, TypedClients, clients
<1>a. ASSUME NEW ctx \in Contexts, NEW l \in Calls \cup {0}, GetsAnswer(ctx, l)
      PROVE  answers' \in [Clients -> Seq(Calls \cup {0})]
    <2>1. ctx[1] \in Clients
        BY ContextsAre
    <2>2. Append(answers[ctx[1]], l) \in Seq(Calls \cup {0})
        BY <2>1
    <2> QED
        BY <1>a, <2>1, <2>2 DEF GetsAnswer
<1>1. ASSUME NEW c \in Clients, Connect(c) PROVE TypedClients'
    <2>1. connects[c] + 1 \in 0..MaxConnects
        BY <1>1, ContextsAre DEF Connect
    <2>2. \A T : <<>> \in Seq(T)
        OBVIOUS
    <2>3. answers' \in [Clients -> Seq(Calls \cup {0})]
        BY <1>1, <2>2 DEF Connect
    <2>4. messages' \in [Clients -> Seq([line : Callbacks, after : Nat])]
        BY <1>1, <2>2 DEF Connect
    <2> QED
        BY <1>1, <2>1, <2>3, <2>4 DEF Connect
<1>2. ASSUME NEW c \in Clients, Call(c) PROVE TypedClients'
    <2>1. pos[c] + 1 \in Nat
        OBVIOUS
    <2> QED
        BY <1>2, <2>1 DEF Call
<1>3. ASSUME React PROVE TypedClients'
    <2>1. PICK t \in AnyTask : t = Head(tasks)
        BY <1>3 DEF React, TypedThread
    <2>2. t.ctx \in Contexts /\ t.call \in Calls
        <3>1. 1 \in DOMAIN tasks /\ t = tasks[1] /\ t.do = "react"
            BY <1>3, <2>1, Shifted DEF React, TypedThread
        <3> QED
            BY <3>1 DEF Hands, Proper
    <2>3. Recorded[t.call].queue \in Queues /\ t.ctx[1] \in Clients
        BY <2>2, LinesAre, ContextsAre
    <2>4. subscribed' \in [Clients -> SUBSET Queues]
        <3>1. subscribed' = IF Recorded[t.call].type = "Subscribe" /\ t.ctx = Context(t.ctx[1])
                            THEN [subscribed EXCEPT ![t.ctx[1]] =
                                    IF mode.tagged THEN @ \cup {Recorded[t.call].queue}
                                                   ELSE {Recorded[t.call].queue}]
                            ELSE subscribed
            BY <1>3, <2>1 DEF React
        <3> QED
            BY <2>3, <3>1
    <2> QED
        BY <1>3, <2>4 DEF React
<1>4. ASSUME RunSteps PROVE TypedClients'
    <2>1. PICK t \in AnyTask : t = Head(tasks)
        BY <1>4 DEF RunSteps, TypedThread
    <2>2. t.ctx \in Contexts
        <3>1. 1 \in DOMAIN tasks /\ t = tasks[1] /\ t.do = "steps"
            BY <1>4, <2>1, Shifted DEF RunSteps, TypedThread
        <3> QED
            BY <3>1 DEF Hands, Proper
    <2>3. answers' \in [Clients -> Seq(Calls \cup {0})]
        BY <1>4, <1>a, <2>1, <2>2 DEF RunSteps, Upstream
    <2> QED
        BY <1>4, <2>3 DEF RunSteps
<1>5. ASSUME FindIndex PROVE TypedClients'
    <2>1. task.ctx \in Contexts
        BY <1>5 DEF FindIndex, Hands, InCall
    <2>2. answers' \in [Clients -> Seq(Calls \cup {0})]
        BY <1>5, <1>a, <2>1 DEF FindIndex, Upstream
    <2> QED
        BY <1>5, <2>2 DEF FindIndex
<1>6. ASSUME FindIndexThrows PROVE TypedClients'
    BY <1>6 DEF FindIndexThrows
<1>7. ASSUME Mark PROVE TypedClients'
    BY <1>7 DEF Mark
<1>8. ASSUME Answer PROVE TypedClients'
    <2>1. task.ctx \in Contexts
        BY <1>8 DEF Answer, Hands, InCall
    <2>2. answers' \in [Clients -> Seq(Calls \cup {0})]
        BY <1>8, <1>a, <2>1 DEF Answer, TypedThread
    <2> QED
        BY <1>8, <2>2 DEF Answer
<1>9. ASSUME LoadThrows PROVE TypedClients'
    BY <1>9 DEF LoadThrows
<1>10. ASSUME SendBackResponses PROVE TypedClients'
    BY <1>10 DEF SendBackResponses
<1>11. ASSUME SendBack PROVE TypedClients'
    <2>1. ASSUME GetsMessage(result[1][2], result[1][1]), result # <<>>
          PROVE  messages' \in [Clients -> Seq([line : Callbacks, after : Nat])]
        <3>1. PICK p \in Pairs : p = result[1]
            BY <2>1 DEF TypedThread
        <3>2. PICK d \in Clients : d = p[2][1]
            BY ContextsAre DEF Pairs
        <3>3. PICK M : M = [line : Callbacks, after : Nat]
            OBVIOUS
        <3>4. PICK m \in M : m = [line |-> p[1], after |-> Len(answers[d])]
            <4>1. p[1] \in Callbacks /\ Len(answers[d]) \in Nat
                BY DEF Pairs
            <4> QED
                BY <3>3, <4>1
        <3>5. messages' = IF p[2] \in cache THEN [messages EXCEPT ![d] = Append(@, m)] ELSE messages
            BY <2>1, <3>1, <3>2, <3>4 DEF GetsMessage
        <3>6. messages \in [Clients -> Seq(M)]
            BY <3>3
        <3>7. messages' \in [Clients -> Seq(M)]
            <4>1. Append(messages[d], m) \in Seq(M)
                BY <3>6
            <4> QED
                BY <3>5, <3>6, <4>1
        <3> QED
            BY <3>3, <3>7
    <2>2. messages' \in [Clients -> Seq([line : Callbacks, after : Nat])]
        BY <1>11, <2>1 DEF SendBack
    <2> QED
        BY <1>11, <2>2 DEF SendBack
<1>12. ASSUME Activate PROVE TypedClients'
    BY <1>12 DEF Activate
<1>13. ASSUME Waited PROVE TypedClients'
    BY <1>13 DEF Waited
<1>14. ASSUME WaitTimesOut PROVE TypedClients'
    BY <1>14 DEF WaitTimesOut, BeginsReset
<1>15. ASSUME LoadIndexes PROVE TypedClients'
    BY <1>15 DEF LoadIndexes, BeginsReset
<1>16. ASSUME Deactivate PROVE TypedClients'
    BY <1>16 DEF Deactivate
<1>17. ASSUME Unload PROVE TypedClients'
    BY <1>17 DEF Unload, BeginsReset
<1>18. ASSUME DisconnectAll PROVE TypedClients'
    BY <1>18 DEF DisconnectAll
<1>19. ASSUME HandleEvent PROVE TypedClients'
    BY <1>19 DEF HandleEvent
<1>20. CASE UNCHANGED vars
    BY <1>20 DEF vars, plugin, storage, switch, clients, thread, ghosts
<1> QED
    BY <1>1, <1>2, <1>3, <1>4, <1>5, <1>6, <1>7, <1>8, <1>9, <1>10,
       <1>11, <1>12, <1>13, <1>14, <1>15, <1>16, <1>17, <1>18, <1>19, <1>20 DEF Next, Execute, Switching

(* The first task of the queue.                                            *)
LEMMA HeadIs ==
    ASSUME TypeInv, tasks # <<>>
    PROVE  /\ Head(tasks) = tasks[1] /\ 1 \in DOMAIN tasks /\ Head(tasks) \in AnyTask
           /\ Head(tasks).do \in {"react", "steps"} =>
                 /\ Head(tasks).ctx \in Contexts /\ Head(tasks).call \in Calls
                 /\ Head(tasks).callbacks = <<>>
           /\ Head(tasks).do = "callbacks" => Head(tasks).ctx = <<>>
<1>1. Head(tasks) = tasks[1] /\ 1 \in DOMAIN tasks /\ Head(tasks) \in AnyTask
    BY Shifted DEF TypeInv, Typed, TypedThread
<1> QED
    BY <1>1 DEF TypeInv, Hands, Proper

(* The task that a call submits.                                           *)
NextCall(c) == IF pos[c] >= Len(Program[c]) THEN Program[c][Len(Program[c])]
                                            ELSE Program[c][pos[c] + 1]
LEMMA CallIs ==
    ASSUME TypeInv, NEW c \in Clients, Call(c)
    PROVE  /\ NextCall(c) \in Calls /\ Context(c) \in Contexts
           /\ \E b \in AnyTask :
                 /\ b.do = "react" /\ b.ctx = Context(c) /\ b.call = NextCall(c)
                 /\ b.extra = (pos[c] >= Len(Program[c])) /\ b.callbacks = <<>>
                 /\ tasks' = Append(tasks, b)
<1>1. Context(c) \in Contexts
    BY DEF Call, TypeInv, Typed, TypedFlags
<1>2. NextCall(c) \in Calls
    <2>1. pos[c] \in Nat
        BY DEF TypeInv, Typed, TypedClients
    <2> QED
        BY <2>1, ProgramIs DEF NextCall
<1>3. PICK x \in BOOLEAN : x = (pos[c] >= Len(Program[c]))
    <2>1. (pos[c] >= Len(Program[c])) \in BOOLEAN
        OBVIOUS
    <2> QED
        BY <2>1, Zenon
<1>4. PICK l \in Calls : l = NextCall(c)
    BY <1>2
<1>5. tasks' = Append(tasks, [Task EXCEPT !.do = "react", !.ctx = Context(c), !.call = l, !.extra = x])
    BY <1>3, <1>4 DEF Call, NextCall
<1>6. PICK no : Task = AsRecord("none", <<>>, 0, no, <<>>)
    BY DEF Task, AsRecord
<1>7. PICK b : b = AsRecord("react", Context(c), l, x, <<>>)
    OBVIOUS
<1>8. tasks' = Append(tasks, b)
    BY <1>5, <1>6, <1>7, RecordsAre
<1>9. <<>> \in Seq(Pairs)
    OBVIOUS
<1>10. b \in AnyTask
    BY <1>1, <1>7, <1>9 DEF AsRecord, AnyTask
<1>11. b.do = "react" /\ b.ctx = Context(c) /\ b.call = l /\ b.extra = x /\ b.callbacks = <<>>
    BY <1>7 DEF AsRecord
<1> QED
    BY <1>1, <1>2, <1>3, <1>4, <1>8, <1>10, <1>11

(* The task that a reaction submits.                                       *)
LEMMA ReactIs ==
    ASSUME TypeInv, React
    PROVE  \E b \in AnyTask :
              /\ b.do = "steps" /\ b.ctx = Head(tasks).ctx /\ b.call = Head(tasks).call
              /\ b.extra = Head(tasks).extra /\ b.callbacks = <<>>
              /\ tasks' = Append(Tail(tasks), b)
<1>1. PICK t \in AnyTask : t = Head(tasks)
    BY HeadIs DEF React
<1>2. PICK b : b = [t EXCEPT !.do = "steps"]
    OBVIOUS
<1>3. b \in AnyTask
    BY <1>2 DEF AnyTask
<1>4. b.do = "steps" /\ b.ctx = t.ctx /\ b.call = t.call /\ b.extra = t.extra /\ b.callbacks = t.callbacks
    BY <1>2 DEF AnyTask
<1>5. tasks' = Append(Tail(tasks), b)
    BY <1>1, <1>2 DEF React
<1>6. t.callbacks = <<>>
    BY <1>1, HeadIs DEF React
<1> QED
    BY <1>1, <1>3, <1>4, <1>5, <1>6

(* The executor: types, what is in hand, and what was opened before.       *)
LEMMA ThreadNext == TypeInv /\ [Next]_vars => TypedThread'
<1> SUFFICES ASSUME TypeInv, [Next]_vars PROVE TypedThread'
    OBVIOUS
<1> USE DEF TypeInv, Typed, TypedThread, thread
<1>a. \A b \in AnyTask : Append(tasks, b) \in Seq(AnyTask)
    BY Appended
<1>b. Idle => pc' = "idle" /\ task' \in AnyTask /\ found' = 0 /\ result' \in Seq(Pairs)
    BY TaskIs DEF Idle
<1>1. ASSUME NEW c \in Clients, Connect(c) PROVE TypedThread'
    BY <1>1 DEF Connect
<1>2. ASSUME NEW c \in Clients, Call(c) PROVE TypedThread'
    <2>1. tasks' \in Seq(AnyTask)
        BY <1>2, <1>a, CallIs
    <2> QED
        BY <1>2, <2>1 DEF Call
<1>3. ASSUME React PROVE TypedThread'
    <2>1. tasks' \in Seq(AnyTask)
        <3>1. PICK b \in AnyTask : tasks' = Append(Tail(tasks), b)
            BY <1>3, ReactIs
        <3>2. Tail(tasks) \in Seq(AnyTask)
            BY <1>3, Shifted DEF React
        <3> QED
            BY <3>1, <3>2, Appended
    <2> QED
        BY <1>3, <2>1 DEF React
<1>4. ASSUME RunSteps PROVE TypedThread'
    <2>1. tasks' \in Seq(AnyTask) /\ Head(tasks) \in AnyTask
        BY <1>4, Shifted, HeadIs DEF RunSteps
    <2> QED
        BY <1>4, <2>1 DEF RunSteps
<1>5. ASSUME FindIndex PROVE TypedThread'
    <2>1. task.call \in Calls
        BY <1>5 DEF FindIndex, Hands, InCall
    <2>2. CASE findIndex(task.call) # 0
        BY <1>5, <2>1, <2>2, FindIs DEF FindIndex
    <2>3. CASE findIndex(task.call) = 0
        BY <1>5, <1>b, <2>3 DEF FindIndex
    <2> QED
        BY <2>2, <2>3
<1>6. ASSUME FindIndexThrows PROVE TypedThread'
    BY <1>6, <1>b DEF FindIndexThrows
<1>7. ASSUME Mark PROVE TypedThread'
    BY <1>7 DEF Mark
<1>8. ASSUME Answer PROVE TypedThread'
    <2>1. tasks' \in Seq(AnyTask)
        BY <1>8, <1>a, AnswerIs
    <2> QED
        BY <1>8, <1>b, <2>1 DEF Answer
<1>9. ASSUME LoadThrows PROVE TypedThread'
    BY <1>9, <1>b DEF LoadThrows
<1>10. ASSUME SendBackResponses PROVE TypedThread'
    <2>1. tasks' \in Seq(AnyTask) /\ Head(tasks) \in AnyTask
        BY <1>10, Shifted, HeadIs DEF SendBackResponses
    <2>2. result' \in Seq(Pairs)
        BY <1>10, <2>1 DEF SendBackResponses, AnyTask
    <2> QED
        BY <1>10, <2>1, <2>2 DEF SendBackResponses
<1>11. ASSUME SendBack PROVE TypedThread'
    <2>1. result # <<>> => Tail(result) \in Seq(Pairs)
        BY Shifted
    <2> QED
        BY <1>11, <1>b, <2>1 DEF SendBack
<1>12. ASSUME Activate PROVE TypedThread'
    BY <1>12 DEF Activate
<1>13. ASSUME Waited PROVE TypedThread'
    BY <1>13 DEF Waited
<1>14. ASSUME WaitTimesOut PROVE TypedThread'
    BY <1>14 DEF WaitTimesOut, BeginsReset
<1>15. ASSUME LoadIndexes PROVE TypedThread'
    BY <1>15 DEF LoadIndexes, BeginsReset
<1>16. ASSUME Deactivate PROVE TypedThread'
    BY <1>16 DEF Deactivate
<1>17. ASSUME Unload PROVE TypedThread'
    BY <1>17 DEF Unload, BeginsReset
<1>18. ASSUME DisconnectAll PROVE TypedThread'
    BY <1>18 DEF DisconnectAll
<1>19. ASSUME HandleEvent PROVE TypedThread'
    BY <1>19 DEF HandleEvent
<1>20. CASE UNCHANGED vars
    BY <1>20 DEF vars, plugin, storage, switch, clients, thread, ghosts
<1> QED
    BY <1>1, <1>2, <1>3, <1>4, <1>5, <1>6, <1>7, <1>8, <1>9, <1>10,
       <1>11, <1>12, <1>13, <1>14, <1>15, <1>16, <1>17, <1>18, <1>19, <1>20 DEF Next, Execute, Switching

LEMMA HandsNext == TypeInv /\ [Next]_vars => Hands'
<1> SUFFICES ASSUME TypeInv, [Next]_vars PROVE Hands'
    OBVIOUS
<1> USE DEF TypeInv, Typed, TypedThread, thread, Hands
<1>a. ASSUME NEW b \in AnyTask, Proper(b), tasks' = Append(tasks, b)
      PROVE  \A i \in DOMAIN tasks' : Proper(tasks'[i])
    BY <1>a, Appended
<1>b. ASSUME tasks # <<>>, tasks' = Tail(tasks)
      PROVE  \A i \in DOMAIN tasks' : Proper(tasks'[i])
    BY <1>b, Shifted
<1>c. Idle => pc' = "idle" /\ task' = Task /\ result' = <<>>
    BY DEF Idle
<1>1. ASSUME NEW c \in Clients, Connect(c) PROVE Hands'
    BY <1>1 DEF Connect, InCall
<1>2. ASSUME NEW c \in Clients, Call(c) PROVE Hands'
    <2>1. \A i \in DOMAIN tasks' : Proper(tasks'[i])
        <3>1. PICK b \in AnyTask : /\ b.do = "react" /\ b.ctx = Context(c) /\ b.call = NextCall(c)
                                   /\ b.callbacks = <<>> /\ tasks' = Append(tasks, b)
            BY <1>2, CallIs
        <3>2. Proper(b)
            BY <1>2, <3>1, CallIs DEF Proper
        <3> QED
            BY <1>a, <3>1, <3>2
    <2> QED
        BY <1>2, <2>1 DEF Call, InCall
<1>3. ASSUME React PROVE Hands'
    <2>1. \A i \in DOMAIN tasks' : Proper(tasks'[i])
        <3>1. PICK b \in AnyTask : /\ b.do = "steps" /\ b.ctx = Head(tasks).ctx
                                   /\ b.call = Head(tasks).call /\ b.callbacks = <<>>
                                   /\ tasks' = Append(Tail(tasks), b)
            BY <1>3, ReactIs
        <3>2. Proper(b)
            BY <1>3, <3>1, HeadIs DEF Proper, React
        <3>3. Tail(tasks) \in Seq(AnyTask) /\ \A i \in DOMAIN Tail(tasks) : Proper(Tail(tasks)[i])
            BY <1>3, Shifted DEF React
        <3> QED
            BY <3>1, <3>2, <3>3, Appended
    <2> QED
        BY <1>3, <2>1 DEF React, InCall
<1>4. ASSUME RunSteps PROVE Hands'
    <2>1. \A i \in DOMAIN tasks' : Proper(tasks'[i])
        BY <1>4, <1>b DEF RunSteps
    <2>2. Head(tasks).ctx \in Contexts /\ Head(tasks).call \in Calls
        BY <1>4, HeadIs DEF RunSteps
    <2> QED
        BY <1>4, <2>1, <2>2 DEF RunSteps, InCall
<1>5. ASSUME FindIndex PROVE Hands'
    <2>1. task.call \in Calls
        BY <1>5 DEF FindIndex, InCall
    <2>2. CASE findIndex(task.call) # 0
        BY <1>5, <2>1, <2>2, FindIs DEF FindIndex, InCall
    <2>3. CASE findIndex(task.call) = 0
        BY <1>5, <1>c, <2>3 DEF FindIndex, InCall
    <2> QED
        BY <2>2, <2>3
<1>6. ASSUME FindIndexThrows PROVE Hands'
    BY <1>6, <1>c DEF FindIndexThrows, InCall
<1>7. ASSUME Mark PROVE Hands'
    BY <1>7 DEF Mark, InCall
<1>8. ASSUME Answer PROVE Hands'
    <2>1. \A i \in DOMAIN tasks' : Proper(tasks'[i])
        <3>1. CASE tasks' = tasks
            BY <3>1
        <3>2. CASE \E b \in AnyTask : Batch(b) /\ tasks' = Append(tasks, b)
            BY <1>a, <3>2 DEF Batch, Proper
        <3> QED
            BY <1>8, <3>1, <3>2, AnswerIs
    <2> QED
        BY <1>8, <1>c, <2>1 DEF Answer, InCall
<1>9. ASSUME LoadThrows PROVE Hands'
    BY <1>9, <1>c DEF LoadThrows, InCall
<1>10. ASSUME SendBackResponses PROVE Hands'
    <2>1. \A i \in DOMAIN tasks' : Proper(tasks'[i])
        BY <1>10, <1>b DEF SendBackResponses
    <2> QED
        BY <1>10, <2>1 DEF SendBackResponses, InCall
<1>11. ASSUME SendBack PROVE Hands'
    BY <1>11, <1>c DEF SendBack, InCall
<1>12. ASSUME Activate PROVE Hands'
    BY <1>12 DEF Activate, InCall
<1>13. ASSUME Waited PROVE Hands'
    BY <1>13 DEF Waited, InCall
<1>14. ASSUME WaitTimesOut PROVE Hands'
    BY <1>14 DEF WaitTimesOut, BeginsReset, InCall
<1>15. ASSUME LoadIndexes PROVE Hands'
    BY <1>15 DEF LoadIndexes, BeginsReset, InCall
<1>16. ASSUME Deactivate PROVE Hands'
    BY <1>16 DEF Deactivate, InCall
<1>17. ASSUME Unload PROVE Hands'
    BY <1>17 DEF Unload, BeginsReset, InCall
<1>18. ASSUME DisconnectAll PROVE Hands'
    BY <1>18 DEF DisconnectAll, InCall
<1>19. ASSUME HandleEvent PROVE Hands'
    BY <1>19 DEF HandleEvent, InCall
<1>20. CASE UNCHANGED vars
    BY <1>20 DEF vars, plugin, storage, switch, clients, thread, ghosts, InCall
<1> QED
    BY <1>1, <1>2, <1>3, <1>4, <1>5, <1>6, <1>7, <1>8, <1>9, <1>10,
       <1>11, <1>12, <1>13, <1>14, <1>15, <1>16, <1>17, <1>18, <1>19, <1>20 DEF Next, Execute, Switching

LEMMA OpenedNext == TypeInv /\ [Next]_vars => Opened'
<1> SUFFICES ASSUME TypeInv, [Next]_vars PROVE Opened'
    OBVIOUS
<1> USE DEF TypeInv, Typed, TypedThread, thread, clients, Opened
<1>a. ASSUME NEW b \in AnyTask, KnownTask(b, connects), tasks' = Append(tasks, b)
      PROVE  \A i \in DOMAIN tasks' : KnownTask(tasks'[i], connects)
    BY <1>a, Appended
<1>b. ASSUME tasks # <<>>, tasks' = Tail(tasks)
      PROVE  \A i \in DOMAIN tasks' : KnownTask(tasks'[i], connects)
    BY <1>b, Shifted
<1>c. KnownTask(Task, connects)
    BY TaskIs DEF KnownTask
<1>d. Idle => task' = Task /\ result' = <<>>
    BY DEF Idle
<1>e. ASSUME NEW ctx \in cache PROVE Known(ctx, connects)
    <2>1. ctx = <<ctx[1], connects[ctx[1]]>> /\ ctx[1] \in Clients
        BY ContextsAre DEF TypedFlags, Context
    <2> QED
        BY <2>1 DEF Known, TypedClients
<1>f. ASSUME connects' = connects, cache' \subseteq cache
      PROVE  \A ctx \in cache' : (ctx = Context(ctx[1]))'
    BY <1>f DEF Context
<1>1. ASSUME NEW c \in Clients, Connect(c) PROVE Opened'
    <2>1. connects' = [connects EXCEPT ![c] = connects[c] + 1] /\ connects \in [Clients -> 0..MaxConnects]
        BY <1>1 DEF Connect, TypedClients
    <2>2. \A ctx \in Contexts : Known(ctx, connects) => Known(ctx, connects')
        <3> SUFFICES ASSUME NEW ctx \in Contexts, Known(ctx, connects) PROVE Known(ctx, connects')
            OBVIOUS
        <3>1. ctx[1] \in Clients /\ ctx[2] \in Nat
            BY ContextsAre
        <3> QED
            BY <2>1, <3>1 DEF Known
    <2>3. \A t \in AnyTask : KnownTask(t, connects) => KnownTask(t, connects')
        <3> SUFFICES ASSUME NEW t \in AnyTask, KnownTask(t, connects) PROVE KnownTask(t, connects')
            OBVIOUS
        <3>1. \A j \in DOMAIN t.callbacks : t.callbacks[j][2] \in Contexts
            BY DEF AnyTask, Pairs
        <3> QED
            BY <2>2, <3>1 DEF KnownTask
    <2>4. ASSUME NEW ctx \in cache' PROVE ctx = <<ctx[1], connects'[ctx[1]]>>
        <3>1. CASE ctx \in cache
            <4>1. ctx = <<ctx[1], connects[ctx[1]]>> /\ ctx[1] \in Clients
                BY <3>1, ContextsAre DEF TypedFlags, Context
            <4>2. ctx[1] # c
                BY <1>1, <3>1, <4>1 DEF Connect, Context
            <4> QED
                BY <2>1, <4>1, <4>2
        <3>2. CASE ctx = <<c, connects[c] + 1>>
            BY <2>1, <3>2
        <3> QED
            BY <1>1, <3>1, <3>2 DEF Connect
    <2>5. UNCHANGED <<tasks, task, result>>
        BY <1>1 DEF Connect
    <2>6. \A i \in DOMAIN tasks : tasks[i] \in AnyTask
        OBVIOUS
    <2>7. \A j \in DOMAIN result : result[j][2] \in Contexts
        BY DEF Pairs
    <2> QED
        BY <2>2, <2>3, <2>4, <2>5, <2>6, <2>7 DEF Context
<1>2. ASSUME NEW c \in Clients, Call(c) PROVE Opened'
    <2>1. \A i \in DOMAIN tasks' : KnownTask(tasks'[i], connects)
        <3>1. PICK b \in AnyTask : b.ctx = Context(c) /\ b.callbacks = <<>> /\ tasks' = Append(tasks, b)
            BY <1>2, CallIs
        <3>2. Known(Context(c), connects)
            BY <1>2, <1>e DEF Call
        <3>3. KnownTask(b, connects)
            BY <3>1, <3>2 DEF KnownTask
        <3> QED
            BY <1>a, <3>1, <3>3
    <2> QED
        BY <1>2, <1>f, <2>1 DEF Call
<1>3. ASSUME React PROVE Opened'
    <2>1. \A i \in DOMAIN tasks' : KnownTask(tasks'[i], connects)
        <3>1. PICK b \in AnyTask : /\ b.ctx = Head(tasks).ctx /\ b.callbacks = <<>>
                                   /\ tasks' = Append(Tail(tasks), b)
            BY <1>3, ReactIs
        <3>2. KnownTask(b, connects)
            BY <1>3, <3>1, HeadIs DEF React, KnownTask
        <3>3. Tail(tasks) \in Seq(AnyTask) /\ \A i \in DOMAIN Tail(tasks) : KnownTask(Tail(tasks)[i], connects)
            BY <1>3, Shifted DEF React
        <3> QED
            BY <3>1, <3>2, <3>3, Appended
    <2> QED
        BY <1>3, <1>f, <2>1 DEF React
<1>4. ASSUME RunSteps PROVE Opened'
    <2>1. \A i \in DOMAIN tasks' : KnownTask(tasks'[i], connects)
        BY <1>4, <1>b DEF RunSteps
    <2>2. KnownTask(Head(tasks), connects)
        BY <1>4, HeadIs DEF RunSteps
    <2> QED
        BY <1>4, <1>f, <2>1, <2>2 DEF RunSteps
<1>5. ASSUME FindIndex PROVE Opened'
    BY <1>5, <1>c, <1>d, <1>f DEF FindIndex
<1>6. ASSUME FindIndexThrows PROVE Opened'
    BY <1>6, <1>c, <1>d, <1>f DEF FindIndexThrows
<1>7. ASSUME Mark PROVE Opened'
    BY <1>7, <1>f DEF Mark
<1>8. ASSUME Answer PROVE Opened'
    <2>1. \A i \in DOMAIN tasks' : KnownTask(tasks'[i], connects)
        <3>1. CASE tasks' = tasks
            BY <3>1
        <3>2. ASSUME NEW b \in AnyTask, Batch(b), tasks' = Append(tasks, b)
              PROVE  \A i \in DOMAIN tasks' : KnownTask(tasks'[i], connects)
            <4>1. b.ctx \notin Contexts
                BY <3>2, ContextsAre DEF Batch
            <4>2. \A j \in DOMAIN b.callbacks : b.callbacks[j][2] \in cache
                BY <3>2 DEF Batch, Subscribers
            <4> QED
                BY <1>a, <1>e, <3>2, <4>1, <4>2 DEF KnownTask
        <3> QED
            BY <1>8, <3>1, <3>2, AnswerIs
    <2> QED
        BY <1>8, <1>c, <1>d, <1>f, <2>1 DEF Answer
<1>9. ASSUME LoadThrows PROVE Opened'
    BY <1>9, <1>c, <1>d, <1>f DEF LoadThrows
<1>10. ASSUME SendBackResponses PROVE Opened'
    <2>1. \A i \in DOMAIN tasks' : KnownTask(tasks'[i], connects)
        BY <1>10, <1>b DEF SendBackResponses
    <2>2. \A j \in DOMAIN result' : Known(result'[j][2], connects)
        BY <1>10, HeadIs DEF SendBackResponses, KnownTask
    <2> QED
        BY <1>10, <1>f, <2>1, <2>2 DEF SendBackResponses
<1>11. ASSUME SendBack PROVE Opened'
    <2>1. result # <<>> => \A j \in DOMAIN Tail(result) : Known(Tail(result)[j][2], connects)
        BY Shifted
    <2>2. UNCHANGED <<cache, connects, tasks>>
        BY <1>11 DEF SendBack
    <2>3. \A ctx \in cache' : (ctx = Context(ctx[1]))'
        BY <1>f, <2>2
    <2>4. KnownTask(task', connects) /\ \A j \in DOMAIN result' : Known(result'[j][2], connects)
        BY <1>11, <1>c, <1>d, <2>1 DEF SendBack
    <2> QED
        BY <2>2, <2>3, <2>4
<1>12. ASSUME Activate PROVE Opened'
    BY <1>12, <1>f DEF Activate
<1>13. ASSUME Waited PROVE Opened'
    BY <1>13, <1>f DEF Waited
<1>14. ASSUME WaitTimesOut PROVE Opened'
    BY <1>14, <1>f DEF WaitTimesOut, BeginsReset
<1>15. ASSUME LoadIndexes PROVE Opened'
    BY <1>15, <1>f DEF LoadIndexes, BeginsReset
<1>16. ASSUME Deactivate PROVE Opened'
    BY <1>16, <1>f DEF Deactivate
<1>17. ASSUME Unload PROVE Opened'
    BY <1>17, <1>f DEF Unload, BeginsReset
<1>18. ASSUME DisconnectAll PROVE Opened'
    <2>1. cache' \subseteq cache
        BY <1>18 DEF DisconnectAll
    <2> QED
        BY <1>18, <1>f, <2>1 DEF DisconnectAll
<1>19. ASSUME HandleEvent PROVE Opened'
    BY <1>19, <1>f DEF HandleEvent
<1>20. CASE UNCHANGED vars
    BY <1>20, <1>f DEF vars, plugin, storage, switch, clients, thread, ghosts
<1> QED
    BY <1>1, <1>2, <1>3, <1>4, <1>5, <1>6, <1>7, <1>8, <1>9, <1>10,
       <1>11, <1>12, <1>13, <1>14, <1>15, <1>16, <1>17, <1>18, <1>19, <1>20 DEF Next, Execute, Switching

(* The flags and the contexts while replaying is switched.                 *)
LEMMA SwitchedNext == TypeInv /\ [Next]_vars => Switched'
<1> SUFFICES ASSUME TypeInv, [Next]_vars PROVE Switched'
    OBVIOUS
<1> USE DEF TypeInv, Typed, TypedFlags, Switched, plugin, switch, ghosts
<1>1. ASSUME NEW c \in Clients, Connect(c) PROVE Switched'
    <2>1. fresh' # {} => switchPc' = "idle" /\ active'
        BY <1>1 DEF Connect, isActive
    <2>2. fresh' \subseteq cache' /\ toReset' \subseteq cache'
        BY <1>1 DEF Connect
    <2>3. switchPc' # "reset" => toReset' = {}
        BY <1>1 DEF Connect
    <2> QED
        BY <1>1, <2>1, <2>2, <2>3 DEF Connect
<1>2. ASSUME NEW c \in Clients, Call(c) PROVE Switched'
    BY <1>2 DEF Call
<1>3. ASSUME React PROVE Switched'
    BY <1>3 DEF React
<1>4. ASSUME RunSteps PROVE Switched'
    BY <1>4 DEF RunSteps
<1>5. ASSUME FindIndex PROVE Switched'
    BY <1>5 DEF FindIndex
<1>6. ASSUME FindIndexThrows PROVE Switched'
    BY <1>6 DEF FindIndexThrows
<1>7. ASSUME Mark PROVE Switched'
    BY <1>7 DEF Mark
<1>8. ASSUME Answer PROVE Switched'
    BY <1>8 DEF Answer
<1>9. ASSUME LoadThrows PROVE Switched'
    BY <1>9 DEF LoadThrows
<1>10. ASSUME SendBackResponses PROVE Switched'
    BY <1>10 DEF SendBackResponses
<1>11. ASSUME SendBack PROVE Switched'
    BY <1>11 DEF SendBack
<1>12. ASSUME Activate PROVE Switched'
    BY <1>12 DEF Activate, isActive
<1>13. ASSUME Waited PROVE Switched'
    BY <1>13 DEF Waited
<1>14. ASSUME WaitTimesOut PROVE Switched'
    BY <1>14 DEF WaitTimesOut, BeginsReset
<1>15. ASSUME LoadIndexes PROVE Switched'
    BY <1>15 DEF LoadIndexes, BeginsReset
<1>16. ASSUME Deactivate PROVE Switched'
    BY <1>16 DEF Deactivate, isActive
<1>17. ASSUME Unload PROVE Switched'
    BY <1>17 DEF Unload, BeginsReset
<1>18. ASSUME DisconnectAll PROVE Switched'
    BY <1>18 DEF DisconnectAll
<1>19. ASSUME HandleEvent PROVE Switched'
    BY <1>19 DEF HandleEvent
<1>20. CASE UNCHANGED vars
    BY <1>20 DEF vars, plugin, storage, switch, clients, thread, ghosts
<1> QED
    BY <1>1, <1>2, <1>3, <1>4, <1>5, <1>6, <1>7, <1>8, <1>9, <1>10,
       <1>11, <1>12, <1>13, <1>14, <1>15, <1>16, <1>17, <1>18, <1>19, <1>20 DEF Next, Execute, Switching

(* What the types and the threads rest on is kept by every step.           *)
LEMMA TypeNext == TypeInv /\ [Next]_vars => TypeInv'
BY FlagsNext, ClientsNext, ThreadNext, HandsNext, OpenedNext, SwitchedNext DEF TypeInv, Typed

LEMMA TypesHold == Spec => []TypeInv
<1>1. Init => TypeInv
    BY InitTyped
<1>2. TypeInv /\ [Next]_vars => TypeInv'
    BY TypeNext
<1> QED
    BY <1>1, <1>2, PTL DEF Spec

(***************************************************************************)
(* For every recording and any number of connections and switches, a line  *)
(* is chosen as an answer only if it was recorded as one, only callbacks   *)
(* are taken as callbacks, and each goes to a context that was opened.     *)
(***************************************************************************)
THEOREM ReplayTypes == Spec => []TypeOK
<1>1. TypeInv => TypeOK
    <2> SUFFICES ASSUME TypeInv PROVE TypeOK
        OBVIOUS
    <2>1. indexes \subseteq Lines
        BY DEF TypeInv, Typed, TypedFlags, Indexed
    <2> QED
        BY <2>1 DEF TypeInv, Typed, TypedFlags, TypedClients, TypedThread, Hands, Callbacks, Pairs, TypeOK
<1> QED
    BY <1>1, TypesHold, PTL

-----------------------------------------------------------------------------
(* One call at most, as tasks come and go.                                 *)
LEMMA SingleQueue ==
    ASSUME NEW ctx, NEW q \in Seq(AnyTask), NEW t, NEW p, NEW a, NEW prog, Single(ctx, q, t, p, a, prog)
    PROVE  /\ q # <<>> => Single(ctx, Tail(q), t, p, a, prog)
           /\ \A b \in AnyTask : b.ctx # ctx => Single(ctx, Append(q, b), t, p, a, prog)
           /\ \A u : u.ctx # ctx => Single(ctx, q, u, p, a, prog)
<1>1. ASSUME q # <<>> PROVE Single(ctx, Tail(q), t, p, a, prog)
    <2>1. \A i \in DOMAIN Tail(q) : i \in Nat /\ i + 1 \in DOMAIN q /\ Tail(q)[i] = q[i + 1]
        BY <1>1, Shifted
    <2> QED
        BY <2>1 DEF Single
<1>2. ASSUME NEW b \in AnyTask, b.ctx # ctx PROVE Single(ctx, Append(q, b), t, p, a, prog)
    <2>1. \A i \in DOMAIN Append(q, b) :
              \/ i \in DOMAIN q /\ Append(q, b)[i] = q[i]
              \/ Append(q, b)[i] = b
        BY Appended
    <2> QED
        BY <1>2, <2>1 DEF Single
<1>3. ASSUME NEW u, u.ctx # ctx PROVE Single(ctx, q, u, p, a, prog)
    BY <1>3 DEF Single
<1> QED
    BY <1>1, <1>2, <1>3

(* A task is moved, answered or added.                                     *)
LEMMA SingleMoves ==
    ASSUME NEW ctx, NEW q \in Seq(AnyTask), q # <<>>, NEW t, t.ctx # ctx, NEW p, NEW a, NEW prog,
           Single(ctx, q, t, p, a, prog)
    PROVE  /\ Single(ctx, Tail(q), Head(q), p, a, prog)
           /\ \A b \in AnyTask :
                 b.ctx = Head(q).ctx /\ b.call = Head(q).call /\ b.extra = Head(q).extra
                     => Single(ctx, Append(Tail(q), b), t, p, a, prog)
<1>1. /\ Tail(q) \in Seq(AnyTask) /\ 1 \in DOMAIN q /\ Head(q) = q[1]
      /\ \A i \in DOMAIN Tail(q) : i \in Nat /\ i + 1 \in DOMAIN q /\ Tail(q)[i] = q[i + 1] /\ i + 1 # 1
    BY Shifted
<1>2. Single(ctx, Tail(q), t, p, a, prog)
    BY SingleQueue
<1>3. Head(q).ctx = ctx => \A i \in DOMAIN Tail(q) : Tail(q)[i].ctx # ctx
    BY <1>1 DEF Single
<1>4. Head(q).ctx = ctx => CallOk(Head(q), p, a, prog)
    BY <1>1 DEF Single
<1>5. Single(ctx, Tail(q), Head(q), p, a, prog)
    BY <1>2, <1>3, <1>4 DEF Single
<1>6. ASSUME NEW b \in AnyTask, b.ctx = Head(q).ctx, b.call = Head(q).call, b.extra = Head(q).extra
      PROVE  Single(ctx, Append(Tail(q), b), t, p, a, prog)
    <2>1. \A i \in DOMAIN Append(Tail(q), b) :
              \/ i \in DOMAIN Tail(q) /\ Append(Tail(q), b)[i] = Tail(q)[i]
              \/ i = Len(Tail(q)) + 1 /\ Append(Tail(q), b)[i] = b
        BY <1>1, Appended
    <2>2. Head(q).ctx = ctx => CallOk(b, p, a, prog)
        BY <1>4, <1>6 DEF CallOk
    <2> QED
        BY <1>2, <1>3, <1>6, <2>1, <2>2 DEF Single
<1> QED
    BY <1>5, <1>6

LEMMA SingleAnswered ==
    ASSUME NEW ctx, NEW q \in Seq(AnyTask), NEW t, t.ctx = ctx, NEW p \in Nat, NEW a \in Nat, NEW prog,
           Single(ctx, q, t, p, a, prog), NEW u, u.ctx # ctx
    PROVE  p = a + 1 /\ Single(ctx, q, u, p, a + 1, prog)
BY DEF Single, CallOk

LEMMA SingleCalls ==
    ASSUME NEW ctx, NEW q \in Seq(AnyTask), NEW t, NEW p \in Nat, NEW a \in Nat, NEW prog, Len(prog) \in Nat,
           Single(ctx, q, t, p, a, prog), ~(p > a), p < Len(prog) + 1,
           NEW b \in AnyTask, CallOk(b, p + 1, a, prog)
    PROVE  Single(ctx, Append(q, b), t, p + 1, a, prog)
<1>1. p = a
    BY DEF Single
<1>2. t.ctx # ctx /\ \A i \in DOMAIN q : q[i].ctx # ctx
    BY <1>1 DEF Single, CallOk
<1>3. \A i \in DOMAIN Append(q, b) :
              \/ i \in DOMAIN q /\ Append(q, b)[i] = q[i]
              \/ i = Len(q) + 1 /\ Append(q, b)[i] = b
    BY Appended
<1> QED
    BY <1>1, <1>2, <1>3 DEF Single

(* The answers of a client when a context gets one.                        *)
LEMMA AnswerGot ==
    ASSUME TypeInv, NEW ctx \in Contexts, NEW l \in Calls \cup {0}, GetsAnswer(ctx, l), NEW c \in Clients
    PROVE  /\ ctx # Context(c) \/ ctx \notin cache => answers'[c] = answers[c]
           /\ ctx = Context(c) /\ ctx \in cache => answers'[c] = Append(answers[c], l)
           /\ answers[c] \in Seq(Calls \cup {0}) /\ Len(answers[c]) \in Nat
           /\ ctx = Context(c) /\ ctx \in cache =>
                 /\ Len(answers'[c]) = Len(answers[c]) + 1
                 /\ \A k \in 1..Len(answers[c]) : answers'[c][k] = answers[c][k]
                 /\ answers'[c][Len(answers[c]) + 1] = l
<1>1. answers \in [Clients -> Seq(Calls \cup {0})]
    BY DEF TypeInv, Typed, TypedClients
<1>2. answers[c] \in Seq(Calls \cup {0}) /\ Len(answers[c]) \in Nat
    BY <1>1
<1>3. ctx[1] \in Clients
    BY ContextsAre
<1>4. answers' = IF ctx \in cache THEN [answers EXCEPT ![ctx[1]] = Append(answers[ctx[1]], l)] ELSE answers
    BY DEF GetsAnswer
<1>5. ctx # Context(c) \/ ctx \notin cache => answers'[c] = answers[c]
    <2>1. ctx \in cache => ctx = Context(ctx[1])
        BY DEF TypeInv, Opened
    <2> QED
        BY <1>1, <1>3, <1>4, <2>1
<1>6. ctx = Context(c) /\ ctx \in cache => answers'[c] = Append(answers[c], l)
    BY <1>1, <1>4 DEF Context
<1>7. /\ Len(Append(answers[c], l)) = Len(answers[c]) + 1
      /\ \A k \in 1..Len(answers[c]) : Append(answers[c], l)[k] = answers[c][k]
      /\ Append(answers[c], l)[Len(answers[c]) + 1] = l
    BY <1>2
<1> QED
    BY <1>2, <1>5, <1>6, <1>7

(* A client has one call under way at most.                                *)
LEMMA OneCallNext ==
    TypeInv /\ (\A c \in Clients : OneCall(c)) /\ [Next]_vars => \A c \in Clients : OneCall(c)'
<1> SUFFICES ASSUME TypeInv, \A c \in Clients : OneCall(c), [Next]_vars PROVE \A d \in Clients : OneCall(d)'
    OBVIOUS
<1> USE DEF thread, clients
<1>a. tasks \in Seq(AnyTask) /\ \A d \in Clients : pos[d] \in Nat /\ Len(answers[d]) \in Nat
    BY DEF TypeInv, Typed, TypedThread, TypedClients
<1>b. \A d \in Clients : Task.ctx # Context(d)
    BY TaskIs DEF Context, Task
<1>c. ASSUME NEW d \in Clients, Context(d)' = Context(d), pos'[d] = pos[d], answers'[d] = answers[d],
             Single(Context(d), tasks', task', pos[d], Len(answers[d]), Program[d])
      PROVE  OneCall(d)'
    BY <1>c DEF OneCall
<1>d. ASSUME UNCHANGED <<connects, pos, answers, tasks, task>> PROVE \A d \in Clients : OneCall(d)'
    BY <1>d DEF OneCall, Context
<1>e. ASSUME connects' = connects PROVE \A d \in Clients : Context(d)' = Context(d)
    BY <1>e DEF Context
<1>1. ASSUME NEW c \in Clients, Connect(c) PROVE \A d \in Clients : OneCall(d)'
    <2> SUFFICES ASSUME NEW d \in Clients PROVE OneCall(d)'
        OBVIOUS
    <2>1. UNCHANGED <<tasks, task>> /\ connects' = [connects EXCEPT ![c] = connects[c] + 1]
        BY <1>1 DEF Connect
    <2>2. connects \in [Clients -> 0..MaxConnects] /\ pos \in [Clients -> Nat]
          /\ answers \in [Clients -> Seq(Calls \cup {0})]
        BY DEF TypeInv, Typed, TypedClients
    <2>3. CASE d # c
        <3>1. Context(d)' = Context(d) /\ pos'[d] = pos[d] /\ answers'[d] = answers[d]
            BY <1>1, <2>1, <2>2, <2>3 DEF Connect, Context
        <3> QED
            BY <1>c, <2>1, <3>1 DEF OneCall
    <2>4. CASE d = c
        <3>1. Context(c)' = <<c, connects[c] + 1>> /\ pos'[c] = 0 /\ answers'[c] = <<>>
            BY <1>1, <2>2 DEF Connect, Context
        <3>2. \A ctx \in Contexts : Known(ctx, connects) => ctx # <<c, connects[c] + 1>>
            BY <2>2 DEF Known
        <3>3. /\ task.ctx # <<c, connects[c] + 1>>
              /\ \A i \in DOMAIN tasks : tasks[i].ctx # <<c, connects[c] + 1>>
            <4>1. task \in AnyTask /\ \A i \in DOMAIN tasks : tasks[i] \in AnyTask
                BY <1>a DEF TypeInv, Typed, TypedThread
            <4>2. ASSUME NEW t \in AnyTask, KnownTask(t, connects)
                  PROVE  t.ctx # <<c, connects[c] + 1>>
                <5>1. t.ctx \in Contexts \/ t.ctx = <<>>
                    BY DEF AnyTask
                <5>2. t.ctx \in Contexts => Known(t.ctx, connects)
                    BY <4>2 DEF KnownTask
                <5>3. CASE t.ctx = <<>>
                    BY <5>3
                <5>4. CASE t.ctx \in Contexts
                    <6>1. PICK x \in Contexts : x = t.ctx
                        BY <5>4
                    <6> QED
                        BY <3>2, <5>2, <6>1
                <5> QED
                    BY <5>1, <5>3, <5>4
            <4> QED
                BY <4>1, <4>2 DEF TypeInv, Opened
        <3>4. Len(Program[c]) \in Nat /\ Len(<<>>) = 0
            BY ProgramIs
        <3>5. Single(<<c, connects[c] + 1>>, tasks, task, 0, 0, Program[c])
            BY <3>3, <3>4 DEF Single
        <3> QED
            BY <2>1, <2>4, <3>1, <3>4, <3>5 DEF OneCall
    <2> QED
        BY <2>3, <2>4
<1>2. ASSUME NEW c \in Clients, Call(c) PROVE \A d \in Clients : OneCall(d)'
    <2> SUFFICES ASSUME NEW d \in Clients PROVE OneCall(d)'
        OBVIOUS
    <2>1. PICK b \in AnyTask : /\ b.ctx = Context(c) /\ b.call = NextCall(c)
                               /\ b.extra = (pos[c] >= Len(Program[c])) /\ tasks' = Append(tasks, b)
        BY <1>2, CallIs
    <2>2. /\ UNCHANGED <<connects, answers, task>> /\ pos' = [pos EXCEPT ![c] = pos[c] + 1]
          /\ pos \in [Clients -> Nat]
        BY <1>2 DEF Call, TypeInv, Typed, TypedClients
    <2>3. CASE d # c
        <3>1. Context(d) # Context(c)
            BY <2>3 DEF Context
        <3> QED
            BY <1>a, <1>c, <1>e, <2>1, <2>2, <2>3, <3>1, SingleQueue DEF OneCall
    <2>4. CASE d = c
        <3>1. Len(Program[c]) \in Nat
            BY ProgramIs
        <3>2. ~(pos[c] > Len(answers[c])) /\ pos[c] < Len(Program[c]) + 1
            <4>1. CASE mode.ordered
                BY <1>2, <1>a, <3>1, <4>1 DEF Call, Waits
            <4>2. CASE ~mode.ordered
                BY <1>2, <1>a, <3>1, <4>2 DEF Call, Waits
            <4> QED
                BY <4>1, <4>2
        <3>3. pos[c] = Len(answers[c])
            BY <1>a, <3>2 DEF OneCall, Single
        <3>4. CallOk(b, pos[c] + 1, Len(answers[c]), Program[c])
            <4>1. CASE pos[c] >= Len(Program[c])
                <5>1. b.extra
                    BY <2>1, <4>1, Zenon
                <5> QED
                    BY <1>a, <2>1, <3>1, <3>3, <4>1, <5>1 DEF CallOk, NextCall
            <4>2. CASE ~(pos[c] >= Len(Program[c]))
                <5>1. ~b.extra
                    BY <2>1, <4>2, Zenon
                <5> QED
                    BY <1>a, <2>1, <3>1, <3>3, <4>2, <5>1 DEF CallOk, NextCall
            <4> QED
                BY <4>1, <4>2
        <3>5. Single(Context(c), Append(tasks, b), task, pos[c] + 1, Len(answers[c]), Program[c])
            <4>1. Single(Context(c), tasks, task, pos[c], Len(answers[c]), Program[c])
                BY DEF OneCall
            <4> QED
                BY <1>a, <3>1, <3>2, <3>4, <4>1, SingleCalls
        <3>6. Context(c)' = Context(c) /\ pos'[c] = pos[c] + 1 /\ answers'[c] = answers[c]
            BY <1>e, <2>2
        <3> QED
            BY <2>1, <2>2, <2>4, <3>5, <3>6 DEF OneCall
    <2> QED
        BY <2>3, <2>4
<1>3. ASSUME React PROVE \A d \in Clients : OneCall(d)'
    <2> SUFFICES ASSUME NEW d \in Clients PROVE OneCall(d)'
        OBVIOUS
    <2>1. PICK b \in AnyTask : /\ b.ctx = Head(tasks).ctx /\ b.call = Head(tasks).call
                               /\ b.extra = Head(tasks).extra /\ tasks' = Append(Tail(tasks), b)
        BY <1>3, ReactIs
    <2>2. UNCHANGED <<connects, pos, answers, task>> /\ task = Task /\ tasks # <<>>
        BY <1>3 DEF React, TypeInv, Hands, InCall
    <2>3. Single(Context(d), tasks, task, pos[d], Len(answers[d]), Program[d])
        BY DEF OneCall
    <2>4. Single(Context(d), tasks', task, pos[d], Len(answers[d]), Program[d])
        BY <1>a, <1>b, <2>1, <2>2, <2>3, SingleMoves
    <2> QED
        BY <1>c, <1>e, <2>2, <2>4
<1>4. ASSUME RunSteps PROVE \A d \in Clients : OneCall(d)'
    <2> SUFFICES ASSUME NEW d \in Clients PROVE OneCall(d)'
        OBVIOUS
    <2>1. /\ UNCHANGED <<connects, pos>> /\ task = Task /\ tasks # <<>> /\ tasks' = Tail(tasks)
          /\ Head(tasks).ctx \in Contexts
        BY <1>4, HeadIs DEF RunSteps, TypeInv, Hands, InCall
    <2>2. Single(Context(d), tasks, task, pos[d], Len(answers[d]), Program[d])
        BY DEF OneCall
    <2>3. Single(Context(d), Tail(tasks), Head(tasks), pos[d], Len(answers[d]), Program[d])
        BY <1>a, <1>b, <2>1, <2>2, SingleMoves
    <2>4. CASE isActive
        BY <1>4, <1>c, <1>e, <2>1, <2>3, <2>4 DEF RunSteps
    <2>5. CASE ~isActive
        <3>1. GetsAnswer(Head(tasks).ctx, 0) /\ task' = task
            BY <1>4, <2>5 DEF RunSteps, Upstream
        <3>2. Tail(tasks) \in Seq(AnyTask)
            BY <1>a, <2>1, Shifted
        <3>3. CASE Head(tasks).ctx = Context(d) /\ Head(tasks).ctx \in cache
            <4>1. Single(Context(d), Tail(tasks), Task, pos[d], Len(answers[d]) + 1, Program[d])
                BY <1>a, <1>b, <2>3, <3>2, <3>3, SingleAnswered
            <4>2. Len(answers'[d]) = Len(answers[d]) + 1
                BY <2>1, <3>1, <3>3, AnswerGot
            <4> QED
                BY <1>e, <2>1, <3>1, <4>1, <4>2 DEF OneCall
        <3>4. CASE ~(Head(tasks).ctx = Context(d) /\ Head(tasks).ctx \in cache)
            <4>1. answers'[d] = answers[d]
                BY <2>1, <3>1, <3>4, AnswerGot
            <4>2. Single(Context(d), Tail(tasks), Task, pos[d], Len(answers[d]), Program[d])
                BY <1>b, <2>3, <3>2, SingleQueue
            <4> QED
                BY <1>c, <1>e, <2>1, <3>1, <4>1, <4>2
        <3> QED
            BY <3>3, <3>4
    <2> QED
        BY <2>4, <2>5
<1>5. ASSUME FindIndex PROVE \A d \in Clients : OneCall(d)'
    <2> SUFFICES ASSUME NEW d \in Clients PROVE OneCall(d)'
        OBVIOUS
    <2>1. UNCHANGED <<connects, pos, tasks>> /\ task.ctx \in Contexts
        BY <1>5 DEF FindIndex, TypeInv, Hands, InCall
    <2>2. Single(Context(d), tasks, task, pos[d], Len(answers[d]), Program[d])
        BY DEF OneCall
    <2>3. CASE answers'[d] = answers[d]
        <3>1. Single(Context(d), tasks, Task, pos[d], Len(answers[d]), Program[d])
            BY <1>a, <1>b, <2>2, SingleQueue
        <3>2. task' = task \/ task' = Task
            BY <1>5 DEF FindIndex, Idle
        <3> QED
            BY <1>c, <1>e, <2>1, <2>2, <2>3, <3>1, <3>2
    <2>4. CASE answers'[d] # answers[d]
        <3>1. GetsAnswer(task.ctx, 0) /\ task' = Task
            BY <1>5, <2>4 DEF FindIndex, Upstream, Idle
        <3>2. task.ctx = Context(d) /\ Len(answers'[d]) = Len(answers[d]) + 1
            BY <2>1, <2>4, <3>1, AnswerGot
        <3>3. Single(Context(d), tasks, Task, pos[d], Len(answers[d]) + 1, Program[d])
            BY <1>a, <1>b, <2>2, <3>2, SingleAnswered
        <3> QED
            BY <1>e, <2>1, <3>1, <3>2, <3>3 DEF OneCall
    <2> QED
        BY <2>3, <2>4
<1>6. ASSUME FindIndexThrows PROVE \A d \in Clients : OneCall(d)'
    <2> SUFFICES ASSUME NEW d \in Clients PROVE OneCall(d)'
        OBVIOUS
    <2>1. UNCHANGED <<connects, pos, answers, tasks>> /\ task' = Task
        BY <1>6 DEF FindIndexThrows, Idle
    <2>2. Single(Context(d), tasks, Task, pos[d], Len(answers[d]), Program[d])
        BY <1>a, <1>b, SingleQueue DEF OneCall
    <2> QED
        BY <1>c, <1>e, <2>1, <2>2
<1>7. ASSUME Mark PROVE \A d \in Clients : OneCall(d)'
    BY <1>7, <1>d DEF Mark
<1>8. ASSUME Answer PROVE \A d \in Clients : OneCall(d)'
    <2> SUFFICES ASSUME NEW d \in Clients PROVE OneCall(d)'
        OBVIOUS
    <2>1. /\ UNCHANGED <<connects, pos>> /\ task.ctx \in Contexts /\ task' = Task
          /\ GetsAnswer(task.ctx, found) /\ found \in Calls \cup {0}
        BY <1>8 DEF Answer, TypeInv, Typed, TypedThread, Hands, InCall, Idle
    <2>2. Single(Context(d), tasks, task, pos[d], Len(answers[d]), Program[d])
        BY DEF OneCall
    <2>3. Single(Context(d), tasks', task, pos[d], Len(answers[d]), Program[d]) /\ tasks' \in Seq(AnyTask)
        <3>1. CASE tasks' = tasks
            BY <1>a, <2>2, <3>1
        <3>2. ASSUME NEW b \in AnyTask, Batch(b), tasks' = Append(tasks, b)
              PROVE  Single(Context(d), tasks', task, pos[d], Len(answers[d]), Program[d]) /\ tasks' \in Seq(AnyTask)
            <4>1. b.ctx # Context(d)
                BY <3>2 DEF Batch, Context
            <4> QED
                BY <1>a, <2>2, <3>2, <4>1, SingleQueue, Appended
        <3> QED
            BY <1>8, <3>1, <3>2, AnswerIs DEF TypeInv
    <2>4. CASE task.ctx = Context(d) /\ task.ctx \in cache
        <3>1. Len(answers'[d]) = Len(answers[d]) + 1
            BY <2>1, <2>4, AnswerGot
        <3>2. Single(Context(d), tasks', Task, pos[d], Len(answers[d]) + 1, Program[d])
            BY <1>a, <1>b, <2>3, <2>4, SingleAnswered
        <3> QED
            BY <1>e, <2>1, <3>1, <3>2 DEF OneCall
    <2>5. CASE ~(task.ctx = Context(d) /\ task.ctx \in cache)
        <3>1. answers'[d] = answers[d]
            BY <2>1, <2>5, AnswerGot
        <3>2. Single(Context(d), tasks', Task, pos[d], Len(answers[d]), Program[d])
            BY <1>b, <2>3, SingleQueue
        <3> QED
            BY <1>c, <1>e, <2>1, <3>1, <3>2
    <2> QED
        BY <2>4, <2>5
<1>9. ASSUME LoadThrows PROVE \A d \in Clients : OneCall(d)'
    <2> SUFFICES ASSUME NEW d \in Clients PROVE OneCall(d)'
        OBVIOUS
    <2>1. UNCHANGED <<connects, pos, answers, tasks>> /\ task' = Task
        BY <1>9 DEF LoadThrows, Idle
    <2>2. Single(Context(d), tasks, Task, pos[d], Len(answers[d]), Program[d])
        BY <1>a, <1>b, SingleQueue DEF OneCall
    <2> QED
        BY <1>c, <1>e, <2>1, <2>2
<1>10. ASSUME SendBackResponses PROVE \A d \in Clients : OneCall(d)'
    <2> SUFFICES ASSUME NEW d \in Clients PROVE OneCall(d)'
        OBVIOUS
    <2>1. UNCHANGED <<connects, pos, answers, task>> /\ tasks' = Tail(tasks) /\ tasks # <<>>
        BY <1>10 DEF SendBackResponses
    <2>2. Single(Context(d), Tail(tasks), task, pos[d], Len(answers[d]), Program[d])
        BY <1>a, <2>1, SingleQueue DEF OneCall
    <2> QED
        BY <1>c, <1>e, <2>1, <2>2
<1>11. ASSUME SendBack PROVE \A d \in Clients : OneCall(d)'
    <2>1. task' = task
        BY <1>11 DEF SendBack, Idle, TypeInv, Hands, InCall
    <2> QED
        BY <1>11, <1>d, <2>1 DEF SendBack
<1>12. ASSUME Activate PROVE \A d \in Clients : OneCall(d)'
    BY <1>12, <1>d DEF Activate
<1>13. ASSUME Waited PROVE \A d \in Clients : OneCall(d)'
    BY <1>13, <1>d DEF Waited
<1>14. ASSUME WaitTimesOut PROVE \A d \in Clients : OneCall(d)'
    BY <1>14, <1>d DEF WaitTimesOut
<1>15. ASSUME LoadIndexes PROVE \A d \in Clients : OneCall(d)'
    BY <1>15, <1>d DEF LoadIndexes
<1>16. ASSUME Deactivate PROVE \A d \in Clients : OneCall(d)'
    BY <1>16, <1>d DEF Deactivate
<1>17. ASSUME Unload PROVE \A d \in Clients : OneCall(d)'
    BY <1>17, <1>d DEF Unload
<1>18. ASSUME DisconnectAll PROVE \A d \in Clients : OneCall(d)'
    BY <1>18, <1>d DEF DisconnectAll
<1>19. ASSUME HandleEvent PROVE \A d \in Clients : OneCall(d)'
    BY <1>19, <1>d DEF HandleEvent
<1>20. CASE UNCHANGED vars
    BY <1>20, <1>d DEF vars, plugin, storage, switch, clients, thread, ghosts
<1> QED
    BY <1>1, <1>2, <1>3, <1>4, <1>5, <1>6, <1>7, <1>8, <1>9, <1>10,
       <1>11, <1>12, <1>13, <1>14, <1>15, <1>16, <1>17, <1>18, <1>19, <1>20 DEF Next, Execute, Switching

-----------------------------------------------------------------------------
(* The call that the thread has in hand for a client.                      *)
LEMMA InHand ==
    ASSUME TypeInv, \A d \in Clients : OneCall(d), NEW c \in Clients, task.ctx = Context(c)
    PROVE  /\ pos[c] = Len(answers[c]) + 1 /\ Len(answers[c]) \in Nat
           /\ ~task.extra => pos[c] <= Len(Program[c])
           /\ pos[c] <= Len(Program[c]) =>
                 /\ pos[c] \in DOMAIN Program[c] /\ Program[c][pos[c]] = task.call /\ ~task.extra
                 /\ task.call \in Calls /\ Recorded[task.call].client = c
                 /\ pc # "load" => task.call \notin Served
                 /\ \A k \in DOMAIN Program[c] : Program[c][k] = task.call => k = pos[c]
<1>1. CallOk(task, pos[c], Len(answers[c]), Program[c])
    BY DEF OneCall, Single
<1>2. Len(answers[c]) \in Nat /\ pos[c] \in Nat
    BY DEF TypeInv, Typed, TypedClients
<1>3. /\ Len(Program[c]) \in Nat /\ DOMAIN Program[c] = 1..Len(Program[c])
      /\ \A k \in DOMAIN Program[c] : Program[c][k] \in Calls /\ Recorded[Program[c][k]].client = c
      /\ \A i, j \in DOMAIN Program[c] : i < j => Program[c][i] < Program[c][j]
      /\ Calls \subseteq Nat
    BY ProgramIs, LinesAre
<1>4. pos[c] = Len(answers[c]) + 1
    BY <1>1 DEF CallOk
<1>5. ~task.extra => pos[c] <= Len(Program[c])
    BY <1>1, <1>2, <1>3 DEF CallOk
<1>6. ASSUME pos[c] <= Len(Program[c])
      PROVE  /\ pos[c] \in DOMAIN Program[c] /\ Program[c][pos[c]] = task.call /\ ~task.extra
             /\ \A k \in DOMAIN Program[c] : Program[c][k] = task.call => k = pos[c]
    <2>1. pos[c] \in DOMAIN Program[c] /\ Program[c][pos[c]] = task.call /\ ~task.extra
        BY <1>1, <1>2, <1>3, <1>4, <1>6 DEF CallOk
    <2>2. ASSUME NEW k \in DOMAIN Program[c], Program[c][k] = task.call PROVE k = pos[c]
        <3>1. k \in Nat /\ pos[c] \in Nat /\ task.call \in Nat
            <4>1. k \in 1..Len(Program[c])
                BY <1>3
            <4>2. task.call \in Calls
                BY <1>3, <2>1
            <4>3. k \in Nat
                BY <4>1
            <4>4. task.call \in Nat
                BY <1>3, <4>2, Zenon
            <4> QED
                BY <1>2, <4>3, <4>4
        <3>2. ~(k < pos[c]) /\ ~(pos[c] < k)
            BY <1>3, <2>1, <2>2, <3>1
        <3> QED
            BY <3>1, <3>2
    <2> QED
        BY <2>1, <2>2
<1>7. ASSUME pos[c] <= Len(Program[c]), pc # "load", task.call \in Served PROVE FALSE
    <2>1. Recorded[task.call].client = c
        BY <1>3, <1>6, <1>7
    <2>2. PICK k \in DOMAIN Program[c] : Program[c][k] = task.call /\ k <= Len(answers[c])
        BY <1>7, <2>1 DEF Served
    <2> QED
        BY <1>2, <1>4, <1>6, <1>7, <2>2
<1> QED
    BY <1>2, <1>3, <1>4, <1>5, <1>6, <1>7

(* Calls that are alike are finitely many.                                 *)
LEMMA AlikeAre ==
    ASSUME NEW l \in Calls, NEW S \in SUBSET Calls
    PROVE  /\ IsFiniteSet(S \cap Alike(l)) /\ Cardinality(S \cap Alike(l)) \in Nat
           /\ \A T \in SUBSET S : Cardinality(T \cap Alike(l)) <= Cardinality(S \cap Alike(l))
           /\ \A m : Cardinality((S \cup {m}) \cap Alike(l)) <= Cardinality(S \cap Alike(l)) + 1
           /\ \A m : m \notin Alike(l) => (S \cup {m}) \cap Alike(l) = S \cap Alike(l)
           /\ \A m \in Alike(l) : m \notin S =>
                 Cardinality((S \cup {m}) \cap Alike(l)) = Cardinality(S \cap Alike(l)) + 1
<1>1. IsFiniteSet(S \cap Alike(l))
    BY LinesAre, FS_Subset
<1>2. Cardinality(S \cap Alike(l)) \in Nat
    BY <1>1, FS_CardinalityType
<1>3. ASSUME NEW T \in SUBSET S PROVE Cardinality(T \cap Alike(l)) <= Cardinality(S \cap Alike(l))
    BY <1>1, FS_Subset
<1>4. ASSUME NEW m, m \notin Alike(l) PROVE (S \cup {m}) \cap Alike(l) = S \cap Alike(l)
    BY <1>4
<1>5. ASSUME NEW m \in Alike(l) PROVE (S \cup {m}) \cap Alike(l) = (S \cap Alike(l)) \cup {m}
    BY <1>5
<1>6. ASSUME NEW m \in Alike(l), m \notin S
      PROVE  Cardinality((S \cup {m}) \cap Alike(l)) = Cardinality(S \cap Alike(l)) + 1
    BY <1>1, <1>5, <1>6, FS_AddElement
<1>7. ASSUME NEW m PROVE Cardinality((S \cup {m}) \cap Alike(l)) <= Cardinality(S \cap Alike(l)) + 1
    <2>1. CASE m \in S
        <3>1. (S \cup {m}) \cap Alike(l) = S \cap Alike(l)
            BY <2>1
        <3>2. \A x \in Nat : x <= x + 1
            OBVIOUS
        <3> QED
            BY <1>2, <3>1, <3>2
    <2>2. CASE m \notin Alike(l)
        BY <1>2, <1>4, <2>2
    <2> QED
        BY <1>2, <1>6, <2>1, <2>2
<1> QED
    BY <1>1, <1>2, <1>3, <1>4, <1>6, <1>7

(* A line that is free is found for a call that was not served: there are  *)
(* as many as calls of its kind, and no more were used than calls served.  *)
LEMMA LineIsFree ==
    ASSUME TypeInv, Counted, ~disturbed, Plays, NEW l \in Calls, l \notin Served
    PROVE  findIndex(l) # 0 /\ \A m \in Alike(l) : m \in Matching(l)
<1>1. l \in Calls /\ l \notin Served /\ l \in Alike(l)
    BY DEF Alike
<1>2. Served \in SUBSET Calls /\ completedIndexes \in SUBSET Calls
    BY DEF Served, TypeInv, Typed, TypedFlags
<1>3. PICK m \in Alike(l) : m \notin completedIndexes
    <2> SUFFICES ASSUME Alike(l) \subseteq completedIndexes PROVE FALSE
        OBVIOUS
    <2>1. Calls \in SUBSET Calls /\ Served \cup {l} \in SUBSET Calls
        BY <1>1, <1>2
    <2>2. Calls \cap Alike(l) = completedIndexes \cap Alike(l)
        BY <1>2 DEF Alike
    <2>3. Cardinality((Served \cup {l}) \cap Alike(l)) = Cardinality(Served \cap Alike(l)) + 1
        BY <1>1, <1>2, AlikeAre
    <2>4. Cardinality((Served \cup {l}) \cap Alike(l)) <= Cardinality(Calls \cap Alike(l))
        BY <1>1, <2>1, AlikeAre
    <2>5. Cardinality(completedIndexes \cap Alike(l)) <= Cardinality(Served \cap Alike(l))
        BY <1>1 DEF Counted
    <2>6. /\ Cardinality(Calls \cap Alike(l)) \in Nat /\ Cardinality(Served \cap Alike(l)) \in Nat
        BY <1>1, <1>2, <2>1, AlikeAre
    <2>7. PICK x \in Nat : x = Cardinality(Served \cap Alike(l))
        BY <2>6
    <2>8. PICK y \in Nat : y = Cardinality(Calls \cap Alike(l))
        BY <2>6
    <2>9. x + 1 <= y
        BY <2>3, <2>4, <2>7, <2>8
    <2>10. y <= x
        BY <2>2, <2>5, <2>7, <2>8
    <2> QED
        BY <2>9, <2>10
<1>4. ASSUME NEW n \in Alike(l) PROVE n \in Matching(l)
    <2>1. n \in Calls /\ n \in Indexed
        BY LinesAre DEF Alike, Indexed
    <2>2. indexes = Indexed
        BY DEF Plays, TypeInv, Typed, TypedFlags
    <2>3. Recorded[n].type # "RESPONSE"
        BY <2>1 DEF Calls, CallType
    <2> QED
        BY <2>1, <2>2, <2>3 DEF Matching, typeMatching, Alike
<1>5. PICK unused : unused = Matching(l) \ completedIndexes
    OBVIOUS
<1>6. m \in unused
    BY <1>3, <1>4, <1>5
<1>7. findIndex(l) = Best(l, unused)
    <2>1. ~(~mode.blockExternal /\ \E n \in Matching(l) : isRepeatableItem(n))
        BY DEF Plays, isRepeatableItem
    <2> QED
        BY <1>5, <1>6, <2>1 DEF findIndex
<1>8. unused \in SUBSET Lines /\ Best(l, unused) \in unused /\ 0 \notin Lines
    <2>1. unused \in SUBSET Lines
        BY <1>5 DEF Matching, TypeInv, Typed, TypedFlags, Indexed
    <2> QED
        BY <1>6, <2>1, BestIs, LinesAre
<1> QED
    BY <1>3, <1>4, <1>7, <1>8

(* What was served stays so, and what was used: until a switch forgets it. *)
LEMMA ServedNext ==
    TypeInv /\ (\A c \in Clients : OneCall(c)) /\ [Next]_vars =>
        /\ mode' = mode
        /\ Served \subseteq Served' \/ disturbed' \/ (fresh' = {} /\ completedIndexes' = {})
<1> SUFFICES ASSUME TypeInv, \A c \in Clients : OneCall(c), [Next]_vars PROVE mode' = mode /\ (Served \subseteq Served' \/ disturbed' \/ (fresh' = {} /\ completedIndexes' = {}))
    OBVIOUS
<1> USE DEF thread, clients, plugin, ghosts
<1>a. \A d \in Clients : pos[d] \in Nat /\ Len(answers[d]) \in Nat
    BY DEF TypeInv, Typed, TypedClients
<1>b. ASSUME UNCHANGED <<fresh, connects, pos, answers, pc, task>> PROVE Served \subseteq Served'
    BY <1>b DEF Served, Context
<1>c. \A l \in Served : Recorded[l].client \in Clients
    BY LinesAre DEF Served
<1>d. ASSUME UNCHANGED <<fresh, connects, pos>>, pc # "load" \/ task' = task,
             pc # "load" \/ pc' = "load", \A d \in Clients : Len(answers[d]) <= Len(answers'[d]),
             \A d \in Clients : Len(answers'[d]) \in Nat
      PROVE  Served \subseteq Served'
    <2> SUFFICES ASSUME NEW l \in Served PROVE l \in Served'
        OBVIOUS
    <2>1. PICK d \in Clients : d = Recorded[l].client
        BY <1>c
    <2>2. PICK k \in DOMAIN Program[d] :
              /\ Program[d][k] = l /\ Context(d) \in fresh /\ l \in Calls
              /\ k <= Len(answers[d]) \/ (k = pos[d] /\ pc = "load" /\ task.ctx = Context(d))
        BY <2>1 DEF Served
    <2>3. k \in Nat
        BY <2>1, ProgramIs
    <2>4. Context(d)' = Context(d)
        BY <1>d DEF Context
    <2>5. k <= Len(answers'[d]) \/ (k = pos'[d] /\ pc' = "load" /\ task'.ctx = Context(d))
        BY <1>a, <1>d, <2>2, <2>3
    <2> QED
        BY <1>d, <2>1, <2>2, <2>4, <2>5 DEF Served
<1>1. ASSUME NEW c \in Clients, Connect(c) PROVE mode' = mode /\ (Served \subseteq Served' \/ disturbed' \/ (fresh' = {} /\ completedIndexes' = {}))
    <2> SUFFICES ASSUME NEW l \in Served PROVE l \in Served'
        BY <1>1 DEF Connect
    <2>1. PICK d \in Clients : d = Recorded[l].client
        BY <1>c
    <2>2. Context(d) \in fresh
        BY <2>1 DEF Served
    <2>3. d # c
        BY <1>1, <2>2 DEF Connect, TypeInv, Switched
    <2>4. Context(d)' = Context(d) /\ pos'[d] = pos[d] /\ answers'[d] = answers[d] /\ fresh \subseteq fresh'
        BY <1>1, <2>3 DEF Connect, Context, TypeInv, Typed, TypedClients
    <2>5. pc' = pc /\ task' = task
        BY <1>1 DEF Connect
    <2> QED
        BY <2>1, <2>4, <2>5 DEF Served
<1>2. ASSUME NEW c \in Clients, Call(c) PROVE mode' = mode /\ (Served \subseteq Served' \/ disturbed' \/ (fresh' = {} /\ completedIndexes' = {}))
    <2> SUFFICES ASSUME NEW l \in Served PROVE l \in Served'
        BY <1>2 DEF Call
    <2>1. PICK d \in Clients : d = Recorded[l].client
        BY <1>c
    <2>2. PICK k \in DOMAIN Program[d] :
              /\ Program[d][k] = l /\ Context(d) \in fresh /\ l \in Calls
              /\ k <= Len(answers[d]) \/ (k = pos[d] /\ pc = "load" /\ task.ctx = Context(d))
        BY <2>1 DEF Served
    <2>3. UNCHANGED <<fresh, connects, answers, pc, task>> /\ Context(d)' = Context(d)
        BY <1>2 DEF Call, Context
    <2>4. d # c => pos'[d] = pos[d]
        BY <1>2 DEF Call, TypeInv, Typed, TypedClients
    <2>5. d = c => k <= Len(answers[d])
        <3>1. k \in Nat
            BY <2>1, ProgramIs
        <3> QED
            BY <1>2, <1>a, <2>2, <3>1 DEF Call, Waits
    <2> QED
        BY <2>1, <2>2, <2>3, <2>4, <2>5 DEF Served
<1>3. ASSUME React PROVE mode' = mode /\ (Served \subseteq Served' \/ disturbed' \/ (fresh' = {} /\ completedIndexes' = {}))
    BY <1>3, <1>b DEF React
<1>4. ASSUME RunSteps PROVE mode' = mode /\ (Served \subseteq Served' \/ disturbed' \/ (fresh' = {} /\ completedIndexes' = {}))
    <2>1. Head(tasks).ctx \in Contexts
        BY <1>4, HeadIs DEF RunSteps
    <2>2. answers' = answers \/ GetsAnswer(Head(tasks).ctx, 0)
        BY <1>4 DEF RunSteps, Upstream
    <2>3. \A d \in Clients : Len(answers[d]) <= Len(answers'[d]) /\ Len(answers'[d]) \in Nat
        <3>1. CASE answers' = answers
            BY <1>a, <3>1
        <3>2. CASE GetsAnswer(Head(tasks).ctx, 0)
            BY <1>a, <2>1, <3>2, AnswerGot
        <3> QED
            BY <2>2, <3>1, <3>2
    <2> QED
        BY <1>4, <1>d, <2>3 DEF RunSteps
<1>5. ASSUME FindIndex PROVE mode' = mode /\ (Served \subseteq Served' \/ disturbed' \/ (fresh' = {} /\ completedIndexes' = {}))
    <2>1. task.ctx \in Contexts
        BY <1>5 DEF FindIndex, TypeInv, Hands, InCall
    <2>2. answers' = answers \/ GetsAnswer(task.ctx, 0)
        BY <1>5 DEF FindIndex, Upstream
    <2>3. \A d \in Clients : Len(answers[d]) <= Len(answers'[d]) /\ Len(answers'[d]) \in Nat
        <3>1. CASE answers' = answers
            BY <1>a, <3>1
        <3>2. CASE GetsAnswer(task.ctx, 0)
            BY <1>a, <2>1, <3>2, AnswerGot
        <3> QED
            BY <2>2, <3>1, <3>2
    <2> QED
        BY <1>5, <1>d, <2>3 DEF FindIndex
<1>6. ASSUME FindIndexThrows PROVE mode' = mode /\ (Served \subseteq Served' \/ disturbed' \/ (fresh' = {} /\ completedIndexes' = {}))
    BY <1>6, <1>d, <1>a DEF FindIndexThrows
<1>7. ASSUME Mark PROVE mode' = mode /\ (Served \subseteq Served' \/ disturbed' \/ (fresh' = {} /\ completedIndexes' = {}))
    <2>1. UNCHANGED <<fresh, connects, pos, answers, task>> /\ pc' = "load"
        BY <1>7 DEF Mark
    <2> QED
        BY <1>7, <1>a, <1>d, <2>1 DEF Mark
<1>8. ASSUME Answer PROVE mode' = mode /\ (Served \subseteq Served' \/ disturbed' \/ (fresh' = {} /\ completedIndexes' = {}))
    <2> SUFFICES ASSUME NEW l \in Served PROVE l \in Served'
        BY <1>8 DEF Answer
    <2>1. PICK d \in Clients : d = Recorded[l].client
        BY <1>c
    <2>2. PICK k \in DOMAIN Program[d] :
              /\ Program[d][k] = l /\ Context(d) \in fresh /\ l \in Calls
              /\ k <= Len(answers[d]) \/ (k = pos[d] /\ pc = "load" /\ task.ctx = Context(d))
        BY <2>1 DEF Served
    <2>3. /\ UNCHANGED <<fresh, connects, pos>> /\ Context(d)' = Context(d) /\ task.ctx \in Contexts
          /\ GetsAnswer(task.ctx, found) /\ found \in Calls \cup {0}
        BY <1>8 DEF Answer, Context, TypeInv, Typed, TypedThread, Hands, InCall
    <2>4. k <= Len(answers'[d])
        <3>1. k \in Nat
            BY <2>1, ProgramIs
        <3>2. CASE task.ctx # Context(d)
            BY <2>2, <2>3, <3>2, AnswerGot
        <3>3. CASE task.ctx = Context(d)
            <4>1. task.ctx \in cache
                BY <2>2, <3>3 DEF TypeInv, Switched
            <4>2. Len(answers'[d]) = Len(answers[d]) + 1
                BY <2>3, <3>3, <4>1, AnswerGot
            <4>3. pos[d] = Len(answers[d]) + 1
                BY <3>3, InHand
            <4> QED
                BY <1>a, <2>2, <3>1, <4>2, <4>3
        <3> QED
            BY <3>2, <3>3
    <2> QED
        BY <2>1, <2>2, <2>3, <2>4 DEF Served
<1>9. ASSUME LoadThrows PROVE mode' = mode /\ (Served \subseteq Served' \/ disturbed' \/ (fresh' = {} /\ completedIndexes' = {}))
    BY <1>9 DEF LoadThrows
<1>10. ASSUME SendBackResponses PROVE mode' = mode /\ (Served \subseteq Served' \/ disturbed' \/ (fresh' = {} /\ completedIndexes' = {}))
    BY <1>10, <1>a, <1>d DEF SendBackResponses
<1>11. ASSUME SendBack PROVE mode' = mode /\ (Served \subseteq Served' \/ disturbed' \/ (fresh' = {} /\ completedIndexes' = {}))
    BY <1>11, <1>a, <1>d DEF SendBack
<1>12. ASSUME Activate PROVE mode' = mode /\ (Served \subseteq Served' \/ disturbed' \/ (fresh' = {} /\ completedIndexes' = {}))
    BY <1>12 DEF Activate
<1>13. ASSUME Waited PROVE mode' = mode /\ (Served \subseteq Served' \/ disturbed' \/ (fresh' = {} /\ completedIndexes' = {}))
    BY <1>13, <1>b DEF Waited
<1>14. ASSUME WaitTimesOut PROVE mode' = mode /\ (Served \subseteq Served' \/ disturbed' \/ (fresh' = {} /\ completedIndexes' = {}))
    BY <1>14, <1>b DEF WaitTimesOut, BeginsReset
<1>15. ASSUME LoadIndexes PROVE mode' = mode /\ (Served \subseteq Served' \/ disturbed' \/ (fresh' = {} /\ completedIndexes' = {}))
    BY <1>15, <1>b DEF LoadIndexes, BeginsReset
<1>16. ASSUME Deactivate PROVE mode' = mode /\ (Served \subseteq Served' \/ disturbed' \/ (fresh' = {} /\ completedIndexes' = {}))
    BY <1>16 DEF Deactivate
<1>17. ASSUME Unload PROVE mode' = mode /\ (Served \subseteq Served' \/ disturbed' \/ (fresh' = {} /\ completedIndexes' = {}))
    BY <1>17, <1>b DEF Unload, BeginsReset
<1>18. ASSUME DisconnectAll PROVE mode' = mode /\ (Served \subseteq Served' \/ disturbed' \/ (fresh' = {} /\ completedIndexes' = {}))
    BY <1>18, <1>b DEF DisconnectAll
<1>19. ASSUME HandleEvent PROVE mode' = mode /\ (Served \subseteq Served' \/ disturbed' \/ (fresh' = {} /\ completedIndexes' = {}))
    BY <1>19, <1>b DEF HandleEvent
<1>20. CASE UNCHANGED vars
    BY <1>20, <1>b DEF vars, plugin, storage, switch, clients, thread, ghosts
<1> QED
    BY <1>1, <1>2, <1>3, <1>4, <1>5, <1>6, <1>7, <1>8, <1>9, <1>10,
       <1>11, <1>12, <1>13, <1>14, <1>15, <1>16, <1>17, <1>18, <1>19, <1>20 DEF Next, Execute, Switching

(* No more lines are used than calls were served.                          *)
LEMMA CountedNext ==
    TypeInv /\ (\A c \in Clients : OneCall(c)) /\ Counted /\ [Next]_vars => Counted'
<1> SUFFICES ASSUME TypeInv, \A c \in Clients : OneCall(c), Counted, [Next]_vars PROVE Counted'
    OBVIOUS
<1>a. /\ mode' = mode
      /\ Served \subseteq Served' \/ disturbed' \/ (fresh' = {} /\ completedIndexes' = {})
    BY ServedNext
<1>b. ASSUME NEW l \in Calls PROVE Alike(l)' = Alike(l)
    BY <1>a DEF Alike
<1>c. Served \in SUBSET Calls /\ Served' \in SUBSET Calls /\ completedIndexes \in SUBSET Calls
    BY DEF Served, TypeInv, Typed, TypedFlags
<1>d. ASSUME completedIndexes' \subseteq completedIndexes, disturbed' = disturbed
      PROVE  Counted'
    <2> SUFFICES ASSUME NEW l \in Calls, ~disturbed'
                 PROVE  Cardinality(completedIndexes' \cap Alike(l)) <= Cardinality(Served' \cap Alike(l))
        BY <1>b DEF Counted
    <2>1. CASE Served \subseteq Served'
        <3>1. Cardinality(completedIndexes' \cap Alike(l)) <= Cardinality(completedIndexes \cap Alike(l))
            BY <1>c, <1>d, AlikeAre
        <3>2. Cardinality(completedIndexes \cap Alike(l)) <= Cardinality(Served \cap Alike(l))
            BY <1>d DEF Counted
        <3>3. Cardinality(Served \cap Alike(l)) <= Cardinality(Served' \cap Alike(l))
            BY <1>c, <2>1, AlikeAre
        <3>4. /\ Cardinality(completedIndexes' \cap Alike(l)) \in Nat
              /\ Cardinality(completedIndexes \cap Alike(l)) \in Nat
              /\ Cardinality(Served \cap Alike(l)) \in Nat /\ Cardinality(Served' \cap Alike(l)) \in Nat
            BY <1>c, <1>d, AlikeAre
        <3> QED
            BY <3>1, <3>2, <3>3, <3>4
    <2>2. CASE completedIndexes' = {}
        <3>1. completedIndexes' \cap Alike(l) = {} /\ Cardinality({}) = 0
            BY <2>2, FS_EmptySet
        <3>2. Cardinality(Served' \cap Alike(l)) \in Nat
            BY <1>c, AlikeAre
        <3> QED
            BY <3>1, <3>2
    <2> QED
        BY <1>a, <2>1, <2>2
<1>e. ASSUME completedIndexes' = {} PROVE Counted'
    <2> SUFFICES ASSUME NEW l \in Calls
                 PROVE  Cardinality(completedIndexes' \cap Alike(l)) <= Cardinality(Served' \cap Alike(l))
        BY <1>b DEF Counted
    <2>1. completedIndexes' \cap Alike(l) = {} /\ Cardinality({}) = 0
        BY <1>e, FS_EmptySet
    <2>2. Cardinality(Served' \cap Alike(l)) \in Nat
        BY <1>c, AlikeAre
    <2> QED
        BY <2>1, <2>2
<1> USE DEF plugin, ghosts
<1>1. ASSUME NEW c \in Clients, Connect(c) PROVE Counted'
    BY <1>1, <1>d DEF Connect
<1>2. ASSUME NEW c \in Clients, Call(c) PROVE Counted'
    BY <1>2, <1>d DEF Call
<1>3. ASSUME React PROVE Counted'
    BY <1>3, <1>d DEF React
<1>4. ASSUME RunSteps PROVE Counted'
    BY <1>4, <1>d DEF RunSteps
<1>5. ASSUME FindIndex PROVE Counted'
    BY <1>5, <1>d DEF FindIndex
<1>6. ASSUME FindIndexThrows PROVE Counted'
    BY <1>6 DEF FindIndexThrows, Counted
<1>7. ASSUME Mark PROVE Counted'
    <2> SUFFICES ASSUME NEW l \in Calls, ~disturbed'
                 PROVE  Cardinality(completedIndexes' \cap Alike(l)) <= Cardinality(Served' \cap Alike(l))
        BY <1>b DEF Counted
    <2>1. ~disturbed /\ task.ctx \in fresh /\ ~task.extra /\ completedIndexes' = completedIndexes \cup {found}
        BY <1>7 DEF Mark
    <2>2. PICK c \in Clients : task.ctx = Context(c)
        BY <2>1, ContextsAre DEF TypeInv, Typed, TypedFlags, Switched, Opened
    <2>3. pos[c] \in DOMAIN Program[c] /\ Program[c][pos[c]] = task.call
          /\ task.call \in Calls /\ Recorded[task.call].client = c /\ task.call \notin Served
        BY <1>7, <2>1, <2>2, InHand DEF Mark
    <2>4. task.call \in Served'
        <3>1. UNCHANGED <<fresh, connects, pos, task>> /\ pc' = "load"
            BY <1>7 DEF Mark, clients
        <3>2. Context(c)' = Context(c)
            BY <3>1 DEF Context
        <3> QED
            BY <2>1, <2>2, <2>3, <3>1, <3>2 DEF Served
    <2>5. Served \cup {task.call} \in SUBSET Served'
        BY <1>a, <2>4, <1>7 DEF Mark, clients
    <2>6. found \in Alike(l) => task.call \in Alike(l)
        BY <1>7, <2>3 DEF Mark, TypeInv, Hands, Alike
    <2>7. Cardinality(completedIndexes \cap Alike(l)) <= Cardinality(Served \cap Alike(l))
        BY <2>1 DEF Counted
    <2>8. Cardinality(Served \cap Alike(l)) <= Cardinality(Served' \cap Alike(l))
        BY <1>c, <2>5, AlikeAre
    <2>9. PICK x \in Nat : x = Cardinality(completedIndexes \cap Alike(l))
        BY <1>c, AlikeAre
    <2>10. PICK y \in Nat : y = Cardinality(Served \cap Alike(l))
        BY <1>c, AlikeAre
    <2>11. PICK z \in Nat : z = Cardinality(Served' \cap Alike(l))
        BY <1>c, AlikeAre
    <2>12. CASE found \in Alike(l)
        <3>1. Cardinality((Served \cup {task.call}) \cap Alike(l)) = y + 1
            BY <1>c, <2>3, <2>6, <2>10, <2>12, AlikeAre
        <3>2. Cardinality((Served \cup {task.call}) \cap Alike(l)) <= z
            BY <1>c, <2>5, <2>11, AlikeAre
        <3>3. PICK w \in Nat : w = Cardinality(completedIndexes' \cap Alike(l))
            BY <1>7, <1>c, AlikeAre, FlagsNext DEF TypedFlags, Next, Execute
        <3>4. w <= x + 1
            BY <1>c, <2>1, <2>9, <3>3, AlikeAre
        <3>5. y + 1 <= z
            BY <3>1, <3>2
        <3>6. x <= y
            BY <2>7, <2>9, <2>10
        <3>7. w <= z
            BY <3>4, <3>5, <3>6
        <3> QED
            BY <2>11, <3>3, <3>7
    <2>13. CASE found \notin Alike(l)
        <3>1. completedIndexes' \cap Alike(l) = completedIndexes \cap Alike(l)
            BY <1>c, <2>1, <2>13
        <3>2. x <= y /\ y <= z
            BY <2>7, <2>8, <2>9, <2>10, <2>11
        <3>3. x <= z
            BY <3>2
        <3> QED
            BY <2>9, <2>11, <3>1, <3>3
    <2> QED
        BY <2>12, <2>13
<1>8. ASSUME Answer PROVE Counted'
    BY <1>8, <1>d DEF Answer
<1>9. ASSUME LoadThrows PROVE Counted'
    BY <1>9 DEF LoadThrows, Counted
<1>10. ASSUME SendBackResponses PROVE Counted'
    BY <1>10, <1>d DEF SendBackResponses
<1>11. ASSUME SendBack PROVE Counted'
    BY <1>11, <1>d DEF SendBack
<1>12. ASSUME Activate PROVE Counted'
    BY <1>12, <1>e DEF Activate
<1>13. ASSUME Waited PROVE Counted'
    BY <1>13, <1>d DEF Waited
<1>14. ASSUME WaitTimesOut PROVE Counted'
    BY <1>14, <1>d DEF WaitTimesOut, BeginsReset
<1>15. ASSUME LoadIndexes PROVE Counted'
    BY <1>15, <1>d DEF LoadIndexes, BeginsReset
<1>16. ASSUME Deactivate PROVE Counted'
    BY <1>16, <1>e DEF Deactivate
<1>17. ASSUME Unload PROVE Counted'
    BY <1>17, <1>d DEF Unload, BeginsReset
<1>18. ASSUME DisconnectAll PROVE Counted'
    BY <1>18, <1>d DEF DisconnectAll
<1>19. ASSUME HandleEvent PROVE Counted'
    BY <1>19, <1>d DEF HandleEvent
<1>20. CASE UNCHANGED vars
    BY <1>20, <1>d DEF vars, plugin, storage, switch, clients, thread, ghosts
<1> QED
    BY <1>1, <1>2, <1>3, <1>4, <1>5, <1>6, <1>7, <1>8, <1>9, <1>10,
       <1>11, <1>12, <1>13, <1>14, <1>15, <1>16, <1>17, <1>18, <1>19, <1>20 DEF Next, Execute, Switching

(* A context that is opened now is none of those there are.                *)
LEMMA NewContext ==
    ASSUME TypeInv, NEW c \in Clients
    PROVE  /\ task.ctx # <<c, connects[c] + 1>>
           /\ \A i \in DOMAIN tasks : tasks[i].ctx # <<c, connects[c] + 1>>
           /\ \A j \in DOMAIN result : result[j][2] # <<c, connects[c] + 1>>
           /\ \A i \in DOMAIN tasks : \A j \in DOMAIN tasks[i].callbacks :
                 tasks[i].callbacks[j][2] # <<c, connects[c] + 1>>
<1>1. connects[c] \in Nat
    BY DEF TypeInv, Typed, TypedClients
<1>2. \A x \in Contexts : Known(x, connects) => x # <<c, connects[c] + 1>>
    BY <1>1 DEF Known
<1>3. ASSUME NEW t \in AnyTask, KnownTask(t, connects)
      PROVE  /\ t.ctx # <<c, connects[c] + 1>>
             /\ \A j \in DOMAIN t.callbacks : t.callbacks[j][2] # <<c, connects[c] + 1>>
    <2>1. t.ctx \in Contexts \/ t.ctx = <<>>
        BY DEF AnyTask
    <2>2. t.ctx # <<c, connects[c] + 1>>
        <3>1. CASE t.ctx = <<>>
            BY <3>1
        <3>2. CASE t.ctx \in Contexts
            <4>1. PICK x \in Contexts : x = t.ctx
                BY <3>2
            <4> QED
                BY <1>2, <1>3, <4>1 DEF KnownTask
        <3> QED
            BY <2>1, <3>1, <3>2
    <2>3. \A j \in DOMAIN t.callbacks : t.callbacks[j] \in Pairs
        BY DEF AnyTask
    <2>4. \A p \in Pairs : p[2] \in Contexts
        BY DEF Pairs
    <2>5. \A j \in DOMAIN t.callbacks : t.callbacks[j][2] \in Contexts
        BY <2>3, <2>4
    <2>6. \A j \in DOMAIN t.callbacks : Known(t.callbacks[j][2], connects)
        BY <1>3 DEF KnownTask
    <2> QED
        BY <1>2, <2>2, <2>5, <2>6
<1>4. task \in AnyTask /\ KnownTask(task, connects)
    BY DEF TypeInv, Typed, TypedThread, Opened
<1>5. \A i \in DOMAIN tasks : tasks[i] \in AnyTask /\ KnownTask(tasks[i], connects)
    BY DEF TypeInv, Typed, TypedThread, Opened
<1>6. \A j \in DOMAIN result : result[j][2] \in Contexts /\ Known(result[j][2], connects)
    BY DEF TypeInv, Typed, TypedThread, Opened, Pairs
<1> QED
    BY <1>2, <1>3, <1>4, <1>5, <1>6

(* Calls of the session find a line only while the plugin has lines.       *)
LEMMA TakesNext == TypeInv /\ TakesLines /\ [Next]_vars => TakesLines'
<1> SUFFICES ASSUME TypeInv, TakesLines, [Next]_vars PROVE TakesLines'
    OBVIOUS
<1> USE DEF plugin, thread, switch, ghosts
<1>a. ASSUME fresh' \in {fresh, {}}, UNCHANGED <<mode, indexes, pc, task>>, disturbed' = disturbed
      PROVE  TakesLines'
    BY <1>a DEF TakesLines, Plays
<1>b. ASSUME pc' \notin {"mark", "load"} PROVE TakesLines'
    BY <1>b DEF TakesLines
<1>c. ASSUME switchPc # "idle", fresh' = fresh PROVE TakesLines'
    BY <1>c DEF TakesLines, TypeInv, Switched
<1>1. ASSUME NEW c \in Clients, Connect(c) PROVE TakesLines'
    <2>1. UNCHANGED <<mode, indexes, pc, task, disturbed>>
        BY <1>1 DEF Connect
    <2>2. fresh' \subseteq fresh \cup {<<c, connects[c] + 1>>}
        BY <1>1 DEF Connect
    <2>3. task.ctx # <<c, connects[c] + 1>>
        BY NewContext
    <2>4. task.ctx \in fresh' => task.ctx \in fresh
        BY <2>2, <2>3
    <2> QED
        BY <2>1, <2>4 DEF TakesLines, Plays
<1>2. ASSUME NEW c \in Clients, Call(c) PROVE TakesLines'
    BY <1>2, <1>a DEF Call
<1>3. ASSUME React PROVE TakesLines'
    BY <1>3, <1>a DEF React
<1>4. ASSUME RunSteps PROVE TakesLines'
    BY <1>4, <1>b DEF RunSteps
<1>5. ASSUME FindIndex PROVE TakesLines'
    <2>1. CASE findIndex(task.call) # 0
        <3>1. task.call \in Calls
            BY <1>5 DEF FindIndex, TypeInv, Hands, InCall
        <3>2. Plays
            BY <2>1, <3>1, FindIs DEF Plays, TypeInv
        <3> QED
            BY <1>5, <2>1, <3>2 DEF FindIndex, TakesLines, Plays
    <2>2. CASE findIndex(task.call) = 0
        BY <1>5, <1>b, <2>2 DEF FindIndex, Idle
    <2> QED
        BY <2>1, <2>2
<1>6. ASSUME FindIndexThrows PROVE TakesLines'
    BY <1>6, <1>b DEF FindIndexThrows, Idle
<1>7. ASSUME Mark PROVE TakesLines'
    BY <1>7 DEF Mark, TakesLines, Plays
<1>8. ASSUME Answer PROVE TakesLines'
    BY <1>8, <1>b DEF Answer, Idle
<1>9. ASSUME LoadThrows PROVE TakesLines'
    BY <1>9, <1>b DEF LoadThrows, Idle
<1>10. ASSUME SendBackResponses PROVE TakesLines'
    BY <1>10, <1>b DEF SendBackResponses
<1>11. ASSUME SendBack PROVE TakesLines'
    <2>1. pc' \in {"idle", "callbacks"}
        BY <1>11 DEF SendBack, Idle
    <2> QED
        BY <1>b, <2>1
<1>12. ASSUME Activate PROVE TakesLines'
    <2>1. fresh' = {}
        BY <1>12 DEF Activate
    <2> QED
        BY <2>1 DEF TakesLines
<1>13. ASSUME Waited PROVE TakesLines'
    BY <1>13, <1>a DEF Waited
<1>14. ASSUME WaitTimesOut PROVE TakesLines'
    BY <1>14, <1>c DEF WaitTimesOut
<1>15. ASSUME LoadIndexes PROVE TakesLines'
    BY <1>15, <1>c DEF LoadIndexes
<1>16. ASSUME Deactivate PROVE TakesLines'
    BY <1>16, <1>a DEF Deactivate
<1>17. ASSUME Unload PROVE TakesLines'
    BY <1>17, <1>c DEF Unload
<1>18. ASSUME DisconnectAll PROVE TakesLines'
    BY <1>18, <1>a DEF DisconnectAll
<1>19. ASSUME HandleEvent PROVE TakesLines'
    BY <1>19, <1>a DEF HandleEvent
<1>20. CASE UNCHANGED vars
    BY <1>20, <1>a DEF vars, plugin, storage, switch, clients, thread, ghosts
<1> QED
    BY <1>1, <1>2, <1>3, <1>4, <1>5, <1>6, <1>7, <1>8, <1>9, <1>10,
       <1>11, <1>12, <1>13, <1>14, <1>15, <1>16, <1>17, <1>18, <1>19, <1>20 DEF Next, Execute, Switching

(* No step loses a call of the session.                                    *)
LEMMA LostNext ==
    TypeInv /\ (\A c \in Clients : OneCall(c)) /\ Counted /\ NoCallLost /\ [Next]_vars => NoCallLost'
<1> SUFFICES ASSUME TypeInv, \A c \in Clients : OneCall(c), Counted, NoCallLost, [Next]_vars PROVE NoCallLost'
    OBVIOUS
<1> USE DEF plugin, storage, switch, thread, clients, ghosts
<1> DEFINE Kept(d) == \/ task.ctx = Context(d) \/ \E i \in DOMAIN tasks : tasks[i].ctx = Context(d)
<1>a. \A d \in Clients : pos[d] \in Nat /\ Len(answers[d]) \in Nat /\ Len(Program[d]) \in Nat
    BY ProgramIs DEF TypeInv, Typed, TypedClients
<1>b. tasks \in Seq(AnyTask)
    BY DEF TypeInv, Typed, TypedThread
<1>c. ASSUME fresh' = {} PROVE NoCallLost'
    BY <1>c DEF NoCallLost, Fresh
<1>d. ASSUME UNCHANGED <<fresh, cache, connects, pos, answers, disturbed, indexes, task, tasks>>
      PROVE  NoCallLost'
    BY <1>d DEF NoCallLost, Fresh, Context, Waits
<1>e. fresh = {} \/ switchPc = "idle"
    BY DEF TypeInv, Switched
<1>f. ASSUME NEW d \in Clients, d \in Fresh, Waits(d), pos[d] <= Len(Program[d]), ~disturbed,
             indexes # {}
      PROVE  Kept(d)
    BY <1>f DEF NoCallLost
<1>g. ASSUME UNCHANGED <<fresh, cache, connects, pos, disturbed, indexes>>,
             \A d \in Clients : d \in Fresh /\ ~disturbed /\ indexes # {} /\ pos[d] <= Len(Program[d])
                                /\ Kept(d) => Kept(d)' \/ Len(answers'[d]) = pos[d],
             \A d \in Clients : answers'[d] = answers[d] \/ Len(answers'[d]) = pos[d]
      PROVE  NoCallLost'
    <2> SUFFICES ASSUME NEW d \in Clients, d \in Fresh', Waits(d)', (pos[d] <= Len(Program[d]))',
                        ~disturbed', indexes' # {}
                 PROVE  Kept(d)'
        BY DEF NoCallLost, Fresh
    <2>1. d \in Fresh /\ pos'[d] = pos[d]
        BY <1>g DEF Fresh, Context
    <2>2. ~(Len(answers'[d]) = pos[d])
        BY <1>a, <2>1 DEF Waits
    <2>3. answers'[d] = answers[d] /\ Waits(d)
        BY <1>g, <2>1, <2>2 DEF Waits
    <2> QED
        BY <1>f, <1>g, <2>1, <2>2, <2>3
<1> HIDE DEF Kept
<1>1. ASSUME NEW c \in Clients, Connect(c) PROVE NoCallLost'
    <2> SUFFICES ASSUME NEW d \in Clients, d \in Fresh', Waits(d)', (pos[d] <= Len(Program[d]))',
                        ~disturbed', indexes' # {}
                 PROVE  Kept(d)'
        BY DEF NoCallLost, Fresh, Kept
    <2>1. UNCHANGED <<disturbed, indexes, tasks, task>>
        BY <1>1 DEF Connect
    <2>2. d # c
        <3>1. pos'[c] = 0 /\ answers'[c] = <<>>
            BY <1>1 DEF Connect, TypeInv, Typed, TypedClients
        <3> QED
            BY <3>1 DEF Waits
    <2>3. Context(d)' = Context(d) /\ pos'[d] = pos[d] /\ answers'[d] = answers[d]
        BY <1>1, <2>2 DEF Connect, Context, TypeInv, Typed, TypedClients
    <2>4. Context(d) # <<c, connects[c] + 1>>
        BY <2>2 DEF Context
    <2>5. d \in Fresh
        BY <1>1, <2>3, <2>4 DEF Connect, Fresh
    <2>6. Kept(d)
        BY <1>f, <2>1, <2>3, <2>5 DEF Waits
    <2> QED
        BY <2>1, <2>3, <2>6 DEF Kept
<1>2. ASSUME NEW c \in Clients, Call(c) PROVE NoCallLost'
    <2> SUFFICES ASSUME NEW d \in Clients, d \in Fresh', Waits(d)', (pos[d] <= Len(Program[d]))',
                        ~disturbed', indexes' # {}
                 PROVE  Kept(d)'
        BY DEF NoCallLost, Fresh, Kept
    <2>1. UNCHANGED <<fresh, cache, connects, answers, disturbed, indexes, task>>
        BY <1>2 DEF Call
    <2>2. PICK b \in AnyTask : b.ctx = Context(c) /\ tasks' = Append(tasks, b)
        BY <1>2, CallIs
    <2>3. /\ \A i \in DOMAIN tasks : i \in DOMAIN tasks' /\ tasks'[i] = tasks[i]
          /\ Len(tasks) + 1 \in DOMAIN tasks' /\ tasks'[Len(tasks) + 1] = b
        BY <1>b, <2>2, Appended
    <2>4. \A x \in Clients : Context(x)' = Context(x)
        BY <2>1 DEF Context
    <2>5. CASE d = c
        BY <2>2, <2>3, <2>4, <2>5 DEF Kept
    <2>6. CASE d # c
        <3>1. pos'[d] = pos[d]
            BY <1>2, <2>6 DEF Call, TypeInv, Typed, TypedClients
        <3>2. d \in Fresh
            BY <2>1, <2>4 DEF Fresh
        <3>3. Kept(d)
            BY <1>f, <2>1, <3>1, <3>2 DEF Waits
        <3> QED
            BY <2>1, <2>3, <2>4, <3>3 DEF Kept
    <2> QED
        BY <2>5, <2>6
<1>3. ASSUME React PROVE NoCallLost'
    <2>1. PICK b \in AnyTask : b.ctx = Head(tasks).ctx /\ tasks' = Append(Tail(tasks), b)
        BY <1>3, ReactIs
    <2>2. UNCHANGED <<fresh, cache, connects, pos, answers, disturbed, indexes, task>> /\ tasks # <<>>
        BY <1>3 DEF React
    <2>3. \A i \in DOMAIN tasks : \E j \in DOMAIN tasks' : tasks'[j].ctx = tasks[i].ctx
        <3>1. /\ Tail(tasks) \in Seq(AnyTask) /\ Head(tasks) = tasks[1]
              /\ \A i \in DOMAIN tasks : i = 1 \/ \E h \in DOMAIN Tail(tasks) : Tail(tasks)[h] = tasks[i]
            BY <1>b, <2>2, Rest
        <3>2. PICK q \in Seq(AnyTask) : q = Tail(tasks)
            BY <3>1
        <3>3. tasks' = Append(q, b)
            BY <2>1, <3>2
        <3>4. /\ \A h \in DOMAIN q : h \in DOMAIN tasks' /\ tasks'[h] = q[h]
              /\ Len(q) + 1 \in DOMAIN tasks' /\ tasks'[Len(q) + 1] = b
            BY <3>3, Appended
        <3>5. \A i \in DOMAIN tasks : i = 1 \/ \E h \in DOMAIN q : q[h] = tasks[i]
            BY <3>1, <3>2
        <3> QED
            BY <2>1, <3>1, <3>4, <3>5
    <2>4. \A d \in Clients : Kept(d) => Kept(d)'
        BY <2>2, <2>3 DEF Kept, Context
    <2> QED
        BY <1>g, <2>2, <2>4
<1>4. ASSUME RunSteps PROVE NoCallLost'
    <2>1. UNCHANGED <<fresh, cache, connects, pos, disturbed, indexes>> /\ tasks # <<>> /\ tasks' = Tail(tasks)
          /\ task = Task /\ Head(tasks).ctx \in Contexts
        BY <1>4, HeadIs DEF RunSteps, TypeInv, Hands, InCall
    <2>2. /\ Head(tasks) = tasks[1] /\ 1 \in DOMAIN tasks
          /\ \A i \in DOMAIN tasks : i = 1 \/ \E h \in DOMAIN Tail(tasks) : Tail(tasks)[h] = tasks[i]
        BY <1>b, <2>1, Rest
    <2>3. CASE isActive
        <3>1. answers' = answers /\ task' = Head(tasks)
            BY <1>4, <2>3 DEF RunSteps
        <3>2. ASSUME NEW d \in Clients, Kept(d) PROVE Kept(d)'
            <4>1. Task.ctx # Context(d)
                BY TaskIs DEF Context, Task
            <4> QED
                BY <2>1, <2>2, <3>1, <3>2, <4>1 DEF Kept, Context
        <3> QED
            BY <1>g, <2>1, <3>1, <3>2
    <2>4. CASE ~isActive
        <3>1. GetsAnswer(Head(tasks).ctx, 0) /\ task' = task
            BY <1>4, <2>4 DEF RunSteps, Upstream
        <3>2. ASSUME NEW d \in Clients
              PROVE  answers'[d] = answers[d] \/ Len(answers'[d]) = pos[d]
            <4>1. Head(tasks).ctx = Context(d) => pos[d] = Len(answers[d]) + 1
                BY <2>2 DEF OneCall, Single, CallOk
            <4> QED
                BY <2>1, <3>1, <4>1, AnswerGot
        <3>3. ASSUME NEW d \in Clients, d \in Fresh, Kept(d) PROVE Kept(d)' \/ Len(answers'[d]) = pos[d]
            <4>1. CASE Head(tasks).ctx = Context(d)
                <5>1. pos[d] = Len(answers[d]) + 1 /\ Head(tasks).ctx \in cache
                    BY <2>2, <3>3, <4>1 DEF OneCall, Single, CallOk, Fresh
                <5> QED
                    BY <2>1, <3>1, <4>1, <5>1, AnswerGot
            <4>2. CASE Head(tasks).ctx # Context(d)
                BY <2>1, <2>2, <3>1, <3>3, <4>2 DEF Kept, Context
            <4> QED
                BY <4>1, <4>2
        <3> QED
            BY <1>g, <2>1, <3>2, <3>3
    <2> QED
        BY <2>3, <2>4
<1>5. ASSUME FindIndex PROVE NoCallLost'
    <2>1. UNCHANGED <<fresh, cache, connects, pos, disturbed, indexes, tasks>> /\ task.ctx \in Contexts
        BY <1>5 DEF FindIndex, TypeInv, Hands, InCall
    <2>2. CASE findIndex(task.call) # 0
        BY <1>5, <1>d, <2>1, <2>2 DEF FindIndex
    <2>3. CASE findIndex(task.call) = 0 /\ ~mode.blockExternal
        <3>1. GetsAnswer(task.ctx, 0)
            BY <1>5, <2>3 DEF FindIndex, Upstream
        <3>2. ASSUME NEW d \in Clients
              PROVE  answers'[d] = answers[d] \/ Len(answers'[d]) = pos[d]
            BY <2>1, <3>1, InHand, AnswerGot
        <3>3. ASSUME NEW d \in Clients, d \in Fresh, Kept(d) PROVE Kept(d)' \/ Len(answers'[d]) = pos[d]
            <4>1. CASE task.ctx = Context(d)
                <5>1. pos[d] = Len(answers[d]) + 1 /\ task.ctx \in cache
                    BY <3>3, <4>1, InHand DEF Fresh
                <5> QED
                    BY <2>1, <3>1, <4>1, <5>1, AnswerGot
            <4>2. CASE task.ctx # Context(d)
                BY <2>1, <3>3, <4>2 DEF Kept, Context
            <4> QED
                BY <4>1, <4>2
        <3> QED
            BY <1>g, <2>1, <3>2, <3>3
    <2>4. CASE findIndex(task.call) = 0 /\ mode.blockExternal
        <3>1. answers' = answers
            BY <1>5, <2>4 DEF FindIndex
        <3>2. ASSUME NEW d \in Clients, d \in Fresh, ~disturbed, indexes # {}, pos[d] <= Len(Program[d]), Kept(d)
              PROVE  Kept(d)'
            <4>1. task.ctx # Context(d)
                <5> SUFFICES ASSUME task.ctx = Context(d) PROVE FALSE
                    OBVIOUS
                <5>1. task.call \in Calls /\ task.call \notin Served
                    BY <1>5, <3>2, InHand DEF FindIndex
                <5> QED
                    BY <2>4, <3>2, <5>1, LineIsFree DEF Plays
            <4> QED
                BY <2>1, <3>2, <4>1 DEF Kept, Context
        <3> QED
            BY <1>g, <2>1, <3>1, <3>2
    <2> QED
        BY <2>2, <2>3, <2>4
<1>6. ASSUME FindIndexThrows PROVE NoCallLost'
    BY <1>6 DEF FindIndexThrows, NoCallLost
<1>7. ASSUME Mark PROVE NoCallLost'
    <2> SUFFICES ASSUME ~disturbed' PROVE NoCallLost'
        BY DEF NoCallLost
    <2>1. disturbed' = disturbed
        BY <1>7, Zenon DEF Mark, TypeInv, Typed, TypedFlags
    <2> QED
        BY <1>7, <1>d, <2>1 DEF Mark
<1>8. ASSUME Answer PROVE NoCallLost'
    <2>1. /\ UNCHANGED <<fresh, cache, connects, pos, disturbed, indexes>> /\ task.ctx \in Contexts
          /\ GetsAnswer(task.ctx, found) /\ found \in Calls \cup {0}
        BY <1>8 DEF Answer, TypeInv, Typed, TypedThread, Hands, InCall
    <2>2. ASSUME NEW d \in Clients
          PROVE  answers'[d] = answers[d] \/ Len(answers'[d]) = pos[d]
        BY <2>1, InHand, AnswerGot
    <2>3. \A i \in DOMAIN tasks : i \in DOMAIN tasks' /\ tasks'[i] = tasks[i]
        <3>1. tasks' = tasks \/ \E b \in AnyTask : tasks' = Append(tasks, b)
            BY <1>8, AnswerIs DEF TypeInv
        <3> QED
            BY <1>b, <3>1, Appended
    <2>4. ASSUME NEW d \in Clients, d \in Fresh, Kept(d) PROVE Kept(d)' \/ Len(answers'[d]) = pos[d]
        <3>1. CASE task.ctx = Context(d)
            <4>1. pos[d] = Len(answers[d]) + 1 /\ task.ctx \in cache
                BY <2>4, <3>1, InHand DEF Fresh
            <4> QED
                BY <2>1, <3>1, <4>1, AnswerGot
        <3>2. CASE task.ctx # Context(d)
            BY <2>1, <2>3, <2>4, <3>2 DEF Kept, Context
        <3> QED
            BY <3>1, <3>2
    <2> QED
        BY <1>g, <2>1, <2>2, <2>4
<1>9. ASSUME LoadThrows PROVE NoCallLost'
    BY <1>9 DEF LoadThrows, NoCallLost
<1>10. ASSUME SendBackResponses PROVE NoCallLost'
    <2>1. UNCHANGED <<fresh, cache, connects, pos, answers, disturbed, indexes, task>> /\ tasks # <<>>
          /\ tasks' = Tail(tasks) /\ Head(tasks).ctx = <<>>
        BY <1>10, HeadIs DEF SendBackResponses
    <2>2. /\ Head(tasks) = tasks[1]
          /\ \A i \in DOMAIN tasks : i = 1 \/ \E h \in DOMAIN Tail(tasks) : Tail(tasks)[h] = tasks[i]
        BY <1>b, <2>1, Rest
    <2>3. ASSUME NEW d \in Clients, Kept(d) PROVE Kept(d)'
        <3>1. Head(tasks).ctx # Context(d)
            BY <2>1 DEF Context
        <3> QED
            BY <2>1, <2>2, <2>3, <3>1 DEF Kept, Context
    <2> QED
        BY <1>g, <2>1, <2>3
<1>11. ASSUME SendBack PROVE NoCallLost'
    <2>1. task' = task
        BY <1>11 DEF SendBack, Idle, TypeInv, Hands, InCall
    <2> QED
        BY <1>11, <1>d, <2>1 DEF SendBack
<1>12. ASSUME Activate PROVE NoCallLost'
    BY <1>12, <1>c DEF Activate
<1>13. ASSUME Waited PROVE NoCallLost'
    BY <1>13, <1>d DEF Waited, BeginsReset
<1>14. ASSUME WaitTimesOut PROVE NoCallLost'
    BY <1>14, <1>d DEF WaitTimesOut, BeginsReset
<1>15. ASSUME LoadIndexes PROVE NoCallLost'
    BY <1>15, <1>c, <1>e DEF LoadIndexes
<1>16. ASSUME Deactivate PROVE NoCallLost'
    BY <1>16, <1>c DEF Deactivate
<1>17. ASSUME Unload PROVE NoCallLost'
    BY <1>17, <1>c, <1>e DEF Unload
<1>18. ASSUME DisconnectAll PROVE NoCallLost'
    BY <1>18, <1>c, <1>e DEF DisconnectAll
<1>19. ASSUME HandleEvent PROVE NoCallLost'
    BY <1>19, <1>d DEF HandleEvent, BeginsReset
<1>20. CASE UNCHANGED vars
    BY <1>20, <1>d DEF vars, plugin, storage, switch, clients, thread, ghosts, BeginsReset
<1> QED
    BY <1>1, <1>2, <1>3, <1>4, <1>5, <1>6, <1>7, <1>8, <1>9, <1>10,
       <1>11, <1>12, <1>13, <1>14, <1>15, <1>16, <1>17, <1>18, <1>19, <1>20 DEF Next, Execute, Switching

LEMMA CallNext == CallInv /\ [Next]_vars => CallInv'
<1> SUFFICES ASSUME CallInv, [Next]_vars PROVE CallInv'
    OBVIOUS
<1>1. TypeInv' /\ Counted' /\ TakesLines' /\ NoCallLost'
    BY TypeNext, CountedNext, TakesNext, LostNext DEF CallInv
<1>2. \A c \in Clients : OneCall(c)'
    BY OneCallNext DEF CallInv
<1> QED
    BY <1>1, <1>2 DEF CallInv

LEMMA CallInit == Init => CallInv
<1> SUFFICES ASSUME Init PROVE CallInv
    OBVIOUS
<1>1. TypeInv
    BY InitTyped
<1>2. ASSUME NEW c \in Clients PROVE OneCall(c)
    <2>1. Len(Program[c]) \in Nat /\ Len(answers[c]) = 0 /\ pos[c] = 0
        BY ProgramIs DEF Init
    <2>2. task.ctx # Context(c) /\ DOMAIN tasks = {}
        BY TaskIs DEF Init, Context
    <2> QED
        BY <2>1, <2>2 DEF OneCall, Single
<1>3. Counted
    <2> SUFFICES ASSUME NEW l \in Calls
                 PROVE  Cardinality(completedIndexes \cap Alike(l)) <= Cardinality(Served \cap Alike(l))
        BY DEF Counted
    <2>1. completedIndexes \cap Alike(l) = {} /\ Cardinality({}) = 0
        BY FS_EmptySet DEF Init
    <2>2. Served \in SUBSET Calls
        BY DEF Served
    <2>3. Cardinality(Served \cap Alike(l)) \in Nat
        BY <2>2, AlikeAre
    <2> QED
        BY <2>1, <2>3
<1>4. TakesLines /\ NoCallLost
    BY DEF Init, TakesLines, NoCallLost, Fresh
<1> QED
    BY <1>1, <1>2, <1>3, <1>4 DEF CallInv

LEMMA CallsHold == Spec => []CallInv
<1>1. Init => CallInv
    BY CallInit
<1>2. CallInv /\ [Next]_vars => CallInv'
    BY CallNext
<1> QED
    BY <1>1, <1>2, PTL DEF Spec

(***************************************************************************)
(* For every recording: a call of the flow that was not answered yet waits *)
(* for the executor or is in its hands.  findIndex never runs out of lines *)
(* for the calls of a session, since of each kind no more were used than   *)
(* calls were served.                                                      *)
(***************************************************************************)
THEOREM CallsKept == Spec => []NoCallLost
<1>1. CallInv => NoCallLost
    BY DEF CallInv
<1> QED
    BY <1>1, CallsHold, PTL

-----------------------------------------------------------------------------
(* A step leaves a client the context and the answers it has.              *)
Stays(c) ==
    /\ Context(c)' = Context(c) /\ Context(c) \in cache'
    /\ Len(answers[c]) \in Nat /\ Len(answers'[c]) \in Nat /\ Len(answers[c]) <= Len(answers'[c])
    /\ \A k \in 1..Len(answers[c]) : answers'[c][k] = answers[c][k]

(* While some contexts are of the session, none is disconnected.           *)
LEMMA AnswersStay ==
    TypeInv /\ fresh # {} /\ [Next]_vars => \A d \in Clients : Context(d) \in cache => Stays(d)
<1> SUFFICES ASSUME TypeInv, fresh # {}, [Next]_vars PROVE \A d \in Clients : Context(d) \in cache => Stays(d)
    OBVIOUS
<1> USE DEF thread, clients, plugin, ghosts
<1>a. \A d \in Clients : Len(answers[d]) \in Nat
    BY DEF TypeInv, Typed, TypedClients
<1>b. ASSUME UNCHANGED <<connects, answers>>, cache \subseteq cache'
      PROVE  \A d \in Clients : Context(d) \in cache => Stays(d)
    BY <1>a, <1>b DEF Stays, Context
<1>c. switchPc = "idle"
    BY DEF TypeInv, Switched
<1>d. ASSUME UNCHANGED <<connects, cache>>, NEW ctx \in Contexts, NEW l \in Calls \cup {0},
             GetsAnswer(ctx, l)
      PROVE  \A d \in Clients : Context(d) \in cache => Stays(d)
    <2> SUFFICES ASSUME NEW d \in Clients, Context(d) \in cache PROVE Stays(d)
        OBVIOUS
    <2>1. Context(d)' = Context(d)
        BY <1>d DEF Context
    <2>2. CASE ctx = Context(d)
        <3>1. /\ Len(answers'[d]) = Len(answers[d]) + 1
              /\ \A k \in 1..Len(answers[d]) : answers'[d][k] = answers[d][k]
            BY <1>d, <2>2, AnswerGot
        <3> QED
            BY <1>a, <1>d, <2>1, <3>1 DEF Stays
    <2>3. CASE ctx # Context(d)
        <3>1. answers'[d] = answers[d]
            BY <1>d, <2>3, AnswerGot
        <3> QED
            BY <1>a, <1>d, <2>1, <3>1 DEF Stays
    <2> QED
        BY <2>2, <2>3
<1>1. ASSUME NEW c \in Clients, Connect(c) PROVE \A d \in Clients : Context(d) \in cache => Stays(d)
    <2> SUFFICES ASSUME NEW d \in Clients, Context(d) \in cache PROVE Stays(d)
        OBVIOUS
    <2>1. d # c
        BY <1>1 DEF Connect
    <2>2. Context(d)' = Context(d) /\ answers'[d] = answers[d] /\ cache \subseteq cache'
        BY <1>1, <2>1 DEF Connect, Context, TypeInv, Typed, TypedClients
    <2> QED
        BY <1>a, <2>2 DEF Stays
<1>2. ASSUME NEW c \in Clients, Call(c) PROVE \A d \in Clients : Context(d) \in cache => Stays(d)
    BY <1>2, <1>b DEF Call
<1>3. ASSUME React PROVE \A d \in Clients : Context(d) \in cache => Stays(d)
    BY <1>3, <1>b DEF React
<1>4. ASSUME RunSteps PROVE \A d \in Clients : Context(d) \in cache => Stays(d)
    <2>1. Head(tasks).ctx \in Contexts /\ UNCHANGED <<connects, cache>>
        BY <1>4, HeadIs DEF RunSteps
    <2>2. answers' = answers \/ GetsAnswer(Head(tasks).ctx, 0)
        BY <1>4 DEF RunSteps, Upstream
    <2> QED
        BY <1>b, <1>d, <2>1, <2>2
<1>5. ASSUME FindIndex PROVE \A d \in Clients : Context(d) \in cache => Stays(d)
    <2>1. task.ctx \in Contexts /\ UNCHANGED <<connects, cache>>
        BY <1>5 DEF FindIndex, TypeInv, Hands, InCall
    <2>2. answers' = answers \/ GetsAnswer(task.ctx, 0)
        BY <1>5 DEF FindIndex, Upstream
    <2> QED
        BY <1>b, <1>d, <2>1, <2>2
<1>6. ASSUME FindIndexThrows PROVE \A d \in Clients : Context(d) \in cache => Stays(d)
    BY <1>6, <1>b DEF FindIndexThrows
<1>7. ASSUME Mark PROVE \A d \in Clients : Context(d) \in cache => Stays(d)
    BY <1>7, <1>b DEF Mark
<1>8. ASSUME Answer PROVE \A d \in Clients : Context(d) \in cache => Stays(d)
    <2>1. /\ UNCHANGED <<connects, cache>> /\ task.ctx \in Contexts
          /\ GetsAnswer(task.ctx, found) /\ found \in Calls \cup {0}
        BY <1>8 DEF Answer, TypeInv, Typed, TypedThread, Hands, InCall
    <2> QED
        BY <1>d, <2>1
<1>9. ASSUME LoadThrows PROVE \A d \in Clients : Context(d) \in cache => Stays(d)
    BY <1>9, <1>b DEF LoadThrows
<1>10. ASSUME SendBackResponses PROVE \A d \in Clients : Context(d) \in cache => Stays(d)
    BY <1>10, <1>b DEF SendBackResponses
<1>11. ASSUME SendBack PROVE \A d \in Clients : Context(d) \in cache => Stays(d)
    BY <1>11, <1>b DEF SendBack
<1>12. ASSUME Activate PROVE \A d \in Clients : Context(d) \in cache => Stays(d)
    BY <1>12, <1>b DEF Activate
<1>13. ASSUME Waited PROVE \A d \in Clients : Context(d) \in cache => Stays(d)
    BY <1>13, <1>c DEF Waited
<1>14. ASSUME WaitTimesOut PROVE \A d \in Clients : Context(d) \in cache => Stays(d)
    BY <1>14, <1>c DEF WaitTimesOut
<1>15. ASSUME LoadIndexes PROVE \A d \in Clients : Context(d) \in cache => Stays(d)
    BY <1>15, <1>c DEF LoadIndexes
<1>16. ASSUME Deactivate PROVE \A d \in Clients : Context(d) \in cache => Stays(d)
    BY <1>16, <1>b DEF Deactivate
<1>17. ASSUME Unload PROVE \A d \in Clients : Context(d) \in cache => Stays(d)
    BY <1>17, <1>c DEF Unload
<1>18. ASSUME DisconnectAll PROVE \A d \in Clients : Context(d) \in cache => Stays(d)
    BY <1>18, <1>c DEF DisconnectAll
<1>19. ASSUME HandleEvent PROVE \A d \in Clients : Context(d) \in cache => Stays(d)
    BY <1>19, <1>b DEF HandleEvent
<1>20. CASE UNCHANGED vars
    BY <1>20, <1>b DEF vars, plugin, storage, switch, clients, thread, ghosts
<1> QED
    BY <1>1, <1>2, <1>3, <1>4, <1>5, <1>6, <1>7, <1>8, <1>9, <1>10,
       <1>11, <1>12, <1>13, <1>14, <1>15, <1>16, <1>17, <1>18, <1>19, <1>20 DEF Next, Execute, Switching

(* A context left over from before the session gets no answer from its     *)
(* lines.                                                                  *)
LEMMA StraysNext ==
    CallInv /\ Strays /\ [Next]_vars => Strays'
<1> SUFFICES ASSUME CallInv, Strays, [Next]_vars PROVE Strays'
    OBVIOUS
<1> USE DEF thread, clients, plugin, ghosts, switch
<1>a. TypeInv /\ (\A d \in Clients : OneCall(d)) /\ Counted
    BY DEF CallInv
<1>b. ASSUME UNCHANGED <<mode, active, settingsActive, indexes, disturbed, cache, fresh, toReset, connects, answers>>,
             pc' # "load" \/ (pc' = pc /\ task' = task)
      PROVE  Strays'
    BY <1>b DEF Strays, Stray, isActive, Plays, Context
<1>c. ASSUME ~isActive' \/ disturbed' PROVE Strays'
    BY <1>c DEF Strays
<1>d. ASSUME toReset' = cache' PROVE Strays'
    BY <1>d DEF Strays, Stray
<1>1. ASSUME NEW c \in Clients, Connect(c) PROVE Strays'
    <2> SUFFICES ASSUME NEW d \in Clients, isActive', ~disturbed', Plays', Stray(Context(d))'
                 PROVE  (answers[d] = <<>> /\ (task.ctx = Context(d) => pc # "load"))'
        BY DEF Strays
    <2>1. UNCHANGED <<mode, active, settingsActive, indexes, disturbed, pc, task>>
        BY <1>1 DEF Connect
    <2>2. CASE d = c
        <3>1. answers'[c] = <<>> /\ Context(c)' = <<c, connects[c] + 1>>
            BY <1>1 DEF Connect, Context, TypeInv, Typed, TypedClients, CallInv
        <3> QED
            BY <1>a, <2>1, <2>2, <3>1, NewContext
    <2>3. CASE d # c
        <3>1. answers'[d] = answers[d] /\ Context(d)' = Context(d)
            BY <1>1, <2>3 DEF Connect, Context, TypeInv, Typed, TypedClients, CallInv
        <3>2. Context(d) # <<c, connects[c] + 1>>
            BY <2>3 DEF Context
        <3>3. Stray(Context(d))
            <4>1. /\ cache' = cache \cup {<<c, connects[c] + 1>>} /\ fresh \subseteq fresh'
                  /\ toReset \subseteq toReset'
                BY <1>1 DEF Connect
            <4> QED
                BY <3>1, <3>2, <4>1 DEF Stray
        <3> QED
            BY <2>1, <3>1, <3>3 DEF Strays, isActive, Plays
    <2> QED
        BY <2>2, <2>3
<1>2. ASSUME NEW c \in Clients, Call(c) PROVE Strays'
    BY <1>2, <1>b DEF Call
<1>3. ASSUME React PROVE Strays'
    BY <1>3, <1>b DEF React
<1>4. ASSUME RunSteps PROVE Strays'
    <2>1. CASE isActive
        BY <1>4, <1>b, <2>1 DEF RunSteps
    <2>2. CASE ~isActive
        BY <1>4, <1>c, <2>2 DEF RunSteps, isActive
    <2> QED
        BY <2>1, <2>2
<1>5. ASSUME FindIndex PROVE Strays'
    <2>1. UNCHANGED <<mode, active, settingsActive, indexes, disturbed, cache, fresh, toReset, connects>>
        BY <1>5 DEF FindIndex
    <2>2. pc' # "load"
        BY <1>5 DEF FindIndex, Idle
    <2>3. CASE answers' = answers
        BY <1>b, <2>1, <2>2, <2>3
    <2>4. CASE answers' # answers
        <3>1. /\ GetsAnswer(task.ctx, 0) /\ task.ctx \in Contexts /\ findIndex(task.call) = 0
              /\ task.call \in Calls
            BY <1>5, <1>a, <2>4 DEF FindIndex, Upstream, TypeInv, Hands, InCall
        <3> SUFFICES ASSUME NEW d \in Clients, isActive, ~disturbed, Plays, Stray(Context(d))
                     PROVE  answers'[d] = <<>>
            BY <2>1, <2>2 DEF Strays, isActive, Plays, Stray, Context
        <3>2. task.ctx # Context(d)
            <4> SUFFICES ASSUME task.ctx = Context(d) PROVE FALSE
                OBVIOUS
            <4>1. CallOk(task, pos[d], Len(answers[d]), Program[d])
                BY <1>a DEF OneCall, Single
            <4>2. \E k \in DOMAIN Program[d] : Program[d][k] = task.call
                <5>1. pos[d] \in Nat /\ Len(answers[d]) \in Nat
                    BY <1>a DEF TypeInv, Typed, TypedClients
                <5> QED
                    BY <4>1, <5>1, ProgramIs DEF CallOk
            <4>3. Recorded[task.call].client = d
                BY <4>2, ProgramIs
            <4>4. task.call \notin Served
                BY <4>3 DEF Served, Stray
            <4> QED
                BY <1>a, <3>1, <4>4, LineIsFree
        <3>3. answers'[d] = answers[d]
            BY <1>a, <3>1, <3>2, AnswerGot
        <3> QED
            BY <3>3 DEF Strays
    <2> QED
        BY <2>3, <2>4
<1>6. ASSUME FindIndexThrows PROVE Strays'
    BY <1>6, <1>c DEF FindIndexThrows
<1>7. ASSUME Mark PROVE Strays'
    <2> SUFFICES ASSUME NEW d \in Clients, isActive', ~disturbed', Plays', Stray(Context(d))'
                 PROVE  (answers[d] = <<>> /\ (task.ctx = Context(d) => pc # "load"))'
        BY DEF Strays
    <2>1. UNCHANGED <<mode, active, settingsActive, indexes, cache, fresh, toReset, connects, answers, task>>
        BY <1>7 DEF Mark
    <2>2. ~disturbed /\ task.ctx \in fresh
        BY <1>7 DEF Mark
    <2>3. Stray(Context(d)) /\ Context(d)' = Context(d)
        BY <2>1 DEF Stray, Context
    <2>4. answers[d] = <<>>
        BY <2>1, <2>2, <2>3 DEF Strays, isActive, Plays
    <2>5. task.ctx # Context(d)
        BY <2>2, <2>3 DEF Stray
    <2> QED
        BY <2>1, <2>3, <2>4, <2>5
<1>8. ASSUME Answer PROVE Strays'
    <2> SUFFICES ASSUME NEW d \in Clients, isActive', ~disturbed', Plays', Stray(Context(d))'
                 PROVE  (answers[d] = <<>> /\ (task.ctx = Context(d) => pc # "load"))'
        BY DEF Strays
    <2>1. /\ UNCHANGED <<mode, active, settingsActive, indexes, disturbed, cache, fresh, toReset, connects>>
          /\ task.ctx \in Contexts /\ GetsAnswer(task.ctx, found) /\ found \in Calls \cup {0}
          /\ pc = "load" /\ pc' = "idle"
        BY <1>8, <1>a DEF Answer, TypeInv, Typed, TypedThread, Hands, InCall, Idle
    <2>2. Stray(Context(d))
        BY <2>1 DEF Stray, Context
    <2>3. answers[d] = <<>> /\ task.ctx # Context(d)
        BY <2>1, <2>2 DEF Strays, isActive, Plays
    <2>4. answers'[d] = answers[d]
        BY <1>a, <2>1, <2>3, AnswerGot
    <2> QED
        BY <2>1, <2>3, <2>4
<1>9. ASSUME LoadThrows PROVE Strays'
    BY <1>9, <1>c DEF LoadThrows
<1>10. ASSUME SendBackResponses PROVE Strays'
    BY <1>10, <1>b DEF SendBackResponses
<1>11. ASSUME SendBack PROVE Strays'
    <2>1. pc' # "load"
        BY <1>11 DEF SendBack, Idle
    <2> QED
        BY <1>11, <1>b, <2>1 DEF SendBack
<1>12. ASSUME Activate PROVE Strays'
    BY <1>12, <1>a, <1>c DEF Activate, isActive, TypeInv, Switched
<1>13. ASSUME Waited PROVE Strays'
    BY <1>13, <1>a, <1>c DEF Waited, isActive, TypeInv, Switched
<1>14. ASSUME WaitTimesOut PROVE Strays'
    BY <1>14, <1>d DEF WaitTimesOut, BeginsReset
<1>15. ASSUME LoadIndexes PROVE Strays'
    BY <1>15, <1>d DEF LoadIndexes, BeginsReset
<1>16. ASSUME Deactivate PROVE Strays'
    BY <1>16, <1>a, <1>c DEF Deactivate, isActive, TypeInv, Switched
<1>17. ASSUME Unload PROVE Strays'
    BY <1>17, <1>c DEF Unload, BeginsReset, isActive
<1>18. ASSUME DisconnectAll PROVE Strays'
    <2>1. \A ctx : Stray(ctx)' => Stray(ctx)
        BY <1>18 DEF DisconnectAll, Stray
    <2>2. UNCHANGED <<mode, active, settingsActive, indexes, disturbed, connects, answers, pc, task>>
        BY <1>18 DEF DisconnectAll
    <2>3. \A d \in Clients : Context(d)' = Context(d)
        BY <2>2 DEF Context
    <2> QED
        BY <2>1, <2>2, <2>3 DEF Strays, isActive, Plays
<1>19. ASSUME HandleEvent PROVE Strays'
    BY <1>19, <1>b DEF HandleEvent
<1>20. CASE UNCHANGED vars
    BY <1>20, <1>b DEF vars, plugin, storage, switch, clients, thread, ghosts
<1> QED
    BY <1>1, <1>2, <1>3, <1>4, <1>5, <1>6, <1>7, <1>8, <1>9, <1>10,
       <1>11, <1>12, <1>13, <1>14, <1>15, <1>16, <1>17, <1>18, <1>19, <1>20 DEF Next, Execute, Switching

(* What was answered in turn stays so, and calls are made in turn.         *)
LEMMA TurnsKept ==
    ASSUME TypeInv, fresh # {}, [Next]_vars, NEW l \in Calls, InTurn(l)
    PROVE  InTurn(l)'
<1> SUFFICES ASSUME NEW m \in Calls, m < l
             PROVE  LET c == Recorded[m].client IN
                    Context(c)' \in cache' /\ \E k \in DOMAIN Program[c] :
                                    Program[c][k] = m /\ k <= Len(answers'[c])
    BY DEF InTurn
<1>1. PICK c \in Clients : c = Recorded[m].client
    BY LinesAre
<1>2. Context(c) \in cache
    BY <1>1 DEF InTurn
<1>3. PICK k \in DOMAIN Program[c] : Program[c][k] = m /\ k <= Len(answers[c])
    BY <1>1 DEF InTurn
<1>4. k \in Nat
    BY ProgramIs
<1>5. Stays(c)
    BY <1>2, AnswersStay
<1>6. k <= Len(answers'[c])
    BY <1>3, <1>4, <1>5 DEF Stays
<1> QED
    BY <1>1, <1>2, <1>3, <1>5, <1>6 DEF Stays

LEMMA TurnsNext == TypeInv /\ Turns /\ [Next]_vars => Turns'
<1> SUFFICES ASSUME TypeInv, Turns, [Next]_vars PROVE Turns'
    OBVIOUS
<1> USE DEF thread, clients, plugin, ghosts, switch
<1>a. \A d \in Clients : pos[d] \in Nat
    BY DEF TypeInv, Typed, TypedClients
<1>b. ASSUME fresh' = {} PROVE Turns'
    BY <1>b DEF Turns, Fresh
<1>c. ASSUME UNCHANGED <<mode, fresh, pos, connects>>, cache' \subseteq cache
      PROVE  Turns'
    <2> SUFFICES ASSUME mode.ordered, NEW c \in Clients, c \in Fresh'
                 PROVE  pos[c] <= Len(Program[c]) /\ \A k \in 1..pos[c] : InTurn(Program[c][k])'
        BY <1>c DEF Turns, Fresh
    <2>1. c \in Fresh
        BY <1>c DEF Fresh, Context
    <2>2. pos[c] <= Len(Program[c]) /\ \A k \in 1..pos[c] : InTurn(Program[c][k])
        BY <2>1 DEF Turns
    <2>3. \A k \in 1..pos[c] : Program[c][k] \in Calls
        BY <1>a, <2>2, ProgramIs
    <2>4. fresh # {}
        BY <2>1 DEF Fresh
    <2> QED
        BY <2>2, <2>3, <2>4, TurnsKept
<1>d. fresh = {} \/ switchPc = "idle"
    BY DEF TypeInv, Switched
<1>1. ASSUME NEW c \in Clients, Connect(c) PROVE Turns'
    <2> SUFFICES ASSUME mode.ordered, NEW d \in Clients, d \in Fresh'
                 PROVE  pos'[d] <= Len(Program[d]) /\ \A k \in 1..pos'[d] : InTurn(Program[d][k])'
        BY <1>1 DEF Turns, Fresh, Connect
    <2>1. CASE d = c
        <3>1. pos'[d] = 0 /\ Len(Program[d]) \in Nat
            BY <1>1, <2>1, ProgramIs DEF Connect, TypeInv, Typed, TypedClients
        <3> QED
            BY <3>1
    <2>2. CASE d # c
        <3>1. pos'[d] = pos[d] /\ Context(d)' = Context(d)
            BY <1>1, <2>2 DEF Connect, Context, TypeInv, Typed, TypedClients
        <3>2. Context(d) # <<c, connects[c] + 1>>
            BY <2>2 DEF Context
        <3>3. d \in Fresh
            BY <1>1, <3>1, <3>2 DEF Connect, Fresh
        <3>4. pos[d] <= Len(Program[d]) /\ \A k \in 1..pos[d] : InTurn(Program[d][k])
            BY <3>3 DEF Turns
        <3>5. \A k \in 1..pos[d] : Program[d][k] \in Calls
            BY <1>a, <3>4, ProgramIs
        <3>6. fresh # {}
            BY <3>3 DEF Fresh
        <3> QED
            BY <3>1, <3>4, <3>5, <3>6, TurnsKept
    <2> QED
        BY <2>1, <2>2
<1>2. ASSUME NEW c \in Clients, Call(c) PROVE Turns'
    <2> SUFFICES ASSUME mode.ordered, NEW d \in Clients, d \in Fresh'
                 PROVE  pos'[d] <= Len(Program[d]) /\ \A k \in 1..pos'[d] : InTurn(Program[d][k])'
        BY <1>2 DEF Turns, Fresh, Call
    <2>1. d \in Fresh
        BY <1>2 DEF Call, Fresh, Context
    <2>2. fresh # {}
        BY <2>1 DEF Fresh
    <2>3. pos[d] <= Len(Program[d]) /\ \A k \in 1..pos[d] : InTurn(Program[d][k])
        BY <2>1 DEF Turns
    <2>4. Len(Program[d]) \in Nat /\ \A k \in 1..Len(Program[d]) : Program[d][k] \in Calls
        BY ProgramIs
    <2>5. \A k \in 1..pos[d] : InTurn(Program[d][k])'
        BY <1>a, <2>2, <2>3, <2>4, TurnsKept
    <2>6. pos' = [pos EXCEPT ![c] = pos[c] + 1]
        BY <1>2 DEF Call
    <2>7. CASE d # c
        <3>1. pos'[d] = pos[d]
            BY <2>6, <2>7 DEF TypeInv, Typed, TypedClients
        <3> QED
            BY <2>3, <2>5, <3>1
    <2>8. CASE d = c
        <3>1. pos'[d] = pos[d] + 1
            BY <2>6, <2>8 DEF TypeInv, Typed, TypedClients
        <3>2. PICK n \in Nat : n = pos[d]
            BY <1>a
        <3>3. ~(n >= Len(Program[d])) /\ InTurn(Program[d][n + 1])
            BY <1>2, <2>8, <3>2 DEF Call
        <3>4. n + 1 \in 1..Len(Program[d])
            BY <2>4, <3>3
        <3>5. InTurn(Program[d][n + 1])'
            BY <2>2, <2>4, <3>3, <3>4, TurnsKept
        <3>6. \A k \in 1..(n + 1) : k \in 1..n \/ k = n + 1
            OBVIOUS
        <3>7. \A k \in 1..n : InTurn(Program[d][k])'
            BY <2>5, <3>2
        <3> QED
            BY <2>4, <3>1, <3>2, <3>4, <3>5, <3>6, <3>7
    <2> QED
        BY <2>7, <2>8
<1>3. ASSUME React PROVE Turns'
    BY <1>3, <1>c DEF React
<1>4. ASSUME RunSteps PROVE Turns'
    BY <1>4, <1>c DEF RunSteps
<1>5. ASSUME FindIndex PROVE Turns'
    BY <1>5, <1>c DEF FindIndex
<1>6. ASSUME FindIndexThrows PROVE Turns'
    BY <1>6, <1>c DEF FindIndexThrows
<1>7. ASSUME Mark PROVE Turns'
    BY <1>7, <1>c DEF Mark
<1>8. ASSUME Answer PROVE Turns'
    BY <1>8, <1>c DEF Answer
<1>9. ASSUME LoadThrows PROVE Turns'
    BY <1>9, <1>c DEF LoadThrows
<1>10. ASSUME SendBackResponses PROVE Turns'
    BY <1>10, <1>c DEF SendBackResponses
<1>11. ASSUME SendBack PROVE Turns'
    BY <1>11, <1>c DEF SendBack
<1>12. ASSUME Activate PROVE Turns'
    BY <1>12, <1>b DEF Activate
<1>13. ASSUME Waited PROVE Turns'
    BY <1>13, <1>c DEF Waited
<1>14. ASSUME WaitTimesOut PROVE Turns'
    BY <1>14, <1>c DEF WaitTimesOut
<1>15. ASSUME LoadIndexes PROVE Turns'
    BY <1>15, <1>c DEF LoadIndexes
<1>16. ASSUME Deactivate PROVE Turns'
    BY <1>16, <1>b DEF Deactivate
<1>17. ASSUME Unload PROVE Turns'
    BY <1>17, <1>c DEF Unload
<1>18. ASSUME DisconnectAll PROVE Turns'
    BY <1>18, <1>b, <1>d DEF DisconnectAll
<1>19. ASSUME HandleEvent PROVE Turns'
    BY <1>19, <1>c DEF HandleEvent
<1>20. CASE UNCHANGED vars
    BY <1>20, <1>c DEF vars, plugin, storage, switch, clients, thread, ghosts
<1> QED
    BY <1>1, <1>2, <1>3, <1>4, <1>5, <1>6, <1>7, <1>8, <1>9, <1>10,
       <1>11, <1>12, <1>13, <1>14, <1>15, <1>16, <1>17, <1>18, <1>19, <1>20 DEF Next, Execute, Switching

(***************************************************************************)
(* The line found for a call of the flow is its own: it was not used, and  *)
(* a line before it that matches as well was used by a call before, of the *)
(* same client or of one that kept the order.                              *)
(***************************************************************************)
LEMMA FindsItsOwn ==
    ASSUME CallInv, Strays, Turns, Recalled, Faithful, pc = "find", task.ctx \in fresh, ~task.extra,
           findIndex(task.call) # 0
    PROVE  findIndex(task.call) = task.call
<1> DEFINE l == task.call
<1>1. TypeInv /\ (\A d \in Clients : OneCall(d)) /\ ~disturbed
    BY DEF CallInv, Faithful
<1>2. PICK c \in Clients : task.ctx = Context(c)
    BY <1>1, ContextsAre DEF TypeInv, Typed, TypedFlags, Switched, Opened
<1>3. c \in Fresh
    BY <1>1, <1>2 DEF Fresh, TypeInv, Switched
<1>4. /\ pos[c] \in DOMAIN Program[c] /\ Program[c][pos[c]] = l /\ l \in Calls /\ l \notin Served
      /\ pos[c] = Len(answers[c]) + 1 /\ Len(answers[c]) \in Nat /\ Recorded[l].client = c
    BY <1>1, <1>2, InHand
<1>5. PICK unused : unused = Matching(l) \ completedIndexes
    OBVIOUS
<1>6. PICK f : f = findIndex(l)
    OBVIOUS
<1>7. /\ f \in Calls /\ Plays /\ (mode.tagged => Recorded[f].type = Recorded[l].type)
      /\ unused # {} =>
             /\ f \in unused
             /\ \A n \in unused : tagsMatching(l, n) <= tagsMatching(l, f)
             /\ \A n \in unused : tagsMatching(l, n) = tagsMatching(l, f) => f <= n
    BY <1>1, <1>4, <1>5, <1>6, FindIs DEF TypeInv, Plays
<1>8. l \in unused
    <2>1. l \notin completedIndexes
        BY <1>4 DEF Recalled
    <2>2. l \in Alike(l)
        BY <1>4 DEF Alike
    <2> QED
        BY <1>1, <1>4, <1>5, <1>7, <2>1, <2>2, LineIsFree DEF CallInv
<1>9. tagsMatching(l, l) = tagsMatching(l, f) /\ (mode.tagged => Recorded[f].queue = Recorded[l].queue)
    BY <1>7, <1>8 DEF tagsMatching
<1>10. f <= l /\ f \notin completedIndexes /\ f \in Nat /\ l \in Nat
    BY <1>4, <1>5, <1>7, <1>8, <1>9, LinesAre
<1>11. ASSUME NEW d \in Clients, d \in Fresh, NEW k \in DOMAIN Program[d], Program[d][k] = f,
              k <= Len(answers[d])
       PROVE  FALSE
    BY <1>7, <1>10, <1>11 DEF Recalled
<1>12. CASE f < l /\ mode.tagged /\ ToldApart
    <2>1. Recorded[f].client = c
        BY <1>4, <1>7, <1>9, <1>12 DEF ToldApart
    <2>2. PICK k \in DOMAIN Program[c] : Program[c][k] = f
        BY <1>7, <2>1, ProgramIs
    <2>3. k \in Nat /\ pos[c] \in Nat /\ ~(pos[c] < k) /\ k # pos[c]
        BY <1>4, <1>10, <1>12, <2>2, ProgramIs
    <2>4. k <= Len(answers[c])
        BY <1>4, <2>3
    <2> QED
        BY <1>3, <1>11, <2>2, <2>4
<1>13. CASE f < l /\ mode.ordered
    <2>1. InTurn(l)
        <3>1. pos[c] \in 1..pos[c]
            BY <1>4
        <3> QED
            BY <1>3, <1>4, <1>13, <3>1 DEF Turns
    <2>2. PICK d \in Clients : d = Recorded[f].client
        BY <1>7, LinesAre
    <2>3. Context(d) \in cache
        BY <1>7, <1>13, <2>1, <2>2 DEF InTurn
    <2>4. PICK k \in DOMAIN Program[d] : Program[d][k] = f /\ k <= Len(answers[d])
        BY <1>7, <1>13, <2>1, <2>2 DEF InTurn
    <2>5. Context(d) \in fresh
        <3> SUFFICES ASSUME Context(d) \notin fresh PROVE FALSE
            OBVIOUS
        <3>1. isActive /\ toReset = {}
            BY <1>1 DEF isActive, TypeInv, Switched
        <3>2. Stray(Context(d))
            BY <2>3, <3>1 DEF Stray
        <3>3. answers[d] = <<>>
            BY <1>1, <1>7, <3>1, <3>2 DEF Strays
        <3>4. k \in Nat /\ k > 0
            BY ProgramIs
        <3> QED
            BY <2>4, <3>3, <3>4
    <2> QED
        BY <1>11, <2>3, <2>4, <2>5 DEF Fresh
<1>14. f < l \/ f = l
    BY <1>10
<1> QED
    BY <1>6, <1>12, <1>13, <1>14 DEF Faithful

(* A line is used by its own call only.                                    *)
LEMMA RecalledNext ==
    CallInv /\ Strays /\ Turns /\ Recalled /\ [Next]_vars => Recalled'
<1> SUFFICES ASSUME CallInv, Strays, Turns, Recalled, [Next]_vars PROVE Recalled'
    OBVIOUS
<1> USE DEF thread, clients, plugin, ghosts, switch
<1>a. TypeInv /\ (\A d \in Clients : OneCall(d)) /\ Counted /\ TakesLines
    BY DEF CallInv
<1>b. Served \subseteq Served' \/ disturbed' \/ (fresh' = {} /\ completedIndexes' = {})
    BY <1>a, ServedNext
<1>c. ASSUME disturbed' PROVE Recalled'
    BY <1>c DEF Recalled, Faithful
<1>d. ASSUME fresh' = {}, completedIndexes' = {} PROVE Recalled'
    BY <1>d DEF Recalled, Fresh
<1>e. ASSUME UNCHANGED <<mode, disturbed, completedIndexes, fresh>>, cache' \subseteq cache,
             UNCHANGED <<connects, answers>>,
             indexes' = indexes \/ fresh = {},
             fresh = {} \/ pc' \notin {"mark", "load"} \/ UNCHANGED <<pc, task, found>>
      PROVE  Recalled'
    <2> SUFFICES ASSUME Faithful PROVE Recalled'
        BY <1>e DEF Recalled, Faithful, ToldApart
    <2>1. completedIndexes' \subseteq Served'
        BY <1>b, <1>c, <1>e DEF Recalled, Faithful
    <2>2. \A d \in Clients : d \in Fresh' => d \in Fresh /\ fresh # {}
        BY <1>e DEF Fresh, Context
    <2>3. Fresh' \subseteq Clients
        BY DEF Fresh
    <2> QED
        BY <1>e, <2>1, <2>2, <2>3 DEF Recalled, Plays
<1>f. fresh = {} \/ (switchPc = "idle" /\ isActive)
    BY <1>a DEF TypeInv, Switched, isActive
<1>g. ASSUME UNCHANGED <<mode, disturbed, completedIndexes, fresh, cache, connects, indexes>>,
             pc' \notin {"mark", "load"}, Faithful,
             NEW ctx \in Contexts, NEW l \in Calls \cup {0}, GetsAnswer(ctx, l),
             \A d \in Clients : d \in Fresh /\ ctx = Context(d) =>
                 pos[d] = Len(answers[d]) + 1,
             \A d \in Clients : d \in Fresh /\ ctx = Context(d) /\ pos[d] \in DOMAIN Program[d] =>
                 IF Plays THEN l = Program[d][pos[d]] /\ l \in completedIndexes ELSE l = Upstream
      PROVE  Recalled'
    <2>1. completedIndexes' \subseteq Served'
        BY <1>b, <1>c, <1>g DEF Recalled, Faithful
    <2>2. ASSUME NEW d \in Clients, d \in Fresh', NEW k \in DOMAIN Program[d], k <= Len(answers'[d])
          PROVE  IF Plays THEN answers'[d][k] = Program[d][k] /\ Program[d][k] \in completedIndexes
                          ELSE answers'[d][k] = Upstream
        <3>1. d \in Fresh
            BY <1>g, <2>2 DEF Fresh, Context
        <3>2. k \in Nat /\ k >= 1
            BY ProgramIs
        <3>3. k <= Len(answers[d]) =>
                 IF Plays THEN answers[d][k] = Program[d][k] /\ Program[d][k] \in completedIndexes
                          ELSE answers[d][k] = Upstream
            BY <1>g, <3>1 DEF Recalled
        <3>4. CASE ctx = Context(d)
            <4>1. /\ Len(answers[d]) \in Nat /\ Len(answers'[d]) = Len(answers[d]) + 1
                  /\ \A i \in 1..Len(answers[d]) : answers'[d][i] = answers[d][i]
                  /\ answers'[d][Len(answers[d]) + 1] = l
                BY <1>a, <1>g, <3>1, <3>4, AnswerGot DEF Fresh
            <4>2. pos[d] = Len(answers[d]) + 1
                BY <1>g, <3>1, <3>4
            <4>3. CASE k <= Len(answers[d])
                BY <3>2, <3>3, <4>1, <4>3
            <4>4. CASE ~(k <= Len(answers[d]))
                <5>1. k = pos[d]
                    BY <2>2, <3>2, <4>1, <4>2, <4>4
                <5> QED
                    BY <1>g, <3>1, <3>4, <4>1, <4>2, <5>1
            <4> QED
                BY <4>3, <4>4
        <3>5. CASE ctx # Context(d)
            <4>1. answers'[d] = answers[d]
                BY <1>a, <1>g, <3>5, AnswerGot
            <4> QED
                BY <2>2, <3>3, <4>1
        <3> QED
            BY <3>4, <3>5
    <2>3. Fresh' \subseteq Clients
        BY DEF Fresh
    <2> QED
        BY <1>g, <2>1, <2>2, <2>3 DEF Recalled, Plays
<1>1. ASSUME NEW c \in Clients, Connect(c) PROVE Recalled'
    <2> SUFFICES ASSUME Faithful PROVE Recalled'
        BY <1>1 DEF Recalled, Faithful, ToldApart, Connect
    <2>1. UNCHANGED <<mode, disturbed, completedIndexes, indexes, pc, task, found>>
        BY <1>1 DEF Connect
    <2>2. completedIndexes' \subseteq Served'
        BY <1>b, <1>c, <2>1 DEF Recalled, Faithful
    <2>3. fresh' \subseteq fresh \cup {<<c, connects[c] + 1>>}
        BY <1>1 DEF Connect
    <2>4. task.ctx \in fresh' => task.ctx \in fresh
        BY <1>a, <2>3, NewContext
    <2>5. ASSUME NEW d \in Clients, d \in Fresh', NEW k \in DOMAIN Program[d], k <= Len(answers'[d])
          PROVE  IF Plays THEN answers'[d][k] = Program[d][k] /\ Program[d][k] \in completedIndexes
                          ELSE answers'[d][k] = Upstream
        <3>1. k \in Nat /\ k >= 1
            BY ProgramIs
        <3>2. d # c
            <4>1. answers'[c] = <<>>
                BY <1>1, <1>a DEF Connect, TypeInv, Typed, TypedClients
            <4> QED
                BY <2>5, <3>1, <4>1
        <3>3. answers'[d] = answers[d] /\ Context(d)' = Context(d)
            BY <1>1, <1>a, <3>2 DEF Connect, Context, TypeInv, Typed, TypedClients
        <3>4. Context(d) # <<c, connects[c] + 1>>
            BY <3>2 DEF Context
        <3>5. d \in Fresh
            BY <1>1, <2>3, <2>5, <3>3, <3>4 DEF Connect, Fresh
        <3> QED
            BY <2>5, <3>3, <3>5 DEF Recalled
    <2>6. Fresh' \subseteq Clients
        BY DEF Fresh
    <2> QED
        BY <2>1, <2>2, <2>4, <2>5, <2>6 DEF Recalled, Plays
<1>2. ASSUME NEW c \in Clients, Call(c) PROVE Recalled'
    BY <1>2, <1>e DEF Call
<1>3. ASSUME React PROVE Recalled'
    BY <1>3, <1>e DEF React
<1>4. ASSUME RunSteps PROVE Recalled'
    <2>1. UNCHANGED <<mode, disturbed, completedIndexes, fresh, cache, connects, indexes>> /\ pc' \notin {"mark", "load"}
        BY <1>4 DEF RunSteps
    <2>2. CASE isActive
        BY <1>4, <1>e, <2>1, <2>2 DEF RunSteps
    <2>3. CASE ~isActive
        <3> SUFFICES ASSUME Faithful PROVE Recalled'
            BY <2>1 DEF Recalled, Faithful, ToldApart
        <3>1. Head(tasks).ctx \in Contexts /\ GetsAnswer(Head(tasks).ctx, 0)
            BY <1>4, <1>a, <2>3, HeadIs DEF RunSteps, Upstream
        <3>2. fresh = {} /\ Fresh = {}
            BY <1>f, <2>3 DEF Fresh
        <3> QED
            BY <1>g, <2>1, <3>1, <3>2
    <2> QED
        BY <2>2, <2>3
<1>5. ASSUME FindIndex PROVE Recalled'
    <2> SUFFICES ASSUME Faithful PROVE Recalled'
        BY <1>5 DEF Recalled, Faithful, ToldApart, FindIndex
    <2>1. UNCHANGED <<mode, disturbed, completedIndexes, fresh, cache, connects, indexes>> /\ pc = "find"
        BY <1>5 DEF FindIndex
    <2>2. CASE findIndex(task.call) # 0
        <3>1. pc' = "mark" /\ found' = findIndex(task.call) /\ UNCHANGED <<answers, task>>
            BY <1>5, <2>2 DEF FindIndex
        <3>2. task.ctx \in fresh /\ ~task.extra => found' = task.call
            BY <2>1, <2>2, <3>1, FindsItsOwn
        <3>3. completedIndexes' \subseteq Served'
            BY <1>b, <1>c, <2>1 DEF Recalled, Faithful
        <3>4. Fresh' = Fresh
            BY <2>1 DEF Fresh, Context
        <3> QED
            BY <2>1, <3>1, <3>2, <3>3, <3>4 DEF Recalled, Plays
    <2>3. CASE findIndex(task.call) = 0
        <3>1. pc' = "idle" /\ task.ctx \in Contexts
            BY <1>5, <1>a, <2>3 DEF FindIndex, Idle, TypeInv, Hands, InCall
        <3>2. CASE answers' = answers
            BY <1>e, <2>1, <3>1, <3>2
        <3>3. CASE GetsAnswer(task.ctx, Upstream)
            <4>1. \A d \in Clients : task.ctx = Context(d) => pos[d] = Len(answers[d]) + 1
                BY <1>a, InHand
            <4>2. ASSUME NEW d \in Clients, d \in Fresh, task.ctx = Context(d), pos[d] \in DOMAIN Program[d]
                  PROVE  ~Plays
                <5>1. pos[d] <= Len(Program[d])
                    BY <4>2, ProgramIs
                <5>2. task.call \in Calls /\ task.call \notin Served
                    BY <1>a, <2>1, <4>2, <5>1, InHand
                <5> QED
                    BY <1>a, <2>3, <5>2, LineIsFree DEF Faithful
            <4> QED
                BY <1>g, <2>1, <3>1, <3>3, <4>1, <4>2 DEF Upstream
        <3> QED
            BY <1>5, <2>3, <3>2, <3>3 DEF FindIndex
    <2> QED
        BY <2>2, <2>3
<1>6. ASSUME FindIndexThrows PROVE Recalled'
    BY <1>6, <1>c DEF FindIndexThrows
<1>7. ASSUME Mark PROVE Recalled'
    <2> SUFFICES ASSUME ~disturbed' PROVE Recalled'
        BY <1>c
    <2>1. /\ UNCHANGED <<mode, fresh, cache, connects, indexes, pos, answers, task, found>>
          /\ ~disturbed /\ task.ctx \in fresh /\ ~task.extra /\ pc = "mark" /\ pc' = "load"
          /\ completedIndexes' = completedIndexes \cup {found}
        BY <1>7 DEF Mark
    <2> SUFFICES ASSUME Faithful PROVE Recalled'
        BY <2>1 DEF Recalled, Faithful, ToldApart
    <2>2. found = task.call
        BY <2>1 DEF Recalled
    <2>3. PICK c \in Clients : task.ctx = Context(c)
        BY <1>a, <2>1, ContextsAre DEF TypeInv, Typed, TypedFlags, Switched, Opened
    <2>4. /\ pos[c] \in DOMAIN Program[c] /\ Program[c][pos[c]] = task.call
          /\ task.call \in Calls /\ Recorded[task.call].client = c
        BY <1>a, <2>1, <2>3, InHand
    <2>5. task.call \in Served'
        <3>1. Context(c)' = Context(c)
            BY <2>1 DEF Context
        <3> QED
            BY <2>1, <2>3, <2>4, <3>1 DEF Served
    <2>6. completedIndexes' \subseteq Served'
        <3>1. completedIndexes \subseteq Served
            BY DEF Recalled
        <3>2. Served \subseteq Served'
            BY <1>b, <2>1
        <3> QED
            BY <2>1, <2>2, <2>5, <3>1, <3>2
    <2>7. Fresh' = Fresh
        BY <2>1 DEF Fresh, Context
    <2> QED
        BY <2>1, <2>2, <2>6, <2>7 DEF Recalled, Plays
<1>8. ASSUME Answer PROVE Recalled'
    <2> SUFFICES ASSUME Faithful PROVE Recalled'
        BY <1>8 DEF Recalled, Faithful, ToldApart, Answer
    <2>1. /\ UNCHANGED <<mode, disturbed, completedIndexes, fresh, cache, connects, indexes>>
          /\ task.ctx \in Contexts /\ GetsAnswer(task.ctx, found) /\ found \in Calls \cup {0}
          /\ pc = "load" /\ pc' = "idle"
        BY <1>8, <1>a DEF Answer, TypeInv, Typed, TypedThread, Hands, InCall, Idle
    <2>2. \A d \in Clients : task.ctx = Context(d) => pos[d] = Len(answers[d]) + 1
        BY <1>a, InHand
    <2>3. ASSUME NEW d \in Clients, d \in Fresh, task.ctx = Context(d), pos[d] \in DOMAIN Program[d]
          PROVE  Plays /\ found = Program[d][pos[d]] /\ found \in completedIndexes
        <3>1. pos[d] <= Len(Program[d]) /\ task.ctx \in fresh
            BY <2>3, ProgramIs DEF Fresh
        <3>2. ~task.extra /\ Program[d][pos[d]] = task.call
            BY <1>a, <2>3, <3>1, InHand
        <3> QED
            BY <1>a, <2>1, <3>1, <3>2 DEF Recalled, TakesLines
    <2> QED
        BY <1>g, <2>1, <2>2, <2>3
<1>9. ASSUME LoadThrows PROVE Recalled'
    BY <1>9, <1>c DEF LoadThrows
<1>10. ASSUME SendBackResponses PROVE Recalled'
    BY <1>10, <1>e DEF SendBackResponses
<1>11. ASSUME SendBack PROVE Recalled'
    <2>1. pc' \notin {"mark", "load"}
        BY <1>11 DEF SendBack, Idle
    <2> QED
        BY <1>11, <1>e, <2>1 DEF SendBack
<1>12. ASSUME Activate PROVE Recalled'
    BY <1>12, <1>d DEF Activate
<1>13. ASSUME Waited PROVE Recalled'
    BY <1>13, <1>e DEF Waited
<1>14. ASSUME WaitTimesOut PROVE Recalled'
    BY <1>14, <1>e, <1>f DEF WaitTimesOut, BeginsReset
<1>15. ASSUME LoadIndexes PROVE Recalled'
    BY <1>15, <1>e, <1>f DEF LoadIndexes, BeginsReset
<1>16. ASSUME Deactivate PROVE Recalled'
    BY <1>16, <1>d DEF Deactivate
<1>17. ASSUME Unload PROVE Recalled'
    BY <1>17, <1>e, <1>f DEF Unload, BeginsReset
<1>18. ASSUME DisconnectAll PROVE Recalled'
    <2>1. cache' \subseteq cache
        BY <1>18 DEF DisconnectAll
    <2> QED
        BY <1>18, <1>e, <2>1 DEF DisconnectAll
<1>19. ASSUME HandleEvent PROVE Recalled'
    BY <1>19, <1>e DEF HandleEvent
<1>20. CASE UNCHANGED vars
    BY <1>20, <1>e DEF vars, plugin, storage, switch, clients, thread, ghosts
<1> QED
    BY <1>1, <1>2, <1>3, <1>4, <1>5, <1>6, <1>7, <1>8, <1>9, <1>10,
       <1>11, <1>12, <1>13, <1>14, <1>15, <1>16, <1>17, <1>18, <1>19, <1>20 DEF Next, Execute, Switching

LEMMA RecallNext == RecallInv /\ [Next]_vars => RecallInv'
<1> SUFFICES ASSUME RecallInv, [Next]_vars PROVE RecallInv'
    OBVIOUS
<1>1. CallInv' /\ Strays'
    BY CallNext, StraysNext DEF RecallInv
<1>2. Turns' /\ Recalled'
    BY TurnsNext, RecalledNext DEF RecallInv, CallInv
<1> QED
    BY <1>1, <1>2 DEF RecallInv

LEMMA RecallInit == Init => RecallInv
<1> SUFFICES ASSUME Init PROVE RecallInv
    OBVIOUS
<1>1. CallInv
    BY CallInit
<1>2. Strays /\ Turns /\ Recalled
    BY DEF Init, Strays, Stray, Turns, Recalled, Fresh
<1> QED
    BY <1>1, <1>2 DEF RecallInv

LEMMA RecallHolds == Spec => []RecallInv
<1>1. Init => RecallInv
    BY RecallInit
<1>2. RecallInv /\ [Next]_vars => RecallInv'
    BY RecallNext
<1> QED
    BY <1>1, <1>2, PTL DEF Spec

(***************************************************************************)
(* For every recording and any interleaving of the clients: clients that   *)
(* keep the order of the recording, or whose calls have tags that tell     *)
(* them apart, get for each call the answer recorded for it.  A line is    *)
(* used by its own call only, so each finds its own unused (findIndex).    *)
(***************************************************************************)
THEOREM AnswersCorrect == Spec => []AnswersAsRecorded
<1>1. RecallInv => AnswersAsRecorded
    BY DEF RecallInv, Recalled, AnswersAsRecorded
<1> QED
    BY <1>1, RecallHolds, PTL

-----------------------------------------------------------------------------
(* The line of callbacks of a context, as tasks come and go.               *)
LEMMA LinedShifts ==
    ASSUME NEW ctx, NEW got, NEW r, NEW q \in Seq(AnyTask), q # <<>>
    PROVE  /\ \A m : Holds(ctx, got, r, Tail(q), m) => Holds(ctx, got, r, q, m)
           /\ \A R : Lined(ctx, got, r, q, R) => Lined(ctx, got, r, Tail(q), R)
<1>1. PICK s : s = Tail(q)
    OBVIOUS
<1>2. \A i \in DOMAIN s : i \in Nat /\ i + 1 \in DOMAIN q /\ s[i] = q[i + 1]
    BY <1>1, Shifted
<1>3. \A m : Holds(ctx, got, r, s, m) => Holds(ctx, got, r, q, m)
    BY <1>2 DEF Holds
<1>4. \A R : Lined(ctx, got, r, q, R) => Lined(ctx, got, r, s, R)
    <2> SUFFICES ASSUME NEW R, Lined(ctx, got, r, q, R) PROVE Lined(ctx, got, r, s, R)
        OBVIOUS
    <2>1. ASSUME NEW t \in DOMAIN s, NEW u \in DOMAIN s, t < u PROVE t + 1 < u + 1
        BY <1>2, <2>1
    <2>2. \A t, u \in DOMAIN s : \A i \in DOMAIN s[t].callbacks : \A j \in DOMAIN s[u].callbacks :
              t < u /\ For(s[t].callbacks[i], ctx) /\ For(s[u].callbacks[j], ctx)
                  => <<s[t].callbacks[i][1], s[u].callbacks[j][1]>> \in R
        BY <1>2, <2>1 DEF Lined
    <2> QED
        BY <1>2, <2>2 DEF Lined
<1> QED
    BY <1>1, <1>3, <1>4

(* A task is appended: its callbacks come last.                            *)
Carries(b, ctx, m) == \E j \in DOMAIN b.callbacks : For(b.callbacks[j], ctx) /\ b.callbacks[j][1] = m

LEMMA HoldsAppended ==
    ASSUME NEW ctx, NEW got, NEW r, NEW q \in Seq(AnyTask), NEW b \in AnyTask, NEW m
    PROVE  Holds(ctx, got, r, Append(q, b), m) <=> Holds(ctx, got, r, q, m) \/ Carries(b, ctx, m)
<1>1. PICK s : s = Append(q, b)
    OBVIOUS
<1>2. /\ Len(q) \in Nat /\ DOMAIN q = 1..Len(q)
      /\ \A i \in DOMAIN q : i \in DOMAIN s /\ s[i] = q[i]
      /\ \A i \in DOMAIN s : (i \in DOMAIN q /\ s[i] = q[i]) \/ (i = Len(q) + 1 /\ s[i] = b)
      /\ Len(q) + 1 \in DOMAIN s /\ s[Len(q) + 1] = b
    BY <1>1, Appended
<1>3. Holds(ctx, got, r, s, m) => Holds(ctx, got, r, q, m) \/ Carries(b, ctx, m)
    BY <1>2 DEF Holds, Carries
<1>4. Holds(ctx, got, r, q, m) => Holds(ctx, got, r, s, m)
    BY <1>2 DEF Holds
<1>5. Carries(b, ctx, m) => Holds(ctx, got, r, s, m)
    BY <1>2 DEF Holds, Carries
<1> QED
    BY <1>1, <1>3, <1>4, <1>5

LEMMA LinedAppends ==
    ASSUME NEW ctx, NEW got, NEW r, NEW q \in Seq(AnyTask), NEW b \in AnyTask
    PROVE  \A R : /\ Lined(ctx, got, r, q, R)
                  /\ \A i, j \in DOMAIN b.callbacks :
                        i < j /\ For(b.callbacks[i], ctx) /\ For(b.callbacks[j], ctx)
                            => <<b.callbacks[i][1], b.callbacks[j][1]>> \in R
                  /\ \A m : Holds(ctx, got, r, q, m) => \A j \in DOMAIN b.callbacks :
                        For(b.callbacks[j], ctx) => <<m, b.callbacks[j][1]>> \in R
                  => Lined(ctx, got, r, Append(q, b), R)
<1>1. PICK s : s = Append(q, b)
    OBVIOUS
<1>2. /\ Len(q) \in Nat /\ DOMAIN q = 1..Len(q)
      /\ \A i \in DOMAIN q : i \in DOMAIN s /\ s[i] = q[i]
      /\ \A i \in DOMAIN s : (i \in DOMAIN q /\ s[i] = q[i]) \/ (i = Len(q) + 1 /\ s[i] = b)
    BY <1>1, Appended
<1>3. ASSUME NEW R, Lined(ctx, got, r, q, R),
             \A i, j \in DOMAIN b.callbacks :
                 i < j /\ For(b.callbacks[i], ctx) /\ For(b.callbacks[j], ctx)
                     => <<b.callbacks[i][1], b.callbacks[j][1]>> \in R,
             \A m : Holds(ctx, got, r, q, m) => \A j \in DOMAIN b.callbacks :
                 For(b.callbacks[j], ctx) => <<m, b.callbacks[j][1]>> \in R
      PROVE  Lined(ctx, got, r, s, R)
    <2>1. \A t \in DOMAIN s : \A i, j \in DOMAIN s[t].callbacks :
          i < j /\ For(s[t].callbacks[i], ctx) /\ For(s[t].callbacks[j], ctx)
              => <<s[t].callbacks[i][1], s[t].callbacks[j][1]>> \in R
        BY <1>2, <1>3 DEF Lined
    <2>2. \A i \in DOMAIN got : \A t \in DOMAIN s : \A j \in DOMAIN s[t].callbacks :
          For(s[t].callbacks[j], ctx) => <<got[i].line, s[t].callbacks[j][1]>> \in R
        <3>1. \A i \in DOMAIN got : Holds(ctx, got, r, q, got[i].line)
            BY DEF Holds
        <3> QED
            BY <1>2, <1>3, <3>1 DEF Lined
    <2>3. \A i \in DOMAIN r : \A t \in DOMAIN s : \A j \in DOMAIN s[t].callbacks :
          For(r[i], ctx) /\ For(s[t].callbacks[j], ctx) => <<r[i][1], s[t].callbacks[j][1]>> \in R
        <3>1. \A i \in DOMAIN r : For(r[i], ctx) => Holds(ctx, got, r, q, r[i][1])
            BY DEF Holds
        <3> QED
            BY <1>2, <1>3, <3>1 DEF Lined
    <2>4. ASSUME NEW t \in DOMAIN s, NEW u \in DOMAIN s, NEW i \in DOMAIN s[t].callbacks,
                 NEW j \in DOMAIN s[u].callbacks,
                 t < u, For(s[t].callbacks[i], ctx), For(s[u].callbacks[j], ctx)
          PROVE  <<s[t].callbacks[i][1], s[u].callbacks[j][1]>> \in R
        <3>1. t \in DOMAIN q /\ s[t] = q[t]
            BY <1>2, <2>4
        <3>2. CASE u \in DOMAIN q /\ s[u] = q[u]
            BY <1>3, <2>4, <3>1, <3>2 DEF Lined
        <3>3. CASE s[u] = b
            <4>1. Holds(ctx, got, r, q, s[t].callbacks[i][1])
                BY <2>4, <3>1 DEF Holds
            <4> QED
                BY <1>3, <2>4, <3>3, <4>1
        <3> QED
            BY <1>2, <3>2, <3>3
    <2> QED
        BY <1>3, <2>1, <2>2, <2>3, <2>4 DEF Lined
<1> QED
    BY <1>1, <1>3

(* A task without callbacks changes nothing.                               *)
LEMMA LinedQueues ==
    ASSUME NEW ctx, NEW got, NEW r, NEW q \in Seq(AnyTask), NEW b \in AnyTask, b.callbacks = <<>>
    PROVE  /\ \A m : Holds(ctx, got, r, Append(q, b), m) => Holds(ctx, got, r, q, m)
           /\ \A m : Holds(ctx, got, r, q, m) => Holds(ctx, got, r, Append(q, b), m)
           /\ \A R : Lined(ctx, got, r, q, R) => Lined(ctx, got, r, Append(q, b), R)
<1>1. DOMAIN b.callbacks = {}
    OBVIOUS
<1>2. \A m : Holds(ctx, got, r, Append(q, b), m) <=> Holds(ctx, got, r, q, m)
    BY <1>1, HoldsAppended DEF Carries
<1>3. ASSUME NEW R, Lined(ctx, got, r, q, R) PROVE Lined(ctx, got, r, Append(q, b), R)
    <2>1. /\ \A i, j \in DOMAIN b.callbacks :
                i < j /\ For(b.callbacks[i], ctx) /\ For(b.callbacks[j], ctx)
                    => <<b.callbacks[i][1], b.callbacks[j][1]>> \in R
          /\ \A m : Holds(ctx, got, r, q, m) => \A j \in DOMAIN b.callbacks :
                For(b.callbacks[j], ctx) => <<m, b.callbacks[j][1]>> \in R
        BY <1>1
    <2> QED
        BY <1>3, <2>1, LinedAppends
<1> QED
    BY <1>1, <1>2, <1>3

(* The first task is begun: its callbacks are next.                        *)
LEMMA LinedStarts ==
    ASSUME NEW ctx, NEW got, NEW q \in Seq(AnyTask), q # <<>>
    PROVE  /\ \A m : Holds(ctx, got, Head(q).callbacks, Tail(q), m) <=> Holds(ctx, got, <<>>, q, m)
           /\ \A R : Lined(ctx, got, <<>>, q, R) => Lined(ctx, got, Head(q).callbacks, Tail(q), R)
<1>1. PICK s : s = Tail(q)
    OBVIOUS
<1>2. PICK r : r = Head(q).callbacks
    OBVIOUS
<1>3. /\ 1 \in DOMAIN q /\ q[1].callbacks = r
      /\ \A i \in DOMAIN s : i \in Nat /\ i + 1 \in DOMAIN q /\ s[i] = q[i + 1] /\ 1 < i + 1
    <2>1. /\ 1 \in DOMAIN q /\ Head(q) = q[1] /\ Len(s) \in Nat /\ DOMAIN s = 1..Len(s)
          /\ \A i \in DOMAIN s : i + 1 \in DOMAIN q /\ s[i] = q[i + 1]
        BY <1>1, Shifted
    <2> QED
        BY <1>2, <2>1
<1>4. \A i \in DOMAIN q : i = 1 \/ \E h \in DOMAIN s : s[h] = q[i]
    BY <1>1, Rest
<1>5. \A m : Holds(ctx, got, r, s, m) => Holds(ctx, got, <<>>, q, m)
    BY <1>3 DEF Holds
<1>6. ASSUME NEW m, Holds(ctx, got, <<>>, q, m) PROVE Holds(ctx, got, r, s, m)
    <2>1. CASE \E i \in DOMAIN got : got[i].line = m
        BY <2>1 DEF Holds
    <2>2. ASSUME NEW t \in DOMAIN q, NEW j \in DOMAIN q[t].callbacks, For(q[t].callbacks[j], ctx),
                 q[t].callbacks[j][1] = m
          PROVE  Holds(ctx, got, r, s, m)
        <3>1. CASE t = 1
            BY <1>3, <2>2, <3>1 DEF Holds
        <3>2. CASE t # 1
            BY <1>4, <2>2, <3>2 DEF Holds
        <3> QED
            BY <3>1, <3>2
    <2> QED
        BY <1>6, <2>1, <2>2 DEF Holds
<1>7. ASSUME NEW R, Lined(ctx, got, <<>>, q, R) PROVE Lined(ctx, got, r, s, R)
    <2>1. Lined(ctx, got, <<>>, s, R)
        BY <1>1, <1>7, LinedShifts
    <2>2. \A i \in DOMAIN r : \A t \in DOMAIN s : \A j \in DOMAIN s[t].callbacks :
          For(r[i], ctx) /\ For(s[t].callbacks[j], ctx) => <<r[i][1], s[t].callbacks[j][1]>> \in R
        BY <1>3, <1>7 DEF Lined
    <2>3. /\ \A i \in DOMAIN got : \A j \in DOMAIN r : For(r[j], ctx) => <<got[i].line, r[j][1]>> \in R
          /\ \A i, j \in DOMAIN r : i < j /\ For(r[i], ctx) /\ For(r[j], ctx) => <<r[i][1], r[j][1]>> \in R
        BY <1>3, <1>7 DEF Lined
    <2> QED
        BY <2>1, <2>2, <2>3 DEF Lined
<1> QED
    BY <1>1, <1>2, <1>5, <1>6, <1>7

(* The first callback of the result is sent.                               *)
LEMMA LinedSends ==
    ASSUME NEW ctx, NEW T, NEW got \in Seq(T), NEW r \in Seq(Pairs), r # <<>>, NEW q, NEW new \in T,
           new.line = r[1][1]
    PROVE  /\ For(r[1], ctx) =>
                 /\ \A m : Holds(ctx, Append(got, new), Tail(r), q, m) <=> Holds(ctx, got, r, q, m)
                 /\ \A R : Lined(ctx, got, r, q, R) => Lined(ctx, Append(got, new), Tail(r), q, R)
           /\ ~For(r[1], ctx) =>
                 /\ \A m : Holds(ctx, got, Tail(r), q, m) <=> Holds(ctx, got, r, q, m)
                 /\ \A R : Lined(ctx, got, r, q, R) => Lined(ctx, got, Tail(r), q, R)
<1>1. PICK s : s = Tail(r)
    OBVIOUS
<1>2. PICK g : g = Append(got, new)
    OBVIOUS
<1>3. /\ 1 \in DOMAIN r /\ Len(s) \in Nat /\ DOMAIN s = 1..Len(s)
      /\ \A i \in DOMAIN s : i + 1 \in DOMAIN r /\ s[i] = r[i + 1]
    BY <1>1, Shifted
<1>4. \A i \in DOMAIN s : i \in Nat /\ 1 < i + 1
    BY <1>3
<1>5. \A i \in DOMAIN r : i = 1 \/ \E h \in DOMAIN s : s[h] = r[i]
    BY <1>1, Rest
<1>6. /\ Len(got) \in Nat /\ DOMAIN got = 1..Len(got)
      /\ \A i \in DOMAIN got : i \in DOMAIN g /\ g[i] = got[i]
      /\ \A i \in DOMAIN g : (i \in DOMAIN got /\ g[i] = got[i]) \/ (i = Len(got) + 1 /\ g[i] = new)
      /\ Len(got) + 1 \in DOMAIN g /\ g[Len(got) + 1] = new
    BY <1>2, Appended
<1>7. ASSUME NEW R, Lined(ctx, got, r, q, R) PROVE Lined(ctx, got, s, q, R)
    <2>1. \A i, j \in DOMAIN s : i < j => i + 1 < j + 1
        BY <1>4
    <2>2. \A i, j \in DOMAIN s : i < j /\ For(s[i], ctx) /\ For(s[j], ctx) => <<s[i][1], s[j][1]>> \in R
        BY <1>3, <1>7, <2>1 DEF Lined
    <2>3. \A i \in DOMAIN got : \A j \in DOMAIN s : For(s[j], ctx) => <<got[i].line, s[j][1]>> \in R
        BY <1>3, <1>7 DEF Lined
    <2>4. \A i \in DOMAIN s : \A t \in DOMAIN q : \A j \in DOMAIN q[t].callbacks :
          For(s[i], ctx) /\ For(q[t].callbacks[j], ctx) => <<s[i][1], q[t].callbacks[j][1]>> \in R
        BY <1>3, <1>7 DEF Lined
    <2> QED
        BY <1>7, <2>2, <2>3, <2>4 DEF Lined
<1>8. ASSUME For(r[1], ctx), NEW R, Lined(ctx, got, r, q, R) PROVE Lined(ctx, g, s, q, R)
    <2>1. Lined(ctx, got, s, q, R)
        BY <1>7, <1>8
    <2>2. ASSUME NEW i \in DOMAIN g, NEW j \in DOMAIN g, i < j PROVE <<g[i].line, g[j].line>> \in R
        <3>1. i \in DOMAIN got /\ g[i] = got[i]
            BY <1>6, <2>2
        <3>2. CASE j \in DOMAIN got /\ g[j] = got[j]
            BY <1>8, <2>2, <3>1, <3>2 DEF Lined
        <3>3. CASE g[j] = new
            BY <1>3, <1>8, <3>1, <3>3 DEF Lined
        <3> QED
            BY <1>6, <3>2, <3>3
    <2>3. ASSUME NEW i \in DOMAIN g, NEW j \in DOMAIN s, For(s[j], ctx)
          PROVE  <<g[i].line, s[j][1]>> \in R
        <3>1. CASE i \in DOMAIN got /\ g[i] = got[i]
            BY <2>1, <2>3, <3>1 DEF Lined
        <3>2. CASE g[i] = new
            BY <1>3, <1>4, <1>8, <2>3, <3>2 DEF Lined
        <3> QED
            BY <1>6, <3>1, <3>2
    <2>4. ASSUME NEW i \in DOMAIN g, NEW t \in DOMAIN q, NEW j \in DOMAIN q[t].callbacks,
                 For(q[t].callbacks[j], ctx)
          PROVE  <<g[i].line, q[t].callbacks[j][1]>> \in R
        <3>1. CASE i \in DOMAIN got /\ g[i] = got[i]
            BY <2>1, <2>4, <3>1 DEF Lined
        <3>2. CASE g[i] = new
            BY <1>3, <1>8, <2>4, <3>2 DEF Lined
        <3> QED
            BY <1>6, <3>1, <3>2
    <2> QED
        BY <2>1, <2>2, <2>3, <2>4 DEF Lined
<1>9. ~For(r[1], ctx) => \A m : Holds(ctx, got, s, q, m) <=> Holds(ctx, got, r, q, m)
    <2>1. \A m : Holds(ctx, got, s, q, m) => Holds(ctx, got, r, q, m)
        BY <1>3 DEF Holds
    <2>2. ASSUME ~For(r[1], ctx), NEW m, Holds(ctx, got, r, q, m) PROVE Holds(ctx, got, s, q, m)
        BY <1>5, <2>2 DEF Holds
    <2> QED
        BY <2>1, <2>2
<1>10. For(r[1], ctx) => \A m : Holds(ctx, g, s, q, m) <=> Holds(ctx, got, r, q, m)
    <2>1. ASSUME For(r[1], ctx), NEW m, Holds(ctx, g, s, q, m) PROVE Holds(ctx, got, r, q, m)
        <3>1. CASE \E i \in DOMAIN g : g[i].line = m
            BY <1>3, <1>6, <2>1, <3>1 DEF Holds
        <3>2. CASE \E j \in DOMAIN s : For(s[j], ctx) /\ s[j][1] = m
            BY <1>3, <3>2 DEF Holds
        <3> QED
            BY <2>1, <3>1, <3>2 DEF Holds
    <2>2. ASSUME For(r[1], ctx), NEW m, Holds(ctx, got, r, q, m) PROVE Holds(ctx, g, s, q, m)
        <3>1. CASE \E i \in DOMAIN got : got[i].line = m
            BY <1>6, <3>1 DEF Holds
        <3>2. ASSUME NEW j \in DOMAIN r, For(r[j], ctx), r[j][1] = m PROVE Holds(ctx, g, s, q, m)
            <4>1. CASE j = 1
                BY <1>6, <3>2, <4>1 DEF Holds
            <4>2. CASE j # 1
                BY <1>5, <3>2, <4>2 DEF Holds
            <4> QED
                BY <4>1, <4>2
        <3> QED
            BY <2>2, <3>1, <3>2 DEF Holds
    <2> QED
        BY <2>1, <2>2
<1> QED
    BY <1>1, <1>2, <1>7, <1>8, <1>9, <1>10

(* The rest of a result is dropped.                                        *)
LEMMA LinedDrops ==
    ASSUME NEW ctx, NEW got, NEW r, NEW q
    PROVE  /\ \A m : Holds(ctx, got, <<>>, q, m) => Holds(ctx, got, r, q, m)
           /\ \A R : Lined(ctx, got, r, q, R) => Lined(ctx, got, <<>>, q, R)
           /\ (\A m : ~Holds(ctx, got, r, q, m)) => \A R : Lined(ctx, got, r, q, R)
<1>1. \A m : Holds(ctx, got, <<>>, q, m) => Holds(ctx, got, r, q, m)
    BY DEF Holds
<1>2. \A R : Lined(ctx, got, r, q, R) => Lined(ctx, got, <<>>, q, R)
    BY DEF Lined
<1>3. ASSUME \A m : ~Holds(ctx, got, r, q, m), NEW R PROVE Lined(ctx, got, r, q, R)
    <2>1. \A i \in DOMAIN got : FALSE
        BY <1>3 DEF Holds
    <2>2. \A j \in DOMAIN r : ~For(r[j], ctx)
        BY <1>3 DEF Holds
    <2>3. \A t \in DOMAIN q : \A j \in DOMAIN q[t].callbacks : ~For(q[t].callbacks[j], ctx)
        BY <1>3 DEF Holds
    <2> QED
        BY <2>1, <2>2, <2>3 DEF Lined
<1> QED
    BY <1>1, <1>2, <1>3

(* What a step adds to the line of a client: the callbacks that an answer  *)
(* takes for it, in the order of their timestamps.                         *)
Adds(c, m) == Answer /\ task.ctx \in cache /\ m \in Taken /\ Context(c) \in Subscribers(m)
LineKept(c) ==
    /\ \A m : Given(c, m)' => Given(c, m) \/ Adds(c, m)
    /\ \A R : /\ LineUp(c, R)
              /\ \A m, n : Given(c, m) /\ Adds(c, n) => <<m, n>> \in R
              /\ \A m, n : Adds(c, m) /\ Adds(c, n) /\ <<m, n>> \in Timestamps => <<m, n>> \in R
              => LineUp(c, R)'

(* A step leaves the line of an open context as it is, or appends to it.   *)
LEMMA LineNext ==
    ASSUME TypeInv, [Next]_vars, NEW d \in Clients, Context(d)' = Context(d)
    PROVE  LineKept(d)
<1> USE DEF thread, clients
<1>a. /\ tasks \in Seq(AnyTask) /\ result \in Seq(Pairs)
      /\ messages \in [Clients -> Seq([line : Callbacks, after : Nat])]
    BY DEF TypeInv, Typed, TypedThread, TypedClients
<1>b. ASSUME NEW g, NEW r, NEW q, messages'[d] = g, result' = r, tasks' = q,
             \A m : Holds(Context(d), g, r, q, m) => Given(d, m),
             \A R : LineUp(d, R) => Lined(Context(d), g, r, q, R)
      PROVE  LineKept(d)
    BY <1>b DEF LineKept, Given, LineUp
<1>c. ASSUME messages'[d] = messages[d], UNCHANGED <<result, tasks>> PROVE LineKept(d)
    BY <1>b, <1>c DEF Given, LineUp
<1>d. ASSUME messages'[d] = messages[d], UNCHANGED <<result>>, tasks # <<>>, tasks' = Tail(tasks)
      PROVE LineKept(d)
    BY <1>a, <1>b, <1>d, LinedShifts DEF Given, LineUp
<1>e. InCall \/ pc = "idle" => result = <<>>
    BY DEF TypeInv, Hands, InCall
<1>f. Idle => result' = <<>>
    BY DEF Idle
<1>1. ASSUME NEW c \in Clients, Connect(c) PROVE LineKept(d)
    <2>1. d # c
        BY <1>1 DEF Connect, Context, TypeInv, Typed, TypedClients
    <2>2. messages'[d] = messages[d]
        BY <1>1, <2>1 DEF Connect, TypeInv, Typed, TypedClients
    <2> QED
        BY <1>1, <1>c, <2>2 DEF Connect
<1>2. ASSUME NEW c \in Clients, Call(c) PROVE LineKept(d)
    <2>1. PICK b \in AnyTask : b.callbacks = <<>> /\ tasks' = Append(tasks, b)
        BY <1>2, CallIs
    <2>2. UNCHANGED <<messages, result>>
        BY <1>2 DEF Call
    <2> QED
        BY <1>a, <1>b, <2>1, <2>2, LinedQueues DEF Given, LineUp
<1>3. ASSUME React PROVE LineKept(d)
    <2>1. PICK b \in AnyTask : b.callbacks = <<>> /\ tasks' = Append(Tail(tasks), b)
        BY <1>3, ReactIs
    <2>2. UNCHANGED <<messages, result>> /\ tasks # <<>>
        BY <1>3 DEF React
    <2>3. Tail(tasks) \in Seq(AnyTask)
        BY <1>a, <2>2, Rest
    <2>4. PICK q \in Seq(AnyTask) : q = Tail(tasks)
        BY <2>3
    <2>5. /\ \A m : Holds(Context(d), messages[d], result, q, m) => Given(d, m)
          /\ \A R : LineUp(d, R) => Lined(Context(d), messages[d], result, q, R)
        BY <1>a, <2>2, <2>4, LinedShifts DEF Given, LineUp
    <2>6. /\ \A m : Holds(Context(d), messages[d], result, Append(q, b), m) => Given(d, m)
          /\ \A R : LineUp(d, R) => Lined(Context(d), messages[d], result, Append(q, b), R)
        BY <2>1, <2>4, <2>5, LinedQueues
    <2> QED
        BY <1>b, <2>1, <2>2, <2>4, <2>6
<1>4. ASSUME RunSteps PROVE LineKept(d)
    BY <1>4, <1>d DEF RunSteps
<1>5. ASSUME FindIndex PROVE LineKept(d)
    <2>1. result' = result
        BY <1>5, <1>e, <1>f DEF FindIndex, InCall
    <2> QED
        BY <1>5, <1>c, <2>1 DEF FindIndex
<1>6. ASSUME FindIndexThrows PROVE LineKept(d)
    <2>1. result' = result
        BY <1>6, <1>e, <1>f DEF FindIndexThrows, InCall
    <2> QED
        BY <1>6, <1>c, <2>1 DEF FindIndexThrows
<1>7. ASSUME Mark PROVE LineKept(d)
    BY <1>7, <1>c DEF Mark
<1>8. ASSUME Answer PROVE LineKept(d)
    <2>1. UNCHANGED <<messages, result>>
        BY <1>8, <1>e, <1>f DEF Answer, InCall
    <2>2. CASE tasks' = tasks
        BY <1>c, <2>1, <2>2
    <2>3. ASSUME task.ctx \in cache, NEW b \in AnyTask, Batch(b), tasks' = Append(tasks, b)
          PROVE  LineKept(d)
        <3>1. ASSUME NEW j \in DOMAIN b.callbacks, For(b.callbacks[j], Context(d))
              PROVE  Adds(d, b.callbacks[j][1])
            BY <1>8, <2>3, <3>1 DEF Adds, Batch, For
        <3>2. \A m : Given(d, m)' => Given(d, m) \/ Adds(d, m)
            <4>1. ASSUME NEW m, Holds(Context(d), messages[d], result, Append(tasks, b), m)
                  PROVE  Given(d, m) \/ Adds(d, m)
                <5>1. Holds(Context(d), messages[d], result, tasks, m) \/ Carries(b, Context(d), m)
                    BY <1>a, <4>1, HoldsAppended
                <5> QED
                    BY <3>1, <5>1 DEF Given, Carries
            <4> QED
                BY <2>1, <2>3, <4>1 DEF Given
        <3>3. ASSUME NEW R, LineUp(d, R),
                     \A m, n : Given(d, m) /\ Adds(d, n) => <<m, n>> \in R,
                     \A m, n : Adds(d, m) /\ Adds(d, n) /\ <<m, n>> \in Timestamps => <<m, n>> \in R
              PROVE  LineUp(d, R)'
            <4>1. \A i, j \in DOMAIN b.callbacks :
                      i < j /\ For(b.callbacks[i], Context(d)) /\ For(b.callbacks[j], Context(d))
                          => <<b.callbacks[i][1], b.callbacks[j][1]>> \in R
                BY <2>3, <3>1, <3>3 DEF Batch
            <4>2. \A m : Holds(Context(d), messages[d], result, tasks, m) => \A j \in DOMAIN b.callbacks :
                      For(b.callbacks[j], Context(d)) => <<m, b.callbacks[j][1]>> \in R
                BY <3>1, <3>3 DEF Given
            <4>3. Lined(Context(d), messages[d], result, Append(tasks, b), R)
                BY <1>a, <3>3, <4>1, <4>2, LinedAppends DEF LineUp
            <4> QED
                BY <2>1, <2>3, <4>3 DEF LineUp
        <3> QED
            BY <3>2, <3>3 DEF LineKept
    <2> QED
        BY <1>8, <2>2, <2>3, AnswerIs DEF TypeInv
<1>9. ASSUME LoadThrows PROVE LineKept(d)
    <2>1. result' = result
        BY <1>9, <1>e, <1>f DEF LoadThrows, InCall
    <2> QED
        BY <1>9, <1>c, <2>1 DEF LoadThrows
<1>10. ASSUME SendBackResponses PROVE LineKept(d)
    <2>1. /\ messages' = messages /\ tasks # <<>> /\ tasks' = Tail(tasks) /\ result' = Head(tasks).callbacks
          /\ result = <<>>
        BY <1>10, <1>e DEF SendBackResponses
    <2> QED
        BY <1>a, <1>b, <2>1, LinedStarts DEF Given, LineUp
<1>11. ASSUME SendBack PROVE LineKept(d)
    <2>1. tasks' = tasks
        BY <1>11 DEF SendBack
    <2>2. CASE result # <<>> /\ isActive /\ result[1][2] \in cache
        <3>1. GetsMessage(result[1][2], result[1][1]) /\ result' = Tail(result)
            BY <1>11, <2>2 DEF SendBack
        <3>2. PICK p \in Pairs : p = result[1]
            BY <1>a, <2>2
        <3>3. p[1] \in Callbacks /\ p[2] \in Contexts /\ p[2][1] \in Clients /\ p[2] = Context(p[2][1])
            BY <2>2, <3>2, ContextsAre DEF Pairs, TypeInv, Opened
        <3>4. PICK M : M = [line : Callbacks, after : Nat]
            OBVIOUS
        <3>5. PICK new \in M : new = [line |-> p[1], after |-> Len(answers[p[2][1]])]
            <4>1. Len(answers[p[2][1]]) \in Nat
                BY <3>3 DEF TypeInv, Typed, TypedClients
            <4> QED
                BY <3>3, <3>4, <4>1
        <3>6. messages' = [messages EXCEPT ![p[2][1]] = Append(messages[p[2][1]], new)]
            BY <2>2, <3>1, <3>2, <3>5 DEF GetsMessage
        <3>7. messages \in [Clients -> Seq(M)] /\ new.line = result[1][1]
            BY <1>a, <3>2, <3>4, <3>5
        <3>8. CASE For(result[1], Context(d))
            <4>1. p[2][1] = d
                BY <3>2, <3>3, <3>8 DEF For, Context
            <4>2. messages'[d] = Append(messages[d], new) /\ messages[d] \in Seq(M)
                BY <3>6, <3>7, <4>1
            <4> QED
                BY <1>a, <1>b, <2>1, <2>2, <3>1, <3>7, <3>8, <4>2, LinedSends DEF Given, LineUp
        <3>9. CASE ~For(result[1], Context(d))
            <4>1. p[2][1] # d
                BY <3>2, <3>3, <3>9 DEF For
            <4>2. messages'[d] = messages[d] /\ messages[d] \in Seq(M)
                BY <3>6, <3>7, <4>1
            <4> QED
                BY <1>a, <1>b, <2>1, <2>2, <3>1, <3>7, <3>9, <4>2, LinedSends DEF Given, LineUp
        <3> QED
            BY <3>8, <3>9
    <2>3. CASE ~(result # <<>> /\ isActive /\ result[1][2] \in cache)
        <3>1. result' = <<>> /\ messages' = messages
            BY <1>11, <1>f, <2>3 DEF SendBack
        <3> QED
            BY <1>b, <2>1, <3>1, LinedDrops DEF Given, LineUp
    <2> QED
        BY <2>2, <2>3
<1>12. ASSUME Activate PROVE LineKept(d)
    BY <1>12, <1>c DEF Activate
<1>13. ASSUME Waited PROVE LineKept(d)
    BY <1>13, <1>c DEF Waited
<1>14. ASSUME WaitTimesOut PROVE LineKept(d)
    BY <1>14, <1>c DEF WaitTimesOut
<1>15. ASSUME LoadIndexes PROVE LineKept(d)
    BY <1>15, <1>c DEF LoadIndexes
<1>16. ASSUME Deactivate PROVE LineKept(d)
    BY <1>16, <1>c DEF Deactivate
<1>17. ASSUME Unload PROVE LineKept(d)
    BY <1>17, <1>c DEF Unload
<1>18. ASSUME DisconnectAll PROVE LineKept(d)
    BY <1>18, <1>c DEF DisconnectAll
<1>19. ASSUME HandleEvent PROVE LineKept(d)
    BY <1>19, <1>c DEF HandleEvent
<1>20. CASE UNCHANGED vars
    BY <1>20, <1>c DEF vars, plugin, storage, switch, clients, thread, ghosts
<1> QED
    BY <1>1, <1>2, <1>3, <1>4, <1>5, <1>6, <1>7, <1>8, <1>9, <1>10,
       <1>11, <1>12, <1>13, <1>14, <1>15, <1>16, <1>17, <1>18, <1>19, <1>20 DEF Next, Execute, Switching

(* No callback is sent twice.                                              *)
LEMMA TwiceNext == TypeInv /\ Once /\ [Next]_vars => NeverTwice'
<1> SUFFICES ASSUME TypeInv, Once, [Next]_vars PROVE NeverTwice'
    OBVIOUS
<1> USE DEF thread, clients
<1>a. ASSUME UNCHANGED messages PROVE NeverTwice'
    BY <1>a DEF Once, NeverTwice
<1>1. ASSUME NEW c \in Clients, Connect(c) PROVE NeverTwice'
    <2>1. ASSUME NEW d \in Clients PROVE messages'[d] = messages[d] \/ messages'[d] = <<>>
        BY <1>1 DEF Connect, TypeInv, Typed, TypedClients
    <2>2. DOMAIN <<>> = {}
        OBVIOUS
    <2>3. \A d \in Clients : \A i, j \in DOMAIN messages'[d] :
              i # j => messages'[d][i].line # messages'[d][j].line
        BY <2>1, <2>2 DEF Once, NeverTwice
    <2> QED
        BY <2>3 DEF NeverTwice
<1>2. ASSUME NEW c \in Clients, Call(c) PROVE NeverTwice'
    BY <1>2, <1>a DEF Call
<1>3. ASSUME React PROVE NeverTwice'
    BY <1>3, <1>a DEF React
<1>4. ASSUME RunSteps PROVE NeverTwice'
    BY <1>4, <1>a DEF RunSteps
<1>5. ASSUME FindIndex PROVE NeverTwice'
    BY <1>5, <1>a DEF FindIndex
<1>6. ASSUME FindIndexThrows PROVE NeverTwice'
    BY <1>6, <1>a DEF FindIndexThrows
<1>7. ASSUME Mark PROVE NeverTwice'
    BY <1>7, <1>a DEF Mark
<1>8. ASSUME Answer PROVE NeverTwice'
    BY <1>8, <1>a DEF Answer
<1>9. ASSUME LoadThrows PROVE NeverTwice'
    BY <1>9, <1>a DEF LoadThrows
<1>10. ASSUME SendBackResponses PROVE NeverTwice'
    BY <1>10, <1>a DEF SendBackResponses
<1>11. ASSUME SendBack PROVE NeverTwice'
    <2>1. CASE ~(result # <<>> /\ isActive /\ result[1][2] \in cache)
        BY <1>11, <1>a, <2>1 DEF SendBack
    <2>2. CASE result # <<>> /\ isActive /\ result[1][2] \in cache
        <3>1. PICK x : x = result[1][2]
            OBVIOUS
        <3>2. PICK d \in Clients : d = x[1] /\ x = Context(d) /\ x \in cache
            BY <2>2, <3>1, ContextsAre DEF TypeInv, Typed, TypedFlags, Opened
        <3>3. LineUp(d, Different)
            BY <2>2, <3>2 DEF Once, GivenTaken, isActive
        <3>4. \A n : ~Adds(d, n)
            BY <1>11 DEF Adds, Answer, SendBack
        <3>5. Context(d)' = Context(d)
            BY <1>11 DEF SendBack, Context
        <3>6. LineKept(d)
            BY <3>5, LineNext
        <3>7. LineUp(d, Different)'
            BY <3>3, <3>4, <3>6 DEF LineKept
        <3>8. \A i, j \in DOMAIN messages'[d] : i < j => <<messages'[d][i].line, messages'[d][j].line>> \in Different
            BY <3>7 DEF LineUp, Lined
        <3>9. messages'[d] \in Seq([line : Callbacks, after : Nat])
            BY ClientsNext DEF TypedClients
        <3>10. \A i, j \in DOMAIN messages'[d] : i # j => i < j \/ j < i
            BY <3>9
        <3>11. \A i, j \in DOMAIN messages'[d] : i # j => messages'[d][i].line # messages'[d][j].line
            BY <3>8, <3>10 DEF Different
        <3>12. \A e \in Clients : e # d => messages'[e] = messages[e]
            BY <1>11, <2>2, <3>1, <3>2 DEF SendBack, GetsMessage, TypeInv, Typed, TypedClients
        <3>13. ASSUME NEW e \in Clients
               PROVE  \A i, j \in DOMAIN messages'[e] : i # j => messages'[e][i].line # messages'[e][j].line
            BY <3>11, <3>12 DEF Once, NeverTwice
        <3> QED
            BY <3>13 DEF NeverTwice
    <2> QED
        BY <2>1, <2>2
<1>12. ASSUME Activate PROVE NeverTwice'
    BY <1>12, <1>a DEF Activate
<1>13. ASSUME Waited PROVE NeverTwice'
    BY <1>13, <1>a DEF Waited
<1>14. ASSUME WaitTimesOut PROVE NeverTwice'
    BY <1>14, <1>a DEF WaitTimesOut
<1>15. ASSUME LoadIndexes PROVE NeverTwice'
    BY <1>15, <1>a DEF LoadIndexes
<1>16. ASSUME Deactivate PROVE NeverTwice'
    BY <1>16, <1>a DEF Deactivate
<1>17. ASSUME Unload PROVE NeverTwice'
    BY <1>17, <1>a DEF Unload
<1>18. ASSUME DisconnectAll PROVE NeverTwice'
    BY <1>18, <1>a DEF DisconnectAll
<1>19. ASSUME HandleEvent PROVE NeverTwice'
    BY <1>19, <1>a DEF HandleEvent
<1>20. CASE UNCHANGED vars
    BY <1>20, <1>a DEF vars, plugin, storage, switch, clients, thread, ghosts
<1> QED
    BY <1>1, <1>2, <1>3, <1>4, <1>5, <1>6, <1>7, <1>8, <1>9, <1>10,
       <1>11, <1>12, <1>13, <1>14, <1>15, <1>16, <1>17, <1>18, <1>19, <1>20 DEF Next, Execute, Switching

(* What was given is a callback; a new context was given none; and only an *)
(* answer adds some.                                                       *)
LEMMA GivenIs ==
    ASSUME TypeInv, NEW c \in Clients, NEW m, Given(c, m)
    PROVE  m \in Callbacks
<1>1. \A i \in DOMAIN messages[c] : messages[c][i].line \in Callbacks
    <2>1. PICK M : M = [line : Callbacks, after : Nat]
        OBVIOUS
    <2>2. messages[c] \in Seq(M)
        BY <2>1 DEF TypeInv, Typed, TypedClients
    <2>3. \A i \in DOMAIN messages[c] : messages[c][i] \in M
        BY <2>2
    <2> QED
        BY <2>1, <2>3
<1>2. \A p \in Pairs : p[1] \in Callbacks
    BY DEF Pairs
<1>3. \A j \in DOMAIN result : result[j] \in Pairs
    BY DEF TypeInv, Typed, TypedThread
<1>4. \A i \in DOMAIN tasks : \A j \in DOMAIN tasks[i].callbacks : tasks[i].callbacks[j] \in Pairs
    <2>1. \A i \in DOMAIN tasks : tasks[i] \in AnyTask
        BY DEF TypeInv, Typed, TypedThread
    <2>2. \A t \in AnyTask : t.callbacks \in Seq(Pairs)
        BY DEF AnyTask
    <2>3. \A s \in Seq(Pairs) : \A j \in DOMAIN s : s[j] \in Pairs
        OBVIOUS
    <2> QED
        BY <2>1, <2>2, <2>3
<1> QED
    BY <1>1, <1>2, <1>3, <1>4 DEF Given, Holds

LEMMA ConnectsEmpty ==
    ASSUME TypeInv, NEW c \in Clients, Connect(c)
    PROVE  /\ Context(c)' = <<c, connects[c] + 1>> /\ messages'[c] = <<>> /\ answers'[c] = <<>>
           /\ subscribed'[c] = {} /\ pos'[c] = 0
           /\ \A m : ~Given(c, m)'
           /\ \A R : LineUp(c, R)'
           /\ \A d \in Clients : d # c =>
                 /\ Context(d)' = Context(d) /\ messages'[d] = messages[d] /\ answers'[d] = answers[d]
                 /\ subscribed'[d] = subscribed[d] /\ pos'[d] = pos[d]
                 /\ (Context(d) \in cache' <=> Context(d) \in cache)
           /\ UNCHANGED <<tasks, result, task, pc>>
<1>1. /\ connects \in [Clients -> 0..MaxConnects] /\ subscribed \in [Clients -> SUBSET Queues]
      /\ pos \in [Clients -> Nat] /\ answers \in [Clients -> Seq(Calls \cup {0})]
      /\ messages \in [Clients -> Seq([line : Callbacks, after : Nat])]
    BY DEF TypeInv, Typed, TypedClients
<1>2. UNCHANGED <<tasks, result, task, pc>>
    BY DEF Connect, thread
<1>3. Context(c)' = <<c, connects[c] + 1>> /\ messages'[c] = <<>> /\ answers'[c] = <<>>
    BY <1>1 DEF Connect, Context
<1>4. subscribed'[c] = {} /\ pos'[c] = 0
    BY <1>1 DEF Connect
<1>5. ASSUME NEW d \in Clients, d # c
      PROVE  /\ Context(d)' = Context(d) /\ messages'[d] = messages[d] /\ answers'[d] = answers[d]
             /\ subscribed'[d] = subscribed[d] /\ pos'[d] = pos[d]
             /\ (Context(d) \in cache' <=> Context(d) \in cache)
    BY <1>1, <1>5 DEF Connect, Context
<1>6. PICK x : x = <<c, connects[c] + 1>>
    OBVIOUS
<1>7. \A m : ~Holds(x, <<>>, result, tasks, m)
    BY <1>6, NewContext DEF Holds, For
<1>8. \A R : Lined(x, <<>>, result, tasks, R)
    BY <1>7, LinedDrops
<1>9. \A m : ~Given(c, m)'
    BY <1>2, <1>3, <1>6, <1>7 DEF Given
<1>10. \A R : LineUp(c, R)'
    BY <1>2, <1>3, <1>6, <1>8 DEF LineUp
<1> QED
    BY <1>2, <1>3, <1>4, <1>5, <1>9, <1>10

LEMMA AddsNone ==
    ASSUME pc # "load" \/ pc' = pc \/ ~repo, NEW c, NEW m
    PROVE  ~Adds(c, m)
BY DEF Adds, Answer, Idle

(* What was given to an open context is not taken again.                   *)
LEMMA TakenNext == CallInv /\ Once /\ [Next]_vars => GivenTaken'
<1> SUFFICES ASSUME CallInv, Once, [Next]_vars PROVE GivenTaken'
    OBVIOUS
<1> USE DEF thread, clients, plugin, switch
<1>a. TypeInv
    BY DEF CallInv
<1>b. ASSUME NEW d \in Clients, Context(d)' = Context(d), Context(d) \in cache,
             settingsActive, \A n : ~Adds(d, n), completedOutIndexes' = completedOutIndexes
      PROVE  LineUp(d, Different)' /\ \A m \in Callbacks : Given(d, m)' => m \in completedOutIndexes'
    <2>1. LineKept(d)
        BY <1>a, <1>b, LineNext
    <2>2. LineUp(d, Different) /\ \A m \in Callbacks : Given(d, m) => m \in completedOutIndexes
        BY <1>b DEF Once, GivenTaken
    <2> QED
        BY <1>b, <2>1, <2>2 DEF LineKept
<1>c. ASSUME UNCHANGED <<settingsActive, completedOutIndexes, connects>>, cache' \subseteq cache,
             pc # "load" \/ pc' = pc \/ ~repo
      PROVE  GivenTaken'
    <2>1. \A d, n : ~Adds(d, n)
        BY <1>c, AddsNone
    <2>2. \A d \in Clients : Context(d)' = Context(d)
        BY <1>c DEF Context
    <2>3. ASSUME settingsActive', NEW d \in Clients, Context(d)' \in cache'
          PROVE LineUp(d, Different)' /\ \A m \in Callbacks : Given(d, m)' => m \in completedOutIndexes'
        BY <1>b, <1>c, <2>1, <2>2, <2>3
    <2> QED
        BY <2>3 DEF GivenTaken
<1>1. ASSUME NEW c \in Clients, Connect(c) PROVE GivenTaken'
    <2>1. \A d, n : ~Adds(d, n)
        BY <1>1, AddsNone DEF Connect
    <2>2. UNCHANGED <<settingsActive, completedOutIndexes>>
        BY <1>1 DEF Connect
    <2>3. ASSUME settingsActive', NEW d \in Clients, Context(d)' \in cache'
          PROVE LineUp(d, Different)' /\ \A m \in Callbacks : Given(d, m)' => m \in completedOutIndexes'
        <3>1. CASE d = c
            BY <1>1, <1>a, <3>1, ConnectsEmpty
        <3>2. CASE d # c
            <4>1. Context(d)' = Context(d) /\ Context(d) \in cache
                BY <1>1, <1>a, <2>3, <3>2, ConnectsEmpty
            <4> QED
                BY <1>b, <2>1, <2>2, <2>3, <4>1
        <3> QED
            BY <3>1, <3>2
    <2> QED
        BY <2>3 DEF GivenTaken
<1>2. ASSUME NEW c \in Clients, Call(c) PROVE GivenTaken'
    BY <1>2, <1>c DEF Call
<1>3. ASSUME React PROVE GivenTaken'
    BY <1>3, <1>c DEF React
<1>4. ASSUME RunSteps PROVE GivenTaken'
    BY <1>4, <1>c DEF RunSteps
<1>5. ASSUME FindIndex PROVE GivenTaken'
    BY <1>5, <1>c DEF FindIndex
<1>6. ASSUME FindIndexThrows PROVE GivenTaken'
    BY <1>6, <1>c DEF FindIndexThrows
<1>7. ASSUME Mark PROVE GivenTaken'
    BY <1>7, <1>c DEF Mark
<1>8. ASSUME Answer PROVE GivenTaken'
    <2>1. completedOutIndexes' = completedOutIndexes \cup Taken
        BY <1>8, <1>a, AnswerIs DEF TypeInv
    <2>2. Taken \in SUBSET Callbacks /\ \A m \in Taken : m \notin completedOutIndexes
        BY <1>a, TakenIs DEF TypeInv
    <2>3. UNCHANGED <<settingsActive, connects, cache>>
        BY <1>8 DEF Answer
    <2>4. ASSUME settingsActive', NEW d \in Clients, Context(d)' \in cache'
          PROVE LineUp(d, Different)' /\ \A m \in Callbacks : Given(d, m)' => m \in completedOutIndexes'
        <3>1. Context(d)' = Context(d)
            BY <2>3 DEF Context
        <3>2. LineKept(d)
            BY <1>a, <3>1, LineNext
        <3>3. LineUp(d, Different) /\ \A m \in Callbacks : Given(d, m) => m \in completedOutIndexes
            BY <2>3, <2>4, <3>1 DEF Once, GivenTaken
        <3>4. \A m : Adds(d, m) => m \in Taken
            BY DEF Adds
        <3>5. \A m, n : Given(d, m) /\ Adds(d, n) => <<m, n>> \in Different
            <4>1. \A m : Given(d, m) => m \in Callbacks
                BY <1>a, GivenIs
            <4> QED
                BY <2>2, <3>3, <3>4, <4>1 DEF Different
        <3>6. \A m, n : Adds(d, m) /\ Adds(d, n) /\ <<m, n>> \in Timestamps => <<m, n>> \in Different
            <4>1. \A m \in Callbacks : <<m, m>> \notin Timestamps
                BY TimestampsOrder, CallbacksAre
            <4> QED
                BY <2>2, <3>4, <4>1 DEF Different
        <3>7. LineUp(d, Different)'
            BY <3>2, <3>3, <3>5, <3>6 DEF LineKept
        <3>8. \A m \in Callbacks : Given(d, m)' => m \in completedOutIndexes'
            BY <2>1, <3>2, <3>3, <3>4 DEF LineKept
        <3> QED
            BY <3>7, <3>8
    <2> QED
        BY <2>4 DEF GivenTaken
<1>9. ASSUME LoadThrows PROVE GivenTaken'
    BY <1>9, <1>c DEF LoadThrows
<1>10. ASSUME SendBackResponses PROVE GivenTaken'
    BY <1>10, <1>c DEF SendBackResponses
<1>11. ASSUME SendBack PROVE GivenTaken'
    BY <1>11, <1>c DEF SendBack
<1>12. ASSUME Activate PROVE GivenTaken'
    <2>1. ~settingsActive /\ \A x : ~Doomed(x)
        BY <1>12, <1>a DEF Activate, isActive, TypeInv, Switched, Doomed
    <2>2. UNCHANGED <<connects, cache, messages, result, tasks>>
        BY <1>12 DEF Activate
    <2>3. ASSUME NEW d \in Clients, Context(d)' \in cache'
          PROVE LineUp(d, Different)' /\ \A m \in Callbacks : Given(d, m)' => m \in completedOutIndexes'
        <3>1. Context(d)' = Context(d) /\ Context(d) \in cache
            BY <2>2, <2>3 DEF Context
        <3>2. \A m \in Callbacks : ~Given(d, m)
            BY <2>1, <3>1 DEF Once, NoneLeft
        <3>3. \A m : ~Given(d, m)
            BY <1>a, <3>2, GivenIs
        <3>4. LineUp(d, Different)
            BY <3>3, LinedDrops DEF Given, LineUp
        <3> QED
            BY <2>2, <3>1, <3>3, <3>4 DEF Given, LineUp
    <2> QED
        BY <2>3 DEF GivenTaken
<1>13. ASSUME Waited PROVE GivenTaken'
    BY <1>13, <1>c DEF Waited
<1>14. ASSUME WaitTimesOut PROVE GivenTaken'
    BY <1>14, <1>c DEF WaitTimesOut, BeginsReset
<1>15. ASSUME LoadIndexes PROVE GivenTaken'
    BY <1>15, <1>c DEF LoadIndexes, BeginsReset
<1>16. ASSUME Deactivate PROVE GivenTaken'
    BY <1>16 DEF Deactivate, GivenTaken
<1>17. ASSUME Unload PROVE GivenTaken'
    BY <1>17, <1>c DEF Unload, BeginsReset
<1>18. ASSUME DisconnectAll PROVE GivenTaken'
    <2>1. cache' \subseteq cache
        BY <1>18 DEF DisconnectAll
    <2> QED
        BY <1>18, <1>c, <2>1 DEF DisconnectAll
<1>19. ASSUME HandleEvent PROVE GivenTaken'
    BY <1>19, <1>c DEF HandleEvent
<1>20. CASE UNCHANGED vars
    BY <1>20, <1>c DEF vars, plugin, storage, switch, clients, thread, ghosts
<1> QED
    BY <1>1, <1>2, <1>3, <1>4, <1>5, <1>6, <1>7, <1>8, <1>9, <1>10,
       <1>11, <1>12, <1>13, <1>14, <1>15, <1>16, <1>17, <1>18, <1>19, <1>20 DEF Next, Execute, Switching

LEMMA NoneNext == CallInv /\ Once /\ [Next]_vars => NoneLeft'
<1> SUFFICES ASSUME CallInv, Once, [Next]_vars PROVE NoneLeft'
    OBVIOUS
<1> USE DEF thread, clients, plugin, switch
<1>a. TypeInv
    BY DEF CallInv
<1>c. ASSUME ~settingsActive, NEW d \in Clients, Context(d)' = Context(d), Context(d) \in cache,
             ~Doomed(Context(d)), \A n : ~Adds(d, n),
             ~InCall' \/ (InCall /\ subscribed'[d] = subscribed[d])
      PROVE  (\A m \in Callbacks : ~Given(d, m)') /\ (InCall' => subscribed'[d] = {})
    <2>1. LineKept(d)
        BY <1>a, <1>c, LineNext
    <2>2. (\A m \in Callbacks : ~Given(d, m)) /\ (InCall => subscribed[d] = {})
        BY <1>c DEF Once, NoneLeft
    <2> QED
        BY <1>c, <2>1, <2>2 DEF LineKept
<1>d. ASSUME UNCHANGED <<settingsActive, connects>>, cache' \subseteq cache,
             pc # "load" \/ pc' = pc \/ ~repo,
             \A x \in cache' : Doomed(x) => Doomed(x)',
             settingsActive \/ ~InCall' \/ (InCall /\ subscribed' = subscribed)
      PROVE  NoneLeft'
    <2>1. \A d, n : ~Adds(d, n)
        BY <1>d, AddsNone
    <2>2. \A d \in Clients : Context(d)' = Context(d)
        BY <1>d DEF Context
    <2>3. ASSUME ~settingsActive', NEW d \in Clients, Context(d) \in cache', ~Doomed(Context(d))'
          PROVE (\A m \in Callbacks : ~Given(d, m)') /\ (InCall' => subscribed'[d] = {})
        <3>1. PICK x : x = Context(d)
            OBVIOUS
        <3>2. ~Doomed(x)'
            BY <1>d, <2>2, <2>3, <3>1 DEF Doomed
        <3>3. ~Doomed(Context(d))
            BY <1>d, <2>3, <3>1, <3>2
        <3> QED
            BY <1>c, <1>d, <2>1, <2>2, <2>3, <3>3
    <2> QED
        BY <2>2, <2>3 DEF NoneLeft
<1>e. ASSUME UNCHANGED <<switchPc, toReset>> PROVE \A x : Doomed(x) => Doomed(x)'
    BY <1>e DEF Doomed
<1>1. ASSUME NEW c \in Clients, Connect(c) PROVE NoneLeft'
    <2>1. \A d, n : ~Adds(d, n)
        BY <1>1, AddsNone DEF Connect
    <2>2. settingsActive' = settingsActive /\ (InCall' <=> InCall) /\ toReset \subseteq toReset'
          /\ switchPc' = switchPc
        BY <1>1 DEF Connect, InCall
    <2>3. ASSUME ~settingsActive', NEW d \in Clients, Context(d)' \in cache', ~Doomed(Context(d))'
          PROVE (\A m \in Callbacks : ~Given(d, m)') /\ (InCall' => subscribed'[d] = {})
        <3>1. CASE d = c
            BY <1>1, <1>a, <3>1, ConnectsEmpty
        <3>2. CASE d # c
            <4>1. Context(d)' = Context(d) /\ Context(d) \in cache /\ subscribed'[d] = subscribed[d]
                BY <1>1, <1>a, <2>3, <3>2, ConnectsEmpty
            <4>2. ~Doomed(Context(d))
                BY <2>2, <2>3, <4>1 DEF Doomed
            <4> QED
                BY <1>c, <2>1, <2>2, <2>3, <4>1, <4>2
        <3> QED
            BY <3>1, <3>2
    <2> QED
        BY <2>3 DEF NoneLeft
<1>2. ASSUME NEW c \in Clients, Call(c) PROVE NoneLeft'
    BY <1>2, <1>d, <1>e DEF Call, InCall, Idle
<1>3. ASSUME React PROVE NoneLeft'
    BY <1>3, <1>d, <1>e DEF React, InCall
<1>4. ASSUME RunSteps PROVE NoneLeft'
    <2>1. settingsActive \/ ~InCall'
        BY <1>4 DEF RunSteps, isActive, InCall
    <2> QED
        BY <1>4, <1>d, <1>e, <2>1 DEF RunSteps
<1>5. ASSUME FindIndex PROVE NoneLeft'
    BY <1>5, <1>d, <1>e DEF FindIndex, InCall, Idle
<1>6. ASSUME FindIndexThrows PROVE NoneLeft'
    BY <1>6, <1>d, <1>e DEF FindIndexThrows, InCall, Idle
<1>7. ASSUME Mark PROVE NoneLeft'
    BY <1>7, <1>d, <1>e DEF Mark, InCall, Idle
<1>8. ASSUME Answer PROVE NoneLeft'
    <2>1. UNCHANGED <<settingsActive, connects, cache, subscribed, switchPc, toReset>> /\ InCall /\ ~InCall'
        BY <1>8 DEF Answer, Idle, InCall
    <2>2. ASSUME ~settingsActive', NEW d \in Clients, Context(d) \in cache', ~Doomed(Context(d))'
          PROVE \A m \in Callbacks : ~Given(d, m)'
        <3>1. Context(d)' = Context(d)
            BY <2>1 DEF Context
        <3>2. ~Doomed(Context(d))
            BY <2>1, <2>2, <3>1 DEF Doomed
        <3>3. (\A m \in Callbacks : ~Given(d, m)) /\ subscribed[d] = {}
            BY <2>1, <2>2, <3>2 DEF Once, NoneLeft
        <3>4. \A n : ~Adds(d, n)
            BY <3>3 DEF Adds, Subscribers, Context
        <3> QED
            BY <1>c, <2>1, <2>2, <3>1, <3>2, <3>4
    <2> QED
        BY <2>1, <2>2 DEF NoneLeft, Context
<1>9. ASSUME LoadThrows PROVE NoneLeft'
    BY <1>9, <1>d, <1>e DEF LoadThrows, InCall, Idle
<1>10. ASSUME SendBackResponses PROVE NoneLeft'
    BY <1>10, <1>d, <1>e DEF SendBackResponses, InCall, Idle
<1>11. ASSUME SendBack PROVE NoneLeft'
    BY <1>11, <1>d, <1>e DEF SendBack, InCall, Idle
<1>12. ASSUME Activate PROVE NoneLeft'
    BY <1>12 DEF Activate, NoneLeft
<1>13. ASSUME Waited PROVE NoneLeft'
    <2>1. settingsActive /\ settingsActive'
        BY <1>13, <1>a DEF Waited, TypeInv, Switched
    <2> QED
        BY <2>1 DEF NoneLeft
<1>14. ASSUME WaitTimesOut PROVE NoneLeft'
    <2>1. settingsActive /\ settingsActive'
        BY <1>14, <1>a DEF WaitTimesOut, TypeInv, Switched
    <2> QED
        BY <2>1 DEF NoneLeft
<1>15. ASSUME LoadIndexes PROVE NoneLeft'
    <2>1. settingsActive /\ settingsActive'
        BY <1>15, <1>a DEF LoadIndexes, TypeInv, Switched
    <2> QED
        BY <2>1 DEF NoneLeft
<1>16. ASSUME Deactivate PROVE NoneLeft'
    BY <1>16 DEF Deactivate, NoneLeft, Doomed
<1>17. ASSUME Unload PROVE NoneLeft'
    BY <1>17 DEF Unload, BeginsReset, NoneLeft, Doomed
<1>18. ASSUME DisconnectAll PROVE NoneLeft'
    <2>1. cache' \subseteq cache
        BY <1>18 DEF DisconnectAll
    <2>2. \A x \in cache' : Doomed(x) => Doomed(x)'
        BY <1>18 DEF DisconnectAll, Doomed
    <2> QED
        BY <1>18, <1>d, <2>1, <2>2 DEF DisconnectAll, InCall
<1>19. ASSUME HandleEvent PROVE NoneLeft'
    BY <1>19, <1>d, <1>e DEF HandleEvent, InCall, Idle
<1>20. CASE UNCHANGED vars
    BY <1>20, <1>d, <1>e DEF vars, plugin, storage, switch, clients, thread, ghosts, InCall
<1> QED
    BY <1>1, <1>2, <1>3, <1>4, <1>5, <1>6, <1>7, <1>8, <1>9, <1>10,
       <1>11, <1>12, <1>13, <1>14, <1>15, <1>16, <1>17, <1>18, <1>19, <1>20 DEF Next, Execute, Switching

(* Only calls of the session take callbacks.                               *)
LEMMA TakersNext == CallInv /\ Once /\ Takers /\ [Next]_vars => Takers'
<1> SUFFICES ASSUME CallInv, Once, Takers, [Next]_vars PROVE Takers'
    OBVIOUS
<1> USE DEF thread, clients, plugin, switch, ghosts
<1>a. TypeInv /\ TakesLines
    BY DEF CallInv
<1>b. ASSUME UNCHANGED <<settingsActive, completedOutIndexes, connects, indexes, mode, subscribed, fresh>>,
             cache' \subseteq cache, disturbed' \/ ~disturbed,
             pc' # "load" \/ (task.ctx \in fresh /\ task' = task) \/ UNCHANGED <<pc, task>>
      PROVE  Takers'
    <2> SUFFICES ASSUME settingsActive, ~disturbed PROVE Takers'
        BY <1>b DEF Takers
    <2>1. pc' = "load" /\ task'.ctx \notin fresh' => pc = "load" /\ task.ctx \notin fresh
        BY <1>b
    <2> QED
        BY <1>b, <2>1 DEF Takers, Context, Plays
<1>c. ASSUME disturbed' \/ ~settingsActive' PROVE Takers'
    BY <1>c DEF Takers
<1>1. ASSUME NEW c \in Clients, Connect(c) PROVE Takers'
    <2> SUFFICES ASSUME settingsActive, ~disturbed PROVE Takers'
        BY <1>1 DEF Connect, Takers
    <2>1. UNCHANGED <<completedOutIndexes, indexes, mode, pc, task>> /\ fresh \subseteq fresh'
        BY <1>1 DEF Connect
    <2>2. ASSUME pc' = "load", task'.ctx \notin fresh', NEW d \in Clients, Context(d)' \in cache'
          PROVE  subscribed'[d] = {}
        <3>1. pc = "load" /\ task.ctx \notin fresh
            BY <2>1, <2>2
        <3>2. CASE d = c
            BY <1>1, <1>a, <3>2, ConnectsEmpty
        <3>3. CASE d # c
            <4>1. Context(d)' = Context(d) /\ Context(d) \in cache /\ subscribed'[d] = subscribed[d]
                BY <1>1, <1>a, <2>2, <3>3, ConnectsEmpty
            <4> QED
                BY <3>1, <4>1 DEF Takers
        <3> QED
            BY <3>2, <3>3
    <2>3. completedOutIndexes' # {} => fresh' # {} /\ Plays'
        BY <2>1 DEF Takers, Plays
    <2> QED
        BY <2>2, <2>3 DEF Takers
<1>2. ASSUME NEW c \in Clients, Call(c) PROVE Takers'
    BY <1>2, <1>b DEF Call
<1>3. ASSUME React PROVE Takers'
    <2>1. pc' # "load" /\ UNCHANGED <<completedOutIndexes, fresh, indexes, mode, settingsActive, disturbed>>
        BY <1>3 DEF React
    <2> QED
        BY <2>1 DEF Takers, Plays
<1>4. ASSUME RunSteps PROVE Takers'
    <2>1. pc' # "load"
        BY <1>4 DEF RunSteps, Idle
    <2>2. UNCHANGED <<settingsActive, completedOutIndexes, connects, indexes, mode, subscribed, fresh, cache, disturbed>>
        BY <1>4 DEF RunSteps
    <2> QED
        BY <1>4, <1>b, <2>1, <2>2
<1>5. ASSUME FindIndex PROVE Takers'
    <2>1. pc' # "load"
        BY <1>5 DEF FindIndex, Idle
    <2>2. UNCHANGED <<settingsActive, completedOutIndexes, connects, indexes, mode, subscribed, fresh, cache, disturbed>>
        BY <1>5 DEF FindIndex
    <2> QED
        BY <1>5, <1>b, <2>1, <2>2
<1>6. ASSUME FindIndexThrows PROVE Takers'
    BY <1>6, <1>c DEF FindIndexThrows
<1>7. ASSUME Mark PROVE Takers'
    <2>1. disturbed' \/ task.ctx \in fresh
        BY <1>7 DEF Mark
    <2>2. CASE disturbed'
        BY <1>c, <2>2
    <2>3. CASE task.ctx \in fresh /\ ~disturbed'
        BY <1>7, <1>b, <2>3 DEF Mark
    <2> QED
        BY <2>1, <2>2, <2>3
<1>8. ASSUME Answer PROVE Takers'
    <2>1. /\ pc = "load" /\ pc' # "load" /\ completedOutIndexes' = completedOutIndexes \cup Taken
          /\ UNCHANGED <<fresh, indexes, mode, settingsActive, disturbed>>
        BY <1>8, <1>a, AnswerIs DEF Answer, Idle, TypeInv
    <2>2. ASSUME settingsActive, ~disturbed, NEW m \in Taken PROVE fresh # {} /\ Plays
        <3>1. PICK x : x \in cache /\ Recorded[m].queue \in subscribed[x[1]]
            BY DEF Taken, Subscribers
        <3>2. x[1] \in Clients /\ x = Context(x[1])
            BY <1>a, <3>1, ContextsAre DEF TypeInv, Typed, TypedFlags, Opened
        <3>3. task.ctx \in fresh
            BY <2>1, <2>2, <3>1, <3>2 DEF Takers
        <3> QED
            BY <1>a, <2>1, <3>3 DEF TakesLines
    <2>3. settingsActive /\ ~disturbed /\ completedOutIndexes' # {} => fresh # {} /\ Plays
        BY <2>1, <2>2 DEF Takers
    <2> QED
        BY <2>1, <2>3 DEF Takers, Plays
<1>9. ASSUME LoadThrows PROVE Takers'
    BY <1>9, <1>c DEF LoadThrows
<1>10. ASSUME SendBackResponses PROVE Takers'
    BY <1>10, <1>b DEF SendBackResponses, Idle
<1>11. ASSUME SendBack PROVE Takers'
    <2>1. pc' # "load"
        BY <1>11 DEF SendBack, Idle
    <2>2. UNCHANGED <<settingsActive, completedOutIndexes, connects, indexes, mode, subscribed, fresh, cache, disturbed>>
        BY <1>11 DEF SendBack
    <2> QED
        BY <1>b, <2>1, <2>2
<1>12. ASSUME Activate PROVE Takers'
    <2>1. ~settingsActive /\ \A x : ~Doomed(x)
        BY <1>12, <1>a DEF Activate, isActive, TypeInv, Switched, Doomed
    <2>2. UNCHANGED <<connects, cache, subscribed, pc>> /\ completedOutIndexes' = {}
        BY <1>12 DEF Activate
    <2>3. \A d \in Clients : pc = "load" /\ Context(d) \in cache => subscribed[d] = {}
        BY <2>1 DEF Once, NoneLeft, InCall
    <2> QED
        BY <2>2, <2>3 DEF Takers, Context
<1>13. ASSUME Waited PROVE Takers'
    BY <1>13, <1>b DEF Waited
<1>14. ASSUME WaitTimesOut PROVE Takers'
    BY <1>14, <1>b DEF WaitTimesOut, BeginsReset
<1>15. ASSUME LoadIndexes PROVE Takers'
    <2>1. fresh = {}
        BY <1>15, <1>a DEF LoadIndexes, TypeInv, Switched
    <2>2. UNCHANGED <<settingsActive, completedOutIndexes, connects, subscribed, fresh, cache, disturbed, pc, task>>
        BY <1>15 DEF LoadIndexes
    <2> QED
        BY <2>1, <2>2 DEF Takers, Context
<1>16. ASSUME Deactivate PROVE Takers'
    BY <1>16, <1>c DEF Deactivate
<1>17. ASSUME Unload PROVE Takers'
    <2>1. ~settingsActive'
        BY <1>17, <1>a DEF Unload, TypeInv, Switched
    <2> QED
        BY <1>c, <2>1
<1>18. ASSUME DisconnectAll PROVE Takers'
    <2>1. cache' \subseteq cache
        BY <1>18 DEF DisconnectAll
    <2> QED
        BY <1>18, <1>b, <2>1 DEF DisconnectAll
<1>19. ASSUME HandleEvent PROVE Takers'
    BY <1>19, <1>b DEF HandleEvent
<1>20. CASE UNCHANGED vars
    BY <1>20, <1>b DEF vars, plugin, storage, switch, clients, thread, ghosts
<1> QED
    BY <1>1, <1>2, <1>3, <1>4, <1>5, <1>6, <1>7, <1>8, <1>9, <1>10,
       <1>11, <1>12, <1>13, <1>14, <1>15, <1>16, <1>17, <1>18, <1>19, <1>20 DEF Next, Execute, Switching

LEMMA OnceNext == OnceInv /\ [Next]_vars => OnceInv'
<1>1. OnceInv /\ [Next]_vars => CallInv'
    BY CallNext DEF OnceInv
<1>2. OnceInv /\ [Next]_vars => Once'
    BY TwiceNext, TakenNext, NoneNext DEF OnceInv, CallInv, Once
<1>3. OnceInv /\ [Next]_vars => Takers'
    BY TakersNext DEF OnceInv
<1> QED
    BY <1>1, <1>2, <1>3 DEF OnceInv

LEMMA OnceInit == Init => OnceInv
<1> SUFFICES ASSUME Init PROVE OnceInv
    OBVIOUS
<1>1. CallInv
    BY CallInit
<1>2. settingsActive /\ cache = {} /\ completedOutIndexes = {} /\ pc = "idle"
    BY DEF Init
<1>3. \A c \in Clients : messages[c] = <<>>
    BY DEF Init
<1>4. DOMAIN <<>> = {}
    OBVIOUS
<1>5. NeverTwice
    BY <1>3, <1>4 DEF NeverTwice
<1>6. GivenTaken /\ NoneLeft
    BY <1>2 DEF GivenTaken, NoneLeft
<1>7. Takers
    BY <1>2 DEF Takers
<1> QED
    BY <1>1, <1>5, <1>6, <1>7 DEF OnceInv, Once

(* While contexts of the session are open, a step leaves the session as it *)
(* is, but for what is added to it.                                        *)
Steady ==
    /\ UNCHANGED <<mode, active, settingsActive, indexes, switchPc>>
    /\ settingsActive /\ active /\ switchPc = "idle"
    /\ ~disturbed' => ~disturbed
    /\ completedIndexes \subseteq completedIndexes' /\ completedOutIndexes \subseteq completedOutIndexes'
    /\ cache \subseteq cache' /\ fresh \subseteq fresh'
    /\ \A d \in Clients : Context(d) \in cache => Stays(d)
    /\ \A d \in Clients : d \in Fresh => d \in Fresh'
    /\ \A d \in Clients : d \in Fresh' => d \in Fresh \/ Connect(d)

LEMMA Session ==
    TypeInv /\ [Next]_vars /\ Fresh' # {} => Steady
<1> SUFFICES ASSUME TypeInv, [Next]_vars, Fresh' # {} PROVE Steady
    OBVIOUS
<1> USE DEF thread, clients, plugin, switch, ghosts
<1>a. fresh' # {}
    BY DEF Fresh
<1>b. switchPc' = "idle" /\ active' /\ settingsActive'
    <2>1. Switched'
        BY SwitchedNext
    <2>2. switchPc' = "idle" /\ active'
        BY <1>a, <2>1 DEF Switched
    <2>3. settingsActive'
        BY <2>1, <2>2 DEF Switched
    <2> QED
        BY <2>2, <2>3
<1>c. ASSUME fresh' = fresh, cache' = cache,
             UNCHANGED <<mode, active, settingsActive, indexes, switchPc>>,
             ~disturbed' => ~disturbed,
             completedIndexes \subseteq completedIndexes', completedOutIndexes \subseteq completedOutIndexes'
      PROVE  Steady
    <2>1. \A d \in Clients : Context(d) \in cache => Stays(d)
        BY <1>a, <1>c, AnswersStay
    <2>2. \A d \in Clients : d \in Fresh => d \in Fresh'
        BY <1>c, <2>1 DEF Fresh, Stays
    <2>3. ASSUME NEW d \in Clients, d \in Fresh', d \notin Fresh PROVE FALSE
        <3>1. Context(d)' \in cache /\ Context(d)' \in fresh
            BY <1>c, <2>3 DEF Fresh
        <3>2. Context(d)' = Context(d)
            <4>1. Context(d)' = Context((Context(d)')[1])
                BY <3>1 DEF TypeInv, Opened
            <4> QED
                BY <4>1 DEF Context
        <3> QED
            BY <2>3, <3>1, <3>2 DEF Fresh
    <2> QED
        BY <1>b, <1>c, <2>1, <2>2, <2>3 DEF Steady
<1>1. ASSUME NEW c \in Clients, Connect(c) PROVE Steady
    <2>1. /\ UNCHANGED <<mode, active, settingsActive, indexes, switchPc, disturbed, completedIndexes, completedOutIndexes>>
          /\ cache \subseteq cache' /\ fresh \subseteq fresh' /\ Context(c) \notin cache
          /\ cache' = cache \cup {<<c, connects[c] + 1>>}
          /\ (fresh' = fresh \/ fresh' = fresh \cup {<<c, connects[c] + 1>>})
        BY <1>1 DEF Connect
    <2>2. \A d \in Clients : d # c => Context(d)' = Context(d) /\ answers'[d] = answers[d]
        BY <1>1, ConnectsEmpty
    <2>3. \A d \in Clients : Len(answers[d]) \in Nat
        BY DEF TypeInv, Typed, TypedClients
    <2>4. \A d \in Clients : Context(d) \in cache => Stays(d)
        BY <2>1, <2>2, <2>3 DEF Stays
    <2>5. \A d \in Clients : d \in Fresh => d \in Fresh'
        BY <2>1, <2>4 DEF Fresh, Stays
    <2>6. ASSUME NEW d \in Clients, d \in Fresh', d # c PROVE d \in Fresh
        <3>1. Context(d) # <<c, connects[c] + 1>>
            BY <2>6 DEF Context
        <3> QED
            BY <2>1, <2>2, <2>6, <3>1 DEF Fresh
    <2>7. \A d \in Clients : d \in Fresh' => d \in Fresh \/ Connect(d)
        BY <1>1, <2>6
    <2> QED
        BY <1>b, <2>1, <2>4, <2>5, <2>7 DEF Steady
<1>2. ASSUME NEW c \in Clients, Call(c) PROVE Steady
    BY <1>2, <1>c DEF Call
<1>3. ASSUME React PROVE Steady
    BY <1>3, <1>c DEF React
<1>4. ASSUME RunSteps PROVE Steady
    BY <1>4, <1>c DEF RunSteps
<1>5. ASSUME FindIndex PROVE Steady
    BY <1>5, <1>c DEF FindIndex
<1>6. ASSUME FindIndexThrows PROVE Steady
    BY <1>6, <1>c DEF FindIndexThrows
<1>7. ASSUME Mark PROVE Steady
    <2>1. ~disturbed' => ~disturbed
        BY <1>7 DEF Mark
    <2> QED
        BY <1>7, <1>c, <2>1 DEF Mark
<1>8. ASSUME Answer PROVE Steady
    <2>1. completedOutIndexes \subseteq completedOutIndexes'
        BY <1>8, AnswerIs DEF TypeInv
    <2> QED
        BY <1>8, <1>c, <2>1 DEF Answer
<1>9. ASSUME LoadThrows PROVE Steady
    BY <1>9, <1>c DEF LoadThrows
<1>10. ASSUME SendBackResponses PROVE Steady
    BY <1>10, <1>c DEF SendBackResponses
<1>11. ASSUME SendBack PROVE Steady
    BY <1>11, <1>c DEF SendBack
<1>12. ASSUME Activate PROVE Steady
    BY <1>12, <1>a DEF Activate
<1>13. ASSUME Waited PROVE Steady
    BY <1>13, <1>b DEF Waited, BeginsReset
<1>14. ASSUME WaitTimesOut PROVE Steady
    BY <1>14, <1>b DEF WaitTimesOut, BeginsReset
<1>15. ASSUME LoadIndexes PROVE Steady
    BY <1>15, <1>b DEF LoadIndexes, BeginsReset
<1>16. ASSUME Deactivate PROVE Steady
    BY <1>16, <1>a DEF Deactivate
<1>17. ASSUME Unload PROVE Steady
    BY <1>17, <1>b DEF Unload, BeginsReset
<1>18. ASSUME DisconnectAll PROVE Steady
    <2>1. fresh' = fresh /\ switchPc = "reset"
        BY <1>18 DEF DisconnectAll
    <2> QED
        BY <1>a, <2>1 DEF TypeInv, Switched
<1>19. ASSUME HandleEvent PROVE Steady
    BY <1>19, <1>c DEF HandleEvent
<1>20. CASE UNCHANGED vars
    BY <1>20, <1>c DEF vars, plugin, storage, switch, clients, thread, ghosts
<1> QED
    BY <1>1, <1>2, <1>3, <1>4, <1>5, <1>6, <1>7, <1>8, <1>9, <1>10,
       <1>11, <1>12, <1>13, <1>14, <1>15, <1>16, <1>17, <1>18, <1>19, <1>20 DEF Next, Execute, Switching

(* A task moves up in the queue, and others come after it.                 *)
LEMMA AheadMoves ==
    ASSUME NEW ctx, NEW q \in Seq(AnyTask), NEW t \in Nat, Ahead(ctx, q, t)
    PROVE  /\ q # <<>> => \/ q[1].ctx = ctx /\ q[1].do = "steps" /\ t > 1
                          \/ Ahead(ctx, Tail(q), t - 1)
           /\ \A b \in AnyTask : Ahead(ctx, Append(q, b), t)
           /\ Ahead(ctx, q, t + 1) /\ Ahead(ctx, q, Len(q) + 1)
<1>1. PICK i \in DOMAIN q : i < t /\ q[i].ctx = ctx /\ q[i].do = "steps"
    BY DEF Ahead
<1>2. i \in Nat /\ Len(q) \in Nat /\ i < Len(q) + 1 /\ i < t + 1 /\ i >= 1
    BY <1>1
<1>3. ASSUME q # <<>>, i # 1 PROVE Ahead(ctx, Tail(q), t - 1)
    <2>1. PICK s : s = Tail(q)
        OBVIOUS
    <2>2. PICK h \in DOMAIN s : i = h + 1 /\ s[h] = q[i]
        BY <1>1, <1>3, <2>1, Shifted
    <2>3. h \in Nat
        BY <1>3, <2>1, <2>2, Shifted
    <2>4. h < t - 1
        BY <1>1, <1>2, <2>2, <2>3
    <2> QED
        BY <1>1, <2>1, <2>2, <2>4 DEF Ahead
<1>4. ASSUME NEW b \in AnyTask PROVE Ahead(ctx, Append(q, b), t)
    <2>1. PICK s : s = Append(q, b)
        OBVIOUS
    <2>2. i \in DOMAIN s /\ s[i] = q[i]
        BY <1>1, <2>1, Appended
    <2> QED
        BY <1>1, <2>1, <2>2 DEF Ahead
<1>5. i = 1 => q[1].ctx = ctx /\ q[1].do = "steps" /\ t > 1
    BY <1>1, <1>2
<1> QED
    BY <1>1, <1>2, <1>3, <1>4, <1>5 DEF Ahead

(* A call that is under way stays so, or is answered, and what is ahead of *)
(* a place in the queue stays ahead.                                       *)
Pops == React \/ RunSteps \/ SendBackResponses
Keeps ==
    \/ \E c \in Clients : Connect(c) \/ Call(c)
    \/ FindIndex \/ Mark \/ Answer \/ SendBack \/ HandleEvent \/ UNCHANGED vars

(* The steps that are possible while contexts of the session are open.     *)
LEMMA StepsAre ==
    ASSUME Steady, Fresh' # {}, ~disturbed', [Next]_vars
    PROVE  Pops \/ Keeps
<1> USE DEF plugin, switch, ghosts
<1>1. ~FindIndexThrows /\ ~LoadThrows
    BY DEF FindIndexThrows, LoadThrows
<1>2. ~Activate /\ ~Deactivate
    BY DEF Activate, Deactivate, Fresh
<1>3. ~Waited /\ ~WaitTimesOut /\ ~LoadIndexes /\ ~Unload /\ ~DisconnectAll
    BY DEF Steady, Waited, WaitTimesOut, LoadIndexes, Unload, DisconnectAll
<1> QED
    BY <1>1, <1>2, <1>3 DEF Pops, Keeps, Next, Execute, Switching

LEMMA ReadyFacts ==
    ASSUME CallInv, [Next]_vars, NEW e \in Clients, e \in Fresh, e \in Fresh'
    PROVE  /\ TypeInv /\ CallInv' /\ Steady
           /\ Stays(e) /\ Context(e)' = Context(e) /\ Len(answers[e]) \in Nat /\ Len(answers'[e]) \in Nat
           /\ Len(answers[e]) <= Len(answers'[e])
           /\ tasks \in Seq(AnyTask) /\ pos[e] \in Nat /\ Context(e) \in Contexts
           /\ (task.ctx = Context(e) => InCall)
           /\ \A k, t : k <= Len(answers[e]) /\ k \in Nat => Ready(e, k, t)'
<1>1. TypeInv /\ CallInv' /\ Steady
    BY CallNext, Session DEF CallInv
<1>2. /\ Stays(e) /\ Context(e)' = Context(e) /\ Len(answers[e]) \in Nat /\ Len(answers'[e]) \in Nat
      /\ Len(answers[e]) <= Len(answers'[e])
      /\ tasks \in Seq(AnyTask) /\ pos[e] \in Nat /\ Context(e) \in Contexts
    BY <1>1 DEF Steady, Fresh, Stays, TypeInv, Typed, TypedThread, TypedClients, TypedFlags
<1>3. task.ctx = Context(e) => InCall
    BY <1>1, <1>2, TaskIs DEF TypeInv, Hands
<1>4. ASSUME NEW k \in Nat, NEW t, k <= Len(answers[e]) PROVE Ready(e, k, t)'
    <2>1. k <= Len(answers'[e])
        BY <1>2, <1>4
    <2> QED
        BY <2>1 DEF Ready
<1> QED
    BY <1>1, <1>2, <1>3, <1>4

LEMMA ReadyPops ==
    ASSUME CallInv, [Next]_vars, NEW e \in Clients, e \in Fresh, e \in Fresh', ~disturbed', indexes # {},
           NEW k \in DOMAIN Program[e], NEW t \in Nat, Ready(e, k, t), Pops
    PROVE  Ready(e, k, t - 1)'
<1> USE DEF thread, clients, plugin, switch, ghosts
<1>a. TypeInv /\ CallInv' /\ Steady /\ k \in Nat /\ k <= Len(Program[e])
    BY ReadyFacts, ProgramIs
<1>b. /\ Context(e)' = Context(e) /\ Len(answers[e]) \in Nat /\ Len(answers'[e]) \in Nat
      /\ tasks \in Seq(AnyTask) /\ pos[e] \in Nat /\ Context(e) \in Contexts
    BY ReadyFacts
<1> SUFFICES ASSUME ~(k <= Len(answers[e])),
                    k = pos[e] /\ (task.ctx = Context(e) \/ Ahead(Context(e), tasks, t))
             PROVE  Ready(e, k, t - 1)'
    BY <1>a, ReadyFacts DEF Ready
<1>g. task.ctx = Context(e) => InCall
    BY ReadyFacts
<1>e. ASSUME pos'[e] = pos[e], task'.ctx = Context(e) \/ Ahead(Context(e), tasks', t - 1)
      PROVE  Ready(e, k, t - 1)'
    BY <1>b, <1>e DEF Ready
<1>1. ASSUME React PROVE Ready(e, k, t - 1)'
    <2>1. PICK b \in AnyTask : tasks' = Append(Tail(tasks), b)
        BY <1>1, <1>a, ReactIs
    <2>2. pc = "idle" /\ tasks # <<>> /\ tasks[1].do = "react" /\ UNCHANGED <<task, pos>> /\ Tail(tasks) \in Seq(AnyTask)
        BY <1>1, <1>a, <1>b, HeadIs, Rest DEF React
    <2>3. Ahead(Context(e), tasks, t)
        BY <1>g, <2>2 DEF InCall
    <2>4. Ahead(Context(e), Tail(tasks), t - 1)
        BY <1>b, <2>2, <2>3, AheadMoves
    <2>5. PICK i \in DOMAIN Tail(tasks) : i < t - 1 /\ Tail(tasks)[i].ctx = Context(e) /\ Tail(tasks)[i].do = "steps"
        BY <2>4 DEF Ahead
    <2>6. i \in DOMAIN tasks' /\ tasks'[i] = Tail(tasks)[i]
        <3>1. PICK q \in Seq(AnyTask) : q = Tail(tasks)
            BY <2>2
        <3> QED
            BY <2>1, <2>5, <3>1, Appended
    <2>7. Ahead(Context(e), tasks', t - 1)
        BY <2>5, <2>6 DEF Ahead
    <2> QED
        BY <1>1, <1>e, <2>2, <2>7
<1>2. ASSUME RunSteps PROVE Ready(e, k, t - 1)'
    <2>1. pc = "idle" /\ tasks # <<>> /\ tasks' = Tail(tasks) /\ pos' = pos /\ task' = Head(tasks)
        BY <1>2, <1>a DEF RunSteps, Steady, isActive
    <2>2. Ahead(Context(e), tasks, t)
        BY <1>g, <2>1 DEF InCall
    <2>3. tasks[1].ctx = Context(e) \/ Ahead(Context(e), Tail(tasks), t - 1)
        BY <1>b, <2>1, <2>2, AheadMoves
    <2>4. Head(tasks) = tasks[1]
        BY <1>a, <2>1, HeadIs
    <2> QED
        BY <1>2, <1>e, <2>1, <2>3, <2>4
<1>3. ASSUME SendBackResponses PROVE Ready(e, k, t - 1)'
    <2>1. pc = "idle" /\ tasks # <<>> /\ tasks' = Tail(tasks) /\ pos' = pos /\ task' = task /\ tasks[1].do = "callbacks"
        BY <1>3, <1>a, HeadIs DEF SendBackResponses
    <2>2. Ahead(Context(e), tasks, t)
        BY <1>g, <2>1 DEF InCall
    <2>3. Ahead(Context(e), Tail(tasks), t - 1)
        BY <1>b, <2>1, <2>2, AheadMoves
    <2> QED
        BY <1>3, <1>e, <2>1, <2>3
<1> QED
    BY <1>1, <1>2, <1>3 DEF Pops

LEMMA ReadyStays ==
    ASSUME CallInv, [Next]_vars, NEW e \in Clients, e \in Fresh, e \in Fresh', ~disturbed', indexes # {},
           NEW k \in DOMAIN Program[e], NEW t \in Nat, Ready(e, k, t), Keeps
    PROVE  Ready(e, k, t)'
<1> USE DEF thread, clients, plugin, switch, ghosts
<1>a. TypeInv /\ CallInv' /\ Steady /\ k \in Nat /\ k <= Len(Program[e])
    BY ReadyFacts, ProgramIs
<1>b. /\ Context(e)' = Context(e) /\ Len(answers[e]) \in Nat /\ Len(answers'[e]) \in Nat
      /\ tasks \in Seq(AnyTask) /\ pos[e] \in Nat /\ Context(e) \in Contexts
    BY ReadyFacts
<1> SUFFICES ASSUME ~(k <= Len(answers[e])),
                    k = pos[e] /\ (task.ctx = Context(e) \/ Ahead(Context(e), tasks, t))
             PROVE  Ready(e, k, t)'
    BY <1>a, ReadyFacts DEF Ready
<1>g. task.ctx = Context(e) => InCall
    BY ReadyFacts
<1>d. ASSUME pos'[e] = pos[e], task'.ctx = Context(e) \/ Ahead(Context(e), tasks', t)
      PROVE  Ready(e, k, t)'
    BY <1>b, <1>d DEF Ready
<1>h. ASSUME task.ctx = Context(e), task'.ctx = <<>>, pos' = pos,
             tasks' = tasks \/ \E b \in AnyTask : b.ctx = <<>> /\ tasks' = Append(tasks, b)
      PROVE  Ready(e, k, t)'
    <2>1. \A i \in DOMAIN tasks : tasks[i].ctx # Context(e)
        BY <1>h DEF CallInv, OneCall, Single
    <2>2. \A i \in DOMAIN tasks' : tasks'[i].ctx # Context(e)
        <3>1. CASE tasks' = tasks
            BY <2>1, <3>1
        <3>2. ASSUME NEW b \in AnyTask, b.ctx = <<>>, tasks' = Append(tasks, b)
              PROVE  \A i \in DOMAIN tasks' : tasks'[i].ctx # Context(e)
            <4>1. \A i \in DOMAIN tasks' : (i \in DOMAIN tasks /\ tasks'[i] = tasks[i]) \/ tasks'[i] = b
                BY <1>b, <3>2, Appended
            <4> QED
                BY <1>b, <2>1, <3>2, <4>1, ContextsAre
        <3> QED
            BY <1>h, <3>1, <3>2
    <2>3. task'.ctx # Context(e)
        BY <1>b, <1>h, ContextsAre
    <2>4. ~Waits(e)'
        <3>1. Waits(e)' /\ pos'[e] <= Len(Program[e]) /\ ~disturbed' /\ indexes' # {}
                  => \/ task'.ctx = Context(e)'
                     \/ \E i \in DOMAIN tasks' : tasks'[i].ctx = Context(e)'
            BY <1>a DEF CallInv, NoCallLost, Fresh
        <3>2. indexes' # {} /\ pos'[e] <= Len(Program[e])
            BY <1>a, <1>b, <1>h DEF Steady
        <3> QED
            BY <1>b, <2>2, <2>3, <3>1, <3>2
    <2>5. k <= Len(answers'[e])
        BY <1>b, <1>h, <2>4 DEF Waits
    <2> QED
        BY <2>5 DEF Ready
<1>i. ASSUME task.ctx # Context(e), pos' = pos,
             tasks' = tasks \/ \E b \in AnyTask : tasks' = Append(tasks, b)
      PROVE  Ready(e, k, t)'
    BY <1>b, <1>d, <1>i, AheadMoves
<1>1. ASSUME NEW c \in Clients, Connect(c) PROVE Ready(e, k, t)'
    <2>1. e # c
        BY <1>1 DEF Connect, Fresh
    <2>2. pos'[e] = pos[e] /\ UNCHANGED <<task, tasks>>
        BY <1>1, <1>a, <2>1, ConnectsEmpty
    <2> QED
        BY <1>d, <2>2
<1>2. ASSUME NEW c \in Clients, Call(c) PROVE Ready(e, k, t)'
    <2>1. PICK b \in AnyTask : tasks' = Append(tasks, b)
        BY <1>2, <1>a, CallIs
    <2>2. ~Waits(c) /\ pos' = [pos EXCEPT ![c] = @ + 1] /\ task' = task
        BY <1>2 DEF Call
    <2>3. c # e
        BY <1>b, <2>2 DEF Waits
    <2>4. pos'[e] = pos[e]
        BY <1>a, <2>2, <2>3 DEF TypeInv, Typed, TypedClients
    <2> QED
        BY <1>b, <1>d, <2>1, <2>2, <2>4, AheadMoves
<1>3. ASSUME FindIndex PROVE Ready(e, k, t)'
    <2>1. pc = "find" /\ UNCHANGED <<pos, tasks>> /\ (task' = task \/ task' = Task)
        BY <1>3 DEF FindIndex, Idle
    <2> QED
        BY <1>d, <1>h, <1>i, <2>1, TaskIs
<1>4. ASSUME Mark PROVE Ready(e, k, t)'
    BY <1>4, <1>d DEF Mark
<1>5. ASSUME Answer PROVE Ready(e, k, t)'
    <2>1. pos' = pos /\ task' = Task
        BY <1>5 DEF Answer, Idle
    <2>2. tasks' = tasks \/ \E b \in AnyTask : b.ctx = <<>> /\ tasks' = Append(tasks, b)
        BY <1>5, <1>a, AnswerIs DEF TypeInv, Batch
    <2> QED
        BY <1>h, <1>i, <2>1, <2>2, TaskIs
<1>6. ASSUME SendBack PROVE Ready(e, k, t)'
    <2>1. UNCHANGED <<pos, tasks>> /\ (task' = task \/ task' = Task) /\ task = Task
        BY <1>6, <1>a DEF SendBack, Idle, TypeInv, Hands, InCall
    <2> QED
        BY <1>d, <2>1
<1>7. ASSUME HandleEvent PROVE Ready(e, k, t)'
    BY <1>7, <1>d DEF HandleEvent
<1>8. CASE UNCHANGED vars
    BY <1>8, <1>d DEF vars
<1> QED
    BY <1>1, <1>2, <1>3, <1>4, <1>5, <1>6, <1>7, <1>8 DEF Keeps

LEMMA AwaitedKept ==
    ASSUME CallInv, [Next]_vars, NEW e \in Clients, e \in Fresh, e \in Fresh', ~disturbed', indexes # {},
           NEW queue, NEW t \in Nat, Awaited(e, queue, t)
    PROVE  (Pops => Awaited(e, queue, t - 1)') /\ (Keeps => Awaited(e, queue, t)')
<1>1. PICK k \in DOMAIN Program[e] : Subscribes(e, k, queue) /\ Ready(e, k, t)
    BY DEF Awaited
<1>2. Pops => Ready(e, k, t - 1)'
    BY <1>1, ReadyPops
<1>3. Keeps => Ready(e, k, t)'
    BY <1>1, ReadyStays
<1> QED
    BY <1>1, <1>2, <1>3 DEF Awaited

(* What is ahead of some place is in the queue.                            *)
LEMMA AwaitedLast ==
    ASSUME NEW e \in Clients, NEW queue, NEW t \in Nat
    PROVE  /\ tasks \in Seq(AnyTask) /\ Awaited(e, queue, t) => Awaited(e, queue, Len(tasks) + 1)
           /\ (tasks \in Seq(AnyTask))' /\ Awaited(e, queue, t)' => Awaited(e, queue, Len(tasks) + 1)'
<1>1. ASSUME NEW ctx, NEW q \in Seq(AnyTask), Ahead(ctx, q, t) PROVE Ahead(ctx, q, Len(q) + 1)
    BY <1>1, AheadMoves
<1>2. tasks \in Seq(AnyTask) /\ Awaited(e, queue, t) => Awaited(e, queue, Len(tasks) + 1)
    BY <1>1 DEF Awaited, Ready
<1>3. (tasks \in Seq(AnyTask))' /\ Awaited(e, queue, t)' => Awaited(e, queue, Len(tasks) + 1)'
    BY <1>1 DEF Awaited, Ready
<1> QED
    BY <1>2, <1>3

LEMMA AwaitedNext ==
    ASSUME CallInv, [Next]_vars, NEW e \in Clients, e \in Fresh, e \in Fresh', ~disturbed', indexes # {},
           NEW queue, Awaited(e, queue, Len(tasks) + 1)
    PROVE  Awaited(e, queue, Len(tasks) + 1)'
<1>1. tasks \in Seq(AnyTask) /\ (tasks \in Seq(AnyTask))'
    BY ThreadNext DEF CallInv, TypeInv, Typed, TypedThread
<1>2. PICK t \in Nat : t = Len(tasks) + 1
    BY <1>1
<1>3. Awaited(e, queue, t) /\ t - 1 \in Nat
    <2>1. Len(tasks) \in Nat
        BY <1>1
    <2> QED
        BY <1>2, <2>1
<1>4. Pops \/ Keeps
    BY ReadyFacts, StepsAre
<1>5. Awaited(e, queue, t - 1)' \/ Awaited(e, queue, t)'
    BY <1>3, <1>4, AwaitedKept
<1> QED
    BY <1>1, <1>3, <1>5, AwaitedLast

(* A queue is in the context from the reaction to its subscription on.     *)
LEMMA SubscriptionsNext == CallInv /\ Subscriptions /\ [Next]_vars => Subscriptions'
<1> SUFFICES ASSUME CallInv, Subscriptions, [Next]_vars, ~disturbed', indexes' # {}, NEW e \in Clients, e \in Fresh',
                    NEW queue \in subscribed'[e]
             PROVE  Awaited(e, queue, Len(tasks) + 1)'
    BY DEF Subscriptions, Fresh
<1> USE DEF thread, clients, plugin, switch, ghosts
<1>a. TypeInv /\ Steady
    BY Session DEF CallInv
<1>b. CASE Connect(e)
    BY <1>a, <1>b, ConnectsEmpty
<1> SUFFICES ASSUME e \in Fresh PROVE Awaited(e, queue, Len(tasks) + 1)'
    BY <1>a, <1>b DEF Steady
<1>c. ~disturbed /\ indexes # {}
    BY <1>a DEF Steady
<1>d. CASE queue \in subscribed[e]
    <2>1. Awaited(e, queue, Len(tasks) + 1)
        BY <1>c, <1>d DEF Subscriptions
    <2> QED
        BY <1>c, <2>1, AwaitedNext
<1>e. CASE subscribed'[e] = subscribed[e]
    BY <1>d, <1>e
<1>f. CASE React
    <2> SUFFICES ASSUME queue \notin subscribed[e] PROVE Awaited(e, queue, Len(tasks) + 1)'
        BY <1>d
    <2>1. PICK h \in AnyTask : h = Head(tasks) /\ h = tasks[1] /\ h.ctx \in Contexts /\ h.call \in Calls
        BY <1>a, <1>f, HeadIs DEF React
    <2>2. h.ctx[1] \in Clients
        BY <2>1, ContextsAre
    <2>3. /\ Recorded[h.call].type = "Subscribe" /\ h.ctx = Context(h.ctx[1])
          /\ subscribed' = [subscribed EXCEPT ![h.ctx[1]] = IF mode.tagged THEN @ \cup {Recorded[h.call].queue}
                                                           ELSE {Recorded[h.call].queue}]
        BY <1>f, <2>1 DEF React
    <2>4. h.ctx[1] = e /\ queue = Recorded[h.call].queue
        BY <1>a, <2>2, <2>3 DEF TypeInv, Typed, TypedClients
    <2>5. h.ctx = Context(e) /\ 1 \in DOMAIN tasks /\ tasks # <<>>
        BY <1>a, <1>f, <2>3, <2>4, HeadIs DEF React
    <2>6. CallOk(h, pos[e], Len(answers[e]), Program[e])
        BY <2>1, <2>5 DEF CallInv, OneCall, Single
    <2>7. /\ pos[e] \in Nat /\ Len(answers[e]) \in Nat /\ Len(Program[e]) \in Nat /\ Len(Program[e]) > 0
          /\ DOMAIN Program[e] = 1..Len(Program[e])
        BY <1>a, ProgramIs DEF TypeInv, Typed, TypedClients
    <2>8. UNCHANGED <<pos, answers, connects>>
        BY <1>f DEF React
    <2>9. CASE pos[e] > Len(Program[e])
        <3>1. PICK k \in DOMAIN Program[e] : k = Len(Program[e])
            BY <2>7
        <3>2. Subscribes(e, k, queue) /\ k <= Len(answers[e])
            BY <2>3, <2>4, <2>6, <2>7, <2>9, <3>1 DEF Subscribes, CallOk
        <3>3. \A t : Ready(e, k, t)'
            BY <2>8, <3>2 DEF Ready
        <3> QED
            BY <3>2, <3>3 DEF Awaited
    <2>10. CASE ~(pos[e] > Len(Program[e]))
        <3>1. PICK k \in DOMAIN Program[e] : k = pos[e]
            BY <2>6, <2>7, <2>10 DEF CallOk
        <3>2. Subscribes(e, k, queue)
            BY <2>3, <2>4, <2>6, <2>10, <3>1 DEF Subscribes, CallOk
        <3>3. PICK b \in AnyTask : b.do = "steps" /\ b.ctx = Head(tasks).ctx /\ tasks' = Append(Tail(tasks), b)
            BY <1>a, <1>f, ReactIs
        <3>4. PICK q \in Seq(AnyTask) : q = Tail(tasks)
            BY <1>a, <2>5, Rest DEF TypeInv, Typed, TypedThread
        <3>5. /\ Len(q) \in Nat /\ Len(q) + 1 \in DOMAIN tasks' /\ tasks'[Len(q) + 1] = b
              /\ Len(tasks') = Len(q) + 1
            BY <3>3, <3>4, Appended
        <3>6. Len(q) + 1 < Len(tasks') + 1
            BY <3>5
        <3>7. Ahead(Context(e), tasks', Len(tasks') + 1)
            BY <2>1, <2>5, <3>3, <3>5, <3>6 DEF Ahead
        <3>8. Ready(e, k, Len(tasks) + 1)'
            BY <2>8, <3>1, <3>7 DEF Ready, Context
        <3> QED
            BY <3>2, <3>8 DEF Awaited
    <2> QED
        BY <2>9, <2>10
<1>g. ASSUME NEW c \in Clients, Connect(c), c # e PROVE subscribed'[e] = subscribed[e]
    BY <1>a, <1>g, ConnectsEmpty
<1>h. RunSteps \/ SendBackResponses => subscribed' = subscribed
    BY DEF RunSteps, SendBackResponses
<1>i. FindIndex \/ Mark \/ Answer \/ SendBack \/ HandleEvent \/ UNCHANGED vars => subscribed' = subscribed
    BY DEF FindIndex, Mark, Answer, SendBack, HandleEvent, vars
<1>j. \A c \in Clients : Call(c) => subscribed' = subscribed
    BY DEF Call
<1>k. Pops \/ Keeps
    BY <1>a, StepsAre
<1> QED
    BY <1>b, <1>e, <1>f, <1>g, <1>h, <1>i, <1>j, <1>k DEF Pops, Keeps

(* Callbacks are given while the plugin has lines.                         *)
LEMMA GivenPlays ==
    ASSUME OnceInv, settingsActive, ~disturbed, NEW e \in Clients, Context(e) \in cache, NEW m, Given(e, m)
    PROVE  m \in completedOutIndexes /\ Plays /\ indexes # {}
<1>1. m \in Callbacks
    BY GivenIs DEF OnceInv, CallInv
<1>2. m \in completedOutIndexes
    BY <1>1 DEF OnceInv, Once, GivenTaken
<1> QED
    BY <1>2 DEF OnceInv, Takers, Plays

LEMMA AnsweredMore ==
    ASSUME NEW e \in Clients, NEW queue, NEW n \in Nat, NEW o \in Nat, n <= o, Answered(e, queue, n)
    PROVE  Answered(e, queue, o)
<1>1. \A k \in DOMAIN Program[e] : k \in Nat
    BY ProgramIs
<1> QED
    BY <1>1 DEF Answered

(* Callbacks follow the answer to the subscription on their way.           *)
LEMMA FollowsNext == OnceInv /\ Subscriptions /\ Follows /\ [Next]_vars => Follows'
<1> SUFFICES ASSUME OnceInv, Subscriptions, Follows, [Next]_vars, ~disturbed', NEW e \in Clients, e \in Fresh'
             PROVE  GotFollow(e)' /\ SentFollow(e)' /\ TasksFollow(e)'
    BY DEF Follows, Fresh
<1> USE DEF thread, clients, plugin, switch, ghosts
<1>a. TypeInv /\ Steady /\ CallInv
    BY Session DEF OnceInv, CallInv
<1>b. CASE Connect(e)
    <2>1. messages'[e] = <<>> /\ \A m : ~Given(e, m)'
        BY <1>a, <1>b, ConnectsEmpty
    <2>2. GotFollow(e)'
        BY <2>1 DEF GotFollow
    <2>3. SentFollow(e)' /\ TasksFollow(e)'
        BY <2>1 DEF SentFollow, TasksFollow, Given, Holds
    <2> QED
        BY <2>2, <2>3
<1> SUFFICES ASSUME e \in Fresh PROVE GotFollow(e)' /\ SentFollow(e)' /\ TasksFollow(e)'
    BY <1>a, <1>b DEF Steady
<1>c. /\ Context(e)' = Context(e) /\ Len(answers[e]) \in Nat /\ Len(answers'[e]) \in Nat
      /\ Len(answers[e]) <= Len(answers'[e]) /\ tasks \in Seq(AnyTask) /\ Context(e) \in cache
      /\ ~disturbed /\ settingsActive
    BY <1>a, ReadyFacts DEF Steady, Fresh
<1>d. GotFollow(e) /\ SentFollow(e) /\ TasksFollow(e)
    BY <1>c DEF Follows
<1>e. ASSUME NEW t \in DOMAIN tasks, NEW j \in DOMAIN tasks[t].callbacks,
             NEW m, m = tasks[t].callbacks[j][1], For(tasks[t].callbacks[j], Context(e))
      PROVE  /\ Pops => Awaited(e, Recorded[m].queue, t - 1)'
             /\ Keeps => Awaited(e, Recorded[m].queue, t)'
    <2>1. Awaited(e, Recorded[m].queue, t)
        BY <1>d, <1>e DEF TasksFollow
    <2>2. Given(e, m)
        BY <1>e DEF Given, Holds
    <2>3. indexes # {}
        BY <1>c, <2>2, GivenPlays
    <2>4. t \in Nat
        BY <1>c
    <2> QED
        BY <1>a, <2>1, <2>3, <2>4, AwaitedKept
<1>f. ASSUME messages'[e] = messages[e] PROVE GotFollow(e)'
    BY <1>d, <1>f DEF GotFollow
<1>g. ASSUME result' = result PROVE SentFollow(e)'
    BY <1>c, <1>d, <1>g, AnsweredMore DEF SentFollow
<1>h. ASSUME result' = <<>> PROVE SentFollow(e)'
    BY <1>h DEF SentFollow
<1>i. ASSUME NEW t \in DOMAIN tasks', NEW j \in DOMAIN tasks'[t].callbacks,
             NEW m, m = tasks'[t].callbacks[j][1], For(tasks'[t].callbacks[j], Context(e)),
             Keeps, tasks' = tasks
      PROVE  Awaited(e, Recorded[m].queue, t)'
    BY <1>e, <1>i
<1>j. ASSUME \A t \in DOMAIN tasks' : \A j \in DOMAIN tasks'[t].callbacks : \A m :
                 m = tasks'[t].callbacks[j][1] /\ For(tasks'[t].callbacks[j], Context(e))
                     => Awaited(e, Recorded[m].queue, t)'
      PROVE  TasksFollow(e)'
    BY <1>c, <1>j DEF TasksFollow, Awaited, Ready
<1>k. ASSUME Keeps, tasks' = tasks PROVE TasksFollow(e)'
    BY <1>i, <1>j, <1>k
<1>l. InCall \/ pc = "idle" => result = <<>>
    BY <1>a DEF TypeInv, Hands, InCall
<1>m. ASSUME NEW b \in AnyTask, tasks' = Append(tasks, b), Keeps,
             \A j \in DOMAIN b.callbacks : For(b.callbacks[j], Context(e)) =>
                 indexes # {} /\ Awaited(e, Recorded[b.callbacks[j][1]].queue, Len(tasks) + 1)
      PROVE  TasksFollow(e)'
    <2>1. \A t \in DOMAIN tasks' : (t \in DOMAIN tasks /\ tasks'[t] = tasks[t]) \/ (t = Len(tasks) + 1 /\ tasks'[t] = b)
        BY <1>c, <1>m, Appended
    <2>2. ASSUME NEW t \in DOMAIN tasks', NEW j \in DOMAIN tasks'[t].callbacks,
                 NEW m, m = tasks'[t].callbacks[j][1], For(tasks'[t].callbacks[j], Context(e))
          PROVE  Awaited(e, Recorded[m].queue, t)'
        <3>1. CASE t \in DOMAIN tasks /\ tasks'[t] = tasks[t]
            BY <1>e, <1>m, <2>2, <3>1
        <3>2. CASE t = Len(tasks) + 1 /\ tasks'[t] = b
            <4>1. indexes # {} /\ Awaited(e, Recorded[m].queue, t)
                BY <1>m, <2>2, <3>2
            <4>2. t \in Nat
                BY <1>c, <3>2
            <4> QED
                BY <1>a, <1>m, <4>1, <4>2, AwaitedKept
        <3> QED
            BY <2>1, <3>1, <3>2
    <2> QED
        BY <1>j, <2>2
<1>n. ASSUME Pops, NEW q \in Seq(AnyTask), q = Tail(tasks), tasks # <<>>,
             \A t \in DOMAIN tasks' : (t \in DOMAIN q /\ tasks'[t] = q[t]) \/ tasks'[t].callbacks = <<>>
      PROVE  TasksFollow(e)'
    <2>1. \A t \in DOMAIN q : t + 1 \in DOMAIN tasks /\ q[t] = tasks[t + 1] /\ t \in Nat
        BY <1>c, <1>n, Shifted
    <2>2. ASSUME NEW t \in DOMAIN tasks', NEW j \in DOMAIN tasks'[t].callbacks,
                 NEW m, m = tasks'[t].callbacks[j][1], For(tasks'[t].callbacks[j], Context(e))
          PROVE  Awaited(e, Recorded[m].queue, t)'
        <3>1. t \in DOMAIN q /\ tasks'[t] = q[t]
            BY <1>n, <2>2
        <3>2. PICK u \in DOMAIN tasks : u = t + 1 /\ tasks'[t] = tasks[u] /\ u - 1 = t
            BY <2>1, <3>1
        <3>3. Awaited(e, Recorded[m].queue, u - 1)'
            BY <1>e, <1>n, <2>2, <3>2
        <3> QED
            BY <3>2, <3>3
    <2> QED
        BY <1>j, <2>2
<1>1. ASSUME NEW c \in Clients, Connect(c), c # e PROVE GotFollow(e)' /\ SentFollow(e)' /\ TasksFollow(e)'
    <2>1. messages'[e] = messages[e] /\ UNCHANGED <<result, tasks>>
        BY <1>a, <1>1, ConnectsEmpty
    <2> QED
        BY <1>1, <1>f, <1>g, <1>k, <2>1 DEF Keeps
<1>2. ASSUME NEW c \in Clients, Call(c) PROVE GotFollow(e)' /\ SentFollow(e)' /\ TasksFollow(e)'
    <2>1. PICK b \in AnyTask : b.callbacks = <<>> /\ tasks' = Append(tasks, b)
        BY <1>2, <1>a, CallIs
    <2>2. UNCHANGED <<messages, result>> /\ Keeps
        BY <1>2 DEF Call, Keeps
    <2>3. DOMAIN b.callbacks = {}
        BY <2>1
    <2> QED
        BY <1>f, <1>g, <1>m, <2>1, <2>2, <2>3
<1>3. ASSUME React PROVE GotFollow(e)' /\ SentFollow(e)' /\ TasksFollow(e)'
    <2>1. PICK b \in AnyTask : b.callbacks = <<>> /\ tasks' = Append(Tail(tasks), b)
        BY <1>3, <1>a, ReactIs
    <2>2. UNCHANGED <<messages, result>> /\ Pops /\ tasks # <<>>
        BY <1>3 DEF React, Pops
    <2>3. PICK q \in Seq(AnyTask) : q = Tail(tasks)
        BY <1>c, <2>2, Rest
    <2>4. \A t \in DOMAIN tasks' : (t \in DOMAIN q /\ tasks'[t] = q[t]) \/ tasks'[t] = b
        BY <2>1, <2>3, Appended
    <2> QED
        BY <1>f, <1>g, <1>n, <2>1, <2>2, <2>3, <2>4
<1>4. ASSUME RunSteps PROVE GotFollow(e)' /\ SentFollow(e)' /\ TasksFollow(e)'
    <2>1. UNCHANGED <<messages, result>> /\ Pops /\ tasks # <<>> /\ tasks' = Tail(tasks)
        BY <1>4 DEF RunSteps, Pops
    <2>2. PICK q \in Seq(AnyTask) : q = Tail(tasks)
        BY <1>c, <2>1, Rest
    <2> QED
        BY <1>f, <1>g, <1>n, <2>1, <2>2
<1>5. ASSUME SendBackResponses PROVE GotFollow(e)' /\ SentFollow(e)' /\ TasksFollow(e)'
    <2>1. /\ messages' = messages /\ Pops /\ tasks # <<>> /\ tasks' = Tail(tasks) /\ pc = "idle"
          /\ result' = Head(tasks).callbacks /\ answers' = answers
        BY <1>5 DEF SendBackResponses, Pops
    <2>2. PICK q \in Seq(AnyTask) : q = Tail(tasks)
        BY <1>c, <2>1, Rest
    <2>3. Head(tasks) = tasks[1] /\ 1 \in DOMAIN tasks
        BY <1>a, <2>1, HeadIs
    <2>4. ~Ahead(Context(e), tasks, 1)
        BY <1>c DEF Ahead
    <2>5. task.ctx # Context(e)
        BY <1>a, <2>1, ReadyFacts DEF InCall
    <2>6. \A queue : Awaited(e, queue, 1) => Answered(e, queue, Len(answers[e]))
        BY <2>4, <2>5 DEF Awaited, Answered, Ready
    <2>7. \A j \in DOMAIN tasks[1].callbacks : For(tasks[1].callbacks[j], Context(e)) =>
              Answered(e, Recorded[tasks[1].callbacks[j][1]].queue, Len(answers[e]))
        BY <1>d, <2>3, <2>6 DEF TasksFollow
    <2>8. SentFollow(e)'
        BY <1>c, <2>1, <2>3, <2>7 DEF SentFollow
    <2> QED
        BY <1>f, <1>n, <2>1, <2>2, <2>8
<1>6. ASSUME FindIndex PROVE GotFollow(e)' /\ SentFollow(e)' /\ TasksFollow(e)'
    <2>1. UNCHANGED <<messages, tasks>> /\ Keeps /\ (result' = result \/ result' = <<>>)
        BY <1>6 DEF FindIndex, Idle, Keeps
    <2> QED
        BY <1>f, <1>g, <1>h, <1>k, <2>1
<1>7. ASSUME Answer PROVE GotFollow(e)' /\ SentFollow(e)' /\ TasksFollow(e)'
    <2>1. messages' = messages /\ Keeps /\ result' = <<>>
        BY <1>7 DEF Answer, Idle, Keeps
    <2>2. CASE tasks' = tasks
        BY <1>f, <1>h, <1>k, <2>1, <2>2
    <2>3. ASSUME NEW b \in AnyTask, Batch(b), tasks' = Append(tasks, b) PROVE TasksFollow(e)'
        <3>1. ASSUME NEW j \in DOMAIN b.callbacks, For(b.callbacks[j], Context(e))
              PROVE  indexes # {} /\ Awaited(e, Recorded[b.callbacks[j][1]].queue, Len(tasks) + 1)
            <4>1. PICK m : m = b.callbacks[j][1]
                OBVIOUS
            <4>2. m \in Taken /\ Context(e) \in Subscribers(m)
                BY <2>3, <3>1, <4>1 DEF Batch, For
            <4>3. indexes # {} /\ Recorded[m].queue \in subscribed[e]
                BY <4>2 DEF Taken, Subscribers, Context
            <4>4. Awaited(e, Recorded[m].queue, Len(tasks) + 1)
                BY <1>c, <4>3 DEF Subscriptions
            <4> QED
                BY <4>1, <4>3, <4>4
        <3> QED
            BY <1>m, <2>1, <2>3, <3>1
    <2> QED
        BY <1>7, <1>a, <1>f, <1>h, <2>1, <2>2, <2>3, AnswerIs DEF TypeInv
<1>8. ASSUME SendBack PROVE GotFollow(e)' /\ SentFollow(e)' /\ TasksFollow(e)'
    <2>1. UNCHANGED <<tasks, answers>> /\ Keeps
        BY <1>8 DEF SendBack, Keeps
    <2>2. CASE ~(result # <<>> /\ isActive /\ result[1][2] \in cache)
        BY <1>8, <1>f, <1>h, <1>k, <2>1, <2>2 DEF SendBack, Idle
    <2>3. CASE result # <<>> /\ isActive /\ result[1][2] \in cache
        <3>1. GetsMessage(result[1][2], result[1][1]) /\ result' = Tail(result) /\ result \in Seq(Pairs)
            BY <1>8, <1>a, <2>3 DEF SendBack, TypeInv, Typed, TypedThread
        <3>2. PICK r : r = Tail(result)
            OBVIOUS
        <3>3. 1 \in DOMAIN result /\ \A i \in DOMAIN r : i + 1 \in DOMAIN result /\ r[i] = result[i + 1]
            BY <2>3, <3>1, <3>2, Shifted
        <3>4. SentFollow(e)'
            BY <1>c, <1>d, <2>1, <3>1, <3>2, <3>3 DEF SentFollow
        <3>5. PICK p : p = result[1]
            OBVIOUS
        <3>6. p[2] \in Contexts /\ p[2] = Context(p[2][1]) /\ p[2][1] \in Clients /\ p[1] \in Callbacks
            <4>1. p \in Pairs
                BY <3>1, <3>3, <3>5
            <4> QED
                BY <1>a, <2>3, <3>5, <4>1, ContextsAre DEF Pairs, TypeInv, Opened
        <3>7. CASE p[2][1] # e
            <4>1. messages'[e] = messages[e]
                BY <1>a, <2>3, <3>1, <3>5, <3>6, <3>7 DEF GetsMessage, TypeInv, Typed, TypedClients
            <4> QED
                BY <1>f, <1>k, <2>1, <3>4, <4>1
        <3>8. CASE p[2][1] = e
            <4>1. PICK M : M = [line : Callbacks, after : Nat]
                OBVIOUS
            <4>2. PICK new \in M : new = [line |-> p[1], after |-> Len(answers[e])]
                BY <1>c, <3>6, <4>1
            <4>3. messages \in [Clients -> Seq(M)]
                BY <1>a, <4>1 DEF TypeInv, Typed, TypedClients
            <4>4. messages'[e] = Append(messages[e], new) /\ messages[e] \in Seq(M)
                BY <2>3, <3>1, <3>5, <3>6, <3>8, <4>2, <4>3 DEF GetsMessage
            <4>5. \A i \in DOMAIN messages'[e] :
                      (i \in DOMAIN messages[e] /\ messages'[e][i] = messages[e][i]) \/ messages'[e][i] = new
                BY <4>4, Appended
            <4>6. Answered(e, Recorded[new.line].queue, new.after)
                <5>1. For(result[1], Context(e))
                    BY <3>5, <3>6, <3>8 DEF For
                <5>2. Answered(e, Recorded[p[1]].queue, Len(answers[e]))
                    BY <1>d, <3>3, <3>5, <5>1 DEF SentFollow
                <5> QED
                    BY <4>2, <5>2
            <4>7. GotFollow(e)'
                BY <1>d, <4>5, <4>6 DEF GotFollow
            <4> QED
                BY <1>k, <2>1, <3>4, <4>7
        <3> QED
            BY <3>7, <3>8
    <2> QED
        BY <2>2, <2>3
<1>9. ASSUME Mark \/ HandleEvent \/ UNCHANGED vars PROVE GotFollow(e)' /\ SentFollow(e)' /\ TasksFollow(e)'
    <2>1. UNCHANGED <<messages, result, tasks>> /\ Keeps
        BY <1>9 DEF Mark, HandleEvent, vars, Keeps
    <2> QED
        BY <1>f, <1>g, <1>k, <2>1
<1>10. Pops \/ Keeps
    BY <1>a, StepsAre
<1> QED
    BY <1>1, <1>2, <1>3, <1>4, <1>5, <1>6, <1>7, <1>8, <1>9, <1>10, <1>b DEF Pops, Keeps

LEMMA FollowNext == FollowInv /\ [Next]_vars => FollowInv'
<1>1. FollowInv /\ [Next]_vars => OnceInv'
    BY OnceNext DEF FollowInv
<1>2. FollowInv /\ [Next]_vars => Subscriptions'
    BY SubscriptionsNext DEF FollowInv, OnceInv
<1>3. FollowInv /\ [Next]_vars => Follows'
    BY FollowsNext DEF FollowInv
<1> QED
    BY <1>1, <1>2, <1>3 DEF FollowInv

LEMMA FollowInit == Init => FollowInv
<1>1. Init => OnceInv
    BY OnceInit
<1>2. Init => Fresh = {}
    BY DEF Init, Fresh
<1>3. Init => Subscriptions /\ Follows
    BY <1>2 DEF Subscriptions, Follows
<1> QED
    BY <1>1, <1>3 DEF FollowInv

LEMMA FollowHolds == Spec => []FollowInv
<1>1. FollowInv /\ UNCHANGED vars => FollowInv'
    BY FollowNext
<1> QED
    BY FollowInit, FollowNext, PTL DEF Spec

(***************************************************************************)
(* A client never gets a callback before the answer to the subscription it *)
(* belongs to, and never one twice (sendBackResponses,                     *)
(* readResponsesFromScenario).                                             *)
(***************************************************************************)
THEOREM MessagesFollow == Spec => []MessagesFollowSubscription
<1>1. FollowInv => MessagesFollowSubscription
    <2> SUFFICES ASSUME FollowInv, NEW c \in Clients, NEW i \in DOMAIN messages[c]
                 PROVE  /\ \A j \in DOMAIN messages[c] : j # i => messages[c][j].line # messages[c][i].line
                        /\ c \in Fresh /\ ~disturbed =>
                            \E k \in DOMAIN Program[c] :
                                /\ k <= messages[c][i].after
                                /\ Recorded[Program[c][k]].type = "Subscribe"
                                /\ Recorded[Program[c][k]].queue = Recorded[messages[c][i].line].queue
        BY DEF MessagesFollowSubscription
    <2>1. \A j \in DOMAIN messages[c] : j # i => messages[c][j].line # messages[c][i].line
        BY DEF FollowInv, OnceInv, Once, NeverTwice
    <2>2. ASSUME c \in Fresh, ~disturbed
          PROVE  Answered(c, Recorded[messages[c][i].line].queue, messages[c][i].after)
        BY <2>2 DEF FollowInv, Follows, GotFollow
    <2> QED
        BY <2>1, <2>2 DEF Answered, Subscribes
<1> QED
    BY <1>1, FollowHolds, PTL

-----------------------------------------------------------------------------
(* Callbacks of two calls come in the order of the calls, those of one in  *)
(* that of their timestamps.                                               *)
LEMMA GapsAre ==
    ASSUME NEW g \in Calls, NEW l \in Calls, NEW m \in Callbacks, NEW n \in Callbacks,
           After(g, m), After(l, n)
    PROVE  /\ g < l => <<m, n>> \in Before
           /\ g = l /\ <<m, n>> \in Timestamps => <<m, n>> \in Before
<1>1. g \in Nat /\ l \in Nat /\ m \in Nat /\ n \in Nat /\ m \in Lines /\ n \in Lines
    BY LinesAre, CallbacksAre
<1>2. \A x \in Calls : x \in Nat /\ Recorded[x].type # "RESPONSE"
    BY LinesAre DEF Calls, CallType
<1>3. \A x \in Calls : ~(g < x /\ x <= m) /\ ~(l < x /\ x <= n)
    <2>1. \A x \in Calls : g < x /\ x <= m => x \in (g + 1)..m
        BY <1>1, <1>2
    <2>2. \A x \in Calls : l < x /\ x <= n => x \in (l + 1)..n
        BY <1>1, <1>2
    <2> QED
        BY <1>2, <2>1, <2>2 DEF After
<1>4. g < m /\ l < n
    BY DEF After
<1>5. ASSUME g < l PROVE <<m, n>> \in Before
    <2>1. m < l /\ m < n
        BY <1>1, <1>3, <1>4, <1>5
    <2>2. Precedes(m, n)
        BY <1>4, <2>1 DEF Precedes
    <2> QED
        BY <2>2 DEF Before
<1>6. ASSUME g = l, <<m, n>> \in Timestamps PROVE <<m, n>> \in Before
    <2>1. ByTimestamp(m, n)
        BY <1>1, <1>6, TimestampsOrder
    <2>2. \A x \in Calls : ~((m < x /\ x < n) \/ (n < x /\ x < m))
        BY <1>1, <1>2, <1>3, <1>4, <1>6
    <2>3. Precedes(m, n)
        BY <2>1, <2>2 DEF Precedes
    <2> QED
        BY <2>3 DEF Before
<1> QED
    BY <1>5, <1>6

(* When clients keep the order, an answer that takes callbacks is that of  *)
(* the call it was recorded for.                                           *)
LEMMA AnswersOwn ==
    ASSUME RecallInv, mode.ordered, ~disturbed, Answer, task.ctx \in fresh
    PROVE  \E d \in Clients :
              /\ d \in Fresh /\ task.ctx = Context(d) /\ pos[d] \in DOMAIN Program[d]
              /\ found = Program[d][pos[d]] /\ pos[d] = Len(answers[d]) + 1
              /\ Len(answers[d]) \in Nat /\ Len(answers'[d]) = pos[d] /\ found \in Calls
<1>1. TypeInv /\ (\A d \in Clients : OneCall(d)) /\ TakesLines /\ Recalled
    BY DEF RecallInv, CallInv
<1>2. pc = "load" /\ GetsAnswer(task.ctx, found)
    BY DEF Answer
<1>3. /\ task.ctx \in cache /\ task.ctx \in Contexts /\ task.ctx[1] \in Clients
      /\ task.ctx = Context(task.ctx[1])
    BY <1>1, ContextsAre DEF TypeInv, Switched, Typed, TypedFlags, Opened
<1>4. PICK d \in Clients : d = task.ctx[1]
    BY <1>3
<1>5. ~task.extra /\ found = task.call
    BY <1>1, <1>2 DEF TakesLines, Recalled, Faithful
<1>6. /\ pos[d] \in DOMAIN Program[d] /\ Program[d][pos[d]] = task.call /\ task.call \in Calls
      /\ pos[d] = Len(answers[d]) + 1
    BY <1>1, <1>3, <1>4, <1>5, InHand
<1>7. Len(answers'[d]) = Len(answers[d]) + 1 /\ Len(answers[d]) \in Nat
    <2>1. found \in Calls \cup {0}
        BY <1>5, <1>6
    <2>2. PICK x \in Contexts : x = task.ctx
        BY <1>3
    <2>3. GetsAnswer(x, found) /\ x = Context(d) /\ x \in cache
        BY <1>2, <1>3, <1>4, <2>2
    <2> QED
        BY <1>1, <2>1, <2>3, AnswerGot
<1>8. d \in Fresh
    BY <1>3, <1>4 DEF Fresh
<1> QED
    BY <1>3, <1>4, <1>5, <1>6, <1>7, <1>8

LEMMA AddsOwn ==
    ASSUME RecallInv, OnceInv, mode.ordered, ~disturbed, settingsActive, NEW e \in Clients, NEW m, Adds(e, m)
    PROVE  task.ctx \in fresh /\ Answer /\ After(found, m) /\ m \in Callbacks /\ m \in Taken
<1>1. Answer /\ m \in Taken /\ Context(e) \in Subscribers(m) /\ pc = "load"
    BY DEF Adds, Answer
<1>2. Context(e) \in cache /\ subscribed[e] # {}
    BY <1>1 DEF Subscribers, Context
<1>3. task.ctx \in fresh
    BY <1>1, <1>2 DEF OnceInv, Takers
<1> QED
    BY <1>1, <1>3, TakenIs DEF RecallInv, CallInv, TypeInv

(* Of two calls of the session that were answered, or are being answered,  *)
(* the one that came later was answered later.                             *)
LEMMA InTurnBefore ==
    ASSUME RecallInv, mode.ordered, NEW d \in Clients, d \in Fresh, pos[d] \in DOMAIN Program[d],
           pos[d] = Len(answers[d]) + 1, Len(answers[d]) \in Nat,
           NEW c \in Clients, c \in Fresh, NEW k \in DOMAIN Program[c], k <= Len(answers[c])
    PROVE  Program[c][k] < Program[d][pos[d]]
<1> DEFINE g == Program[c][k]
           l == Program[d][pos[d]]
<1>1. /\ g \in Calls /\ l \in Calls /\ Recorded[g].client = c /\ Recorded[l].client = d
      /\ g \in Nat /\ l \in Nat
    <2>1. g \in Calls /\ l \in Calls /\ Recorded[g].client = c /\ Recorded[l].client = d
        BY ProgramIs
    <2>2. \A x \in Calls : x \in Nat
        BY LinesAre
    <2> QED
        BY <2>1, <2>2
<1>2. ASSUME NEW n \in DOMAIN Program[d], n <= Len(answers[d]) PROVE Program[d][n] # l
    <2>1. n \in Nat /\ n < pos[d]
        BY <1>2, ProgramIs
    <2>2. Program[d][n] < l /\ Program[d][n] \in Calls
        BY <2>1, ProgramIs
    <2>3. \A x \in Calls : x \in Nat
        BY LinesAre
    <2> QED
        BY <1>1, <2>2, <2>3
<1>3. g # l
    BY <1>1, <1>2
<1>4. InTurn(g)
    <2>1. k \in 1..pos[c]
        <3>1. Single(Context(c), tasks, task, pos[c], Len(answers[c]), Program[c])
            BY DEF RecallInv, CallInv, OneCall
        <3>2. Len(answers[c]) <= pos[c] /\ pos[c] \in Nat /\ Len(answers[c]) \in Nat
            BY <3>1 DEF Single, RecallInv, CallInv, TypeInv, Typed, TypedClients
        <3>3. k \in Nat /\ k >= 1
            BY ProgramIs
        <3> QED
            BY <3>2, <3>3
    <2> QED
        BY <2>1 DEF RecallInv, Turns
<1>5. ~(l < g)
    <2>1. ASSUME l < g PROVE FALSE
        <3>1. \E n \in DOMAIN Program[d] : Program[d][n] = l /\ n <= Len(answers[d])
            BY <1>1, <1>4, <2>1 DEF InTurn
        <3> QED
            BY <1>2, <3>1
    <2> QED
        BY <2>1
<1> HIDE DEF g, l
<1>6. g < l
    BY <1>1, <1>3, <1>5
<1> QED
    BY <1>6 DEF g, l

(* Callbacks are given in the order of the recording.                      *)
LEMMA OrderedNext == RecallInv /\ OnceInv /\ Ordered /\ [Next]_vars => Ordered'
<1> SUFFICES ASSUME RecallInv, OnceInv, Ordered, [Next]_vars, mode'.ordered, ~disturbed',
                    NEW e \in Clients, e \in Fresh'
             PROVE  /\ LineUp(e, Before)'
                    /\ \A m \in Callbacks : Given(e, m)' =>
                          \E d \in Clients : d \in Fresh' /\ \E k \in DOMAIN Program[d] :
                              Done(d, k)' /\ After(Program[d][k], m)
    BY DEF Ordered, Fresh
<1>a. TypeInv /\ Steady
    BY Session DEF OnceInv, CallInv
<1>b. CASE Connect(e)
    BY <1>a, <1>b, ConnectsEmpty
<1> SUFFICES ASSUME e \in Fresh
             PROVE  /\ LineUp(e, Before)'
                    /\ \A m \in Callbacks : Given(e, m)' =>
                          \E d \in Clients : d \in Fresh' /\ \E k \in DOMAIN Program[d] :
                              Done(d, k)' /\ After(Program[d][k], m)
    BY <1>a, <1>b DEF Steady
<1>c. mode.ordered /\ ~disturbed /\ settingsActive /\ Context(e)' = Context(e)
    BY <1>a DEF Steady, Fresh, Stays
<1>d. /\ LineUp(e, Before)
      /\ \A m \in Callbacks : Given(e, m) =>
            \E d \in Clients : d \in Fresh /\ \E k \in DOMAIN Program[d] : Done(d, k) /\ After(Program[d][k], m)
    BY <1>c DEF Ordered, Fresh
<1>e. LineKept(e)
    BY <1>a, <1>c, LineNext
<1>f. ASSUME NEW d \in Clients, d \in Fresh, NEW k \in DOMAIN Program[d], Done(d, k)
      PROVE  d \in Fresh' /\ Done(d, k)'
    <2>1. d \in Fresh' /\ Stays(d)
        BY <1>a, <1>f DEF Steady, Fresh
    <2>2. k \in Nat
        BY ProgramIs
    <2>3. k <= Len(answers'[d])
        BY <1>f, <2>1, <2>2 DEF Stays, Done
    <2> QED
        BY <2>1, <2>3 DEF Done
<1>g. ASSUME NEW m, Adds(e, m)
      PROVE  \E d \in Clients : d \in Fresh' /\ \E k \in DOMAIN Program[d] :
                 Done(d, k)' /\ After(Program[d][k], m)
    <2>1. task.ctx \in fresh /\ Answer /\ After(found, m)
        BY <1>c, <1>g, AddsOwn
    <2>2. PICK d \in Clients :
              /\ d \in Fresh /\ pos[d] \in DOMAIN Program[d] /\ found = Program[d][pos[d]]
              /\ pos[d] = Len(answers[d]) + 1 /\ Len(answers[d]) \in Nat /\ Len(answers'[d]) = pos[d]
        BY <1>c, <2>1, AnswersOwn
    <2>3. PICK k \in DOMAIN Program[d] : k = pos[d]
        BY <2>2
    <2>4. Done(d, k)' /\ After(Program[d][k], m)
        <3>1. k <= Len(answers'[d])
            BY <2>2, <2>3
        <3> QED
            BY <2>1, <2>2, <2>3, <3>1 DEF Done
    <2>5. d \in Fresh'
        BY <1>a, <2>2 DEF Steady
    <2> QED
        BY <2>4, <2>5
<1>h. ASSUME NEW m \in Callbacks, Given(e, m)'
      PROVE  \E d \in Clients : d \in Fresh' /\ \E k \in DOMAIN Program[d] :
                 Done(d, k)' /\ After(Program[d][k], m)
    <2>1. CASE Adds(e, m)
        BY <1>g, <2>1
    <2>2. CASE Given(e, m)
        <3>1. PICK d \in Clients : d \in Fresh /\ \E k \in DOMAIN Program[d] : Done(d, k) /\ After(Program[d][k], m)
            BY <1>d, <2>2
        <3>2. PICK k \in DOMAIN Program[d] : Done(d, k) /\ After(Program[d][k], m)
            BY <3>1
        <3> QED
            BY <1>f, <3>1, <3>2
    <2> QED
        BY <1>e, <1>h, <2>1, <2>2 DEF LineKept
<1>i. ASSUME NEW m, NEW n, Given(e, m), Adds(e, n) PROVE <<m, n>> \in Before
    <2>1. task.ctx \in fresh /\ Answer /\ After(found, n) /\ n \in Callbacks
        BY <1>c, <1>i, AddsOwn
    <2>2. PICK d \in Clients :
              /\ d \in Fresh /\ pos[d] \in DOMAIN Program[d] /\ found = Program[d][pos[d]]
              /\ pos[d] = Len(answers[d]) + 1 /\ Len(answers[d]) \in Nat /\ found \in Calls
        BY <1>c, <2>1, AnswersOwn
    <2>3. m \in Callbacks
        BY <1>a, <1>i, GivenIs
    <2>4. PICK c \in Clients : c \in Fresh /\ \E k \in DOMAIN Program[c] : Done(c, k) /\ After(Program[c][k], m)
        BY <1>d, <1>i, <2>3
    <2>5. PICK k \in DOMAIN Program[c] : Done(c, k) /\ After(Program[c][k], m)
        BY <2>4
    <2>6. Program[c][k] < found
        BY <1>c, <2>2, <2>4, <2>5, InTurnBefore DEF Done
    <2>7. Program[c][k] \in Calls
        BY ProgramIs
    <2> QED
        BY <2>1, <2>2, <2>3, <2>5, <2>6, <2>7, GapsAre
<1>j. ASSUME NEW m, NEW n, Adds(e, m), Adds(e, n), <<m, n>> \in Timestamps PROVE <<m, n>> \in Before
    <2>1. task.ctx \in fresh /\ Answer /\ After(found, m) /\ m \in Callbacks
        BY <1>c, <1>j, AddsOwn
    <2>2. After(found, n) /\ n \in Callbacks
        BY <1>c, <1>j, AddsOwn
    <2>3. found \in Calls
        BY <1>c, <2>1, AnswersOwn
    <2> QED
        BY <1>j, <2>1, <2>2, <2>3, GapsAre
<1>k. LineUp(e, Before)'
    BY <1>d, <1>e, <1>i, <1>j DEF LineKept
<1> QED
    BY <1>h, <1>k

LEMMA OrderNext == OrderInv /\ [Next]_vars => OrderInv'
<1>1. OrderInv /\ [Next]_vars => RecallInv' /\ OnceInv'
    BY RecallNext, OnceNext DEF OrderInv
<1>2. OrderInv /\ [Next]_vars => Ordered'
    BY OrderedNext DEF OrderInv
<1> QED
    BY <1>1, <1>2 DEF OrderInv

LEMMA OrderHolds == Spec => []OrderInv
<1>1. Init => OrderInv
    <2>1. Init => Fresh = {}
        BY DEF Init, Fresh
    <2>2. Init => Ordered
        BY <2>1 DEF Ordered
    <2> QED
        BY <2>2, RecallInit, OnceInit DEF OrderInv
<1>2. OrderInv /\ UNCHANGED vars => OrderInv'
    BY OrderNext
<1> QED
    BY <1>1, OrderNext, PTL DEF Spec

(***************************************************************************)
(* Clients that keep the order of the recording between them get their     *)
(* callbacks in the order they were recorded, be they taken by the calls   *)
(* of other clients (readResponsesFromScenario, sendBackResponses).        *)
(***************************************************************************)
THEOREM MessagesOrdered == Spec => []MessagesInOrder
<1>1. OrderInv => MessagesInOrder
    <2> SUFFICES ASSUME OrderInv, mode.ordered, ~disturbed, NEW c \in Fresh,
                        NEW i \in DOMAIN messages[c], NEW j \in DOMAIN messages[c], i < j
                 PROVE  Precedes(messages[c][i].line, messages[c][j].line)
        BY DEF MessagesInOrder
    <2>1. LineUp(c, Before)
        BY DEF OrderInv, Ordered
    <2>2. <<messages[c][i].line, messages[c][j].line>> \in Before
        BY <2>1 DEF LineUp, Lined
    <2> QED
        BY <2>2 DEF Before
<1> QED
    BY <1>1, OrderHolds, PTL

-----------------------------------------------------------------------------
(* What was given stays so, unless the sending ends before.                *)
Sends(c) ==
    SendBack => \/ \A j \in DOMAIN result : ~For(result[j], Context(c))
                \/ isActive /\ result[1][2] \in cache

LEMMA GivenStays ==
    ASSUME TypeInv, [Next]_vars, NEW d \in Clients, Context(d)' = Context(d), NEW m, Given(d, m), Sends(d)
    PROVE  Given(d, m)'
<1> USE DEF thread, clients
<1>a. /\ tasks \in Seq(AnyTask) /\ result \in Seq(Pairs)
      /\ messages \in [Clients -> Seq([line : Callbacks, after : Nat])]
    BY DEF TypeInv, Typed, TypedThread, TypedClients
<1>b. ASSUME NEW g, NEW r, NEW q, messages'[d] = g, result' = r, tasks' = q, Holds(Context(d), g, r, q, m)
      PROVE  Given(d, m)'
    BY <1>b DEF Given
<1>c. ASSUME messages'[d] = messages[d], UNCHANGED <<result, tasks>> PROVE Given(d, m)'
    BY <1>b, <1>c DEF Given
<1>d. InCall \/ pc = "idle" => result = <<>>
    BY DEF TypeInv, Hands, InCall
<1>e. Idle => result' = <<>>
    BY DEF Idle
<1>f. Holds(Context(d), messages[d], result, tasks, m)
    BY DEF Given
<1>1. ASSUME NEW c \in Clients, Connect(c) PROVE Given(d, m)'
    <2>1. d # c
        BY <1>1 DEF Connect, Context, TypeInv, Typed, TypedClients
    <2>2. messages'[d] = messages[d] /\ UNCHANGED <<result, tasks>>
        BY <1>1, <2>1, ConnectsEmpty
    <2> QED
        BY <1>c, <2>2
<1>2. ASSUME NEW c \in Clients, Call(c) PROVE Given(d, m)'
    <2>1. PICK b \in AnyTask : b.callbacks = <<>> /\ tasks' = Append(tasks, b)
        BY <1>2, CallIs
    <2>2. UNCHANGED <<messages, result>>
        BY <1>2 DEF Call
    <2>3. Holds(Context(d), messages[d], result, Append(tasks, b), m)
        BY <1>a, <1>f, HoldsAppended
    <2> QED
        BY <1>b, <2>1, <2>2, <2>3
<1>3. ASSUME React PROVE Given(d, m)'
    <2>1. PICK b \in AnyTask : b.callbacks = <<>> /\ tasks' = Append(Tail(tasks), b)
        BY <1>3, ReactIs
    <2>2. UNCHANGED <<messages, result>> /\ tasks # <<>> /\ result = <<>> /\ Head(tasks).callbacks = <<>>
        BY <1>3, <1>d, HeadIs DEF React
    <2>3. PICK q \in Seq(AnyTask) : q = Tail(tasks)
        BY <1>a, <2>2, Rest
    <2>4. Holds(Context(d), messages[d], result, q, m)
        BY <1>a, <1>f, <2>2, <2>3, LinedStarts
    <2>5. Holds(Context(d), messages[d], result, Append(q, b), m)
        BY <2>4, HoldsAppended
    <2> QED
        BY <1>b, <2>1, <2>2, <2>3, <2>5
<1>4. ASSUME RunSteps PROVE Given(d, m)'
    <2>1. /\ UNCHANGED <<messages, result>> /\ tasks # <<>> /\ result = <<>> /\ Head(tasks).callbacks = <<>>
          /\ tasks' = Tail(tasks)
        BY <1>4, <1>d, HeadIs DEF RunSteps
    <2>2. Holds(Context(d), messages[d], result, Tail(tasks), m)
        BY <1>a, <1>f, <2>1, LinedStarts
    <2> QED
        BY <1>b, <2>1, <2>2
<1>5. ASSUME FindIndex PROVE Given(d, m)'
    <2>1. result' = result
        BY <1>5, <1>d, <1>e DEF FindIndex, InCall
    <2> QED
        BY <1>5, <1>c, <2>1 DEF FindIndex
<1>6. ASSUME FindIndexThrows PROVE Given(d, m)'
    <2>1. result' = result
        BY <1>6, <1>d, <1>e DEF FindIndexThrows, InCall
    <2> QED
        BY <1>6, <1>c, <2>1 DEF FindIndexThrows
<1>7. ASSUME Mark PROVE Given(d, m)'
    BY <1>7, <1>c DEF Mark
<1>8. ASSUME Answer PROVE Given(d, m)'
    <2>1. UNCHANGED <<messages, result>>
        BY <1>8, <1>d, <1>e DEF Answer, InCall
    <2>2. CASE tasks' = tasks
        BY <1>c, <2>1, <2>2
    <2>3. ASSUME NEW b \in AnyTask, tasks' = Append(tasks, b) PROVE Given(d, m)'
        <3>1. Holds(Context(d), messages[d], result, Append(tasks, b), m)
            BY <1>a, <1>f, HoldsAppended
        <3> QED
            BY <1>b, <2>1, <2>3, <3>1
    <2> QED
        BY <1>8, <2>2, <2>3, AnswerIs DEF TypeInv
<1>9. ASSUME LoadThrows PROVE Given(d, m)'
    <2>1. result' = result
        BY <1>9, <1>d, <1>e DEF LoadThrows, InCall
    <2> QED
        BY <1>9, <1>c, <2>1 DEF LoadThrows
<1>10. ASSUME SendBackResponses PROVE Given(d, m)'
    <2>1. /\ messages' = messages /\ tasks # <<>> /\ tasks' = Tail(tasks) /\ result' = Head(tasks).callbacks
          /\ result = <<>>
        BY <1>10, <1>d DEF SendBackResponses
    <2>2. Holds(Context(d), messages[d], Head(tasks).callbacks, Tail(tasks), m)
        BY <1>a, <1>f, <2>1, LinedStarts
    <2> QED
        BY <1>b, <2>1, <2>2
<1>11. ASSUME SendBack PROVE Given(d, m)'
    <2>1. tasks' = tasks
        BY <1>11 DEF SendBack
    <2>2. CASE result # <<>> /\ isActive /\ result[1][2] \in cache
        <3>1. GetsMessage(result[1][2], result[1][1]) /\ result' = Tail(result)
            BY <1>11, <2>2 DEF SendBack
        <3>2. PICK p \in Pairs : p = result[1]
            BY <1>a, <2>2
        <3>3. p[1] \in Callbacks /\ p[2] \in Contexts /\ p[2][1] \in Clients /\ p[2] = Context(p[2][1])
            BY <2>2, <3>2, ContextsAre DEF Pairs, TypeInv, Opened
        <3>4. PICK M : M = [line : Callbacks, after : Nat]
            OBVIOUS
        <3>5. PICK new \in M : new = [line |-> p[1], after |-> Len(answers[p[2][1]])]
            <4>1. Len(answers[p[2][1]]) \in Nat
                BY <3>3 DEF TypeInv, Typed, TypedClients
            <4> QED
                BY <3>3, <3>4, <4>1
        <3>6. messages' = [messages EXCEPT ![p[2][1]] = Append(messages[p[2][1]], new)]
            BY <2>2, <3>1, <3>2, <3>5 DEF GetsMessage
        <3>7. messages \in [Clients -> Seq(M)] /\ new.line = result[1][1]
            BY <1>a, <3>2, <3>4, <3>5
        <3>8. CASE For(result[1], Context(d))
            <4>1. p[2][1] = d
                BY <3>2, <3>3, <3>8 DEF For, Context
            <4>2. messages'[d] = Append(messages[d], new) /\ messages[d] \in Seq(M)
                BY <3>6, <3>7, <4>1
            <4>3. Holds(Context(d), Append(messages[d], new), Tail(result), tasks, m)
                BY <1>a, <1>f, <2>2, <3>7, <3>8, <4>2, LinedSends
            <4> QED
                BY <1>b, <2>1, <3>1, <4>2, <4>3
        <3>9. CASE ~For(result[1], Context(d))
            <4>1. p[2][1] # d
                BY <3>2, <3>3, <3>9 DEF For
            <4>2. messages'[d] = messages[d] /\ messages[d] \in Seq(M)
                BY <3>6, <3>7, <4>1
            <4>3. Holds(Context(d), messages[d], Tail(result), tasks, m)
                BY <1>a, <1>f, <2>2, <3>7, <3>9, <4>2, LinedSends
            <4> QED
                BY <1>b, <2>1, <3>1, <4>2, <4>3
        <3> QED
            BY <3>8, <3>9
    <2>3. CASE ~(result # <<>> /\ isActive /\ result[1][2] \in cache)
        <3>1. result' = <<>> /\ messages' = messages
            BY <1>11, <1>e, <2>3 DEF SendBack
        <3>2. \A j \in DOMAIN result : ~For(result[j], Context(d))
            BY <1>11, <2>3 DEF Sends
        <3>3. Holds(Context(d), messages[d], <<>>, tasks, m)
            BY <1>f, <3>2 DEF Holds
        <3> QED
            BY <1>b, <2>1, <3>1, <3>3
    <2> QED
        BY <2>2, <2>3
<1>12. ASSUME Activate PROVE Given(d, m)'
    BY <1>12, <1>c DEF Activate
<1>13. ASSUME Waited PROVE Given(d, m)'
    BY <1>13, <1>c DEF Waited
<1>14. ASSUME WaitTimesOut PROVE Given(d, m)'
    BY <1>14, <1>c DEF WaitTimesOut
<1>15. ASSUME LoadIndexes PROVE Given(d, m)'
    BY <1>15, <1>c DEF LoadIndexes
<1>16. ASSUME Deactivate PROVE Given(d, m)'
    BY <1>16, <1>c DEF Deactivate
<1>17. ASSUME Unload PROVE Given(d, m)'
    BY <1>17, <1>c DEF Unload
<1>18. ASSUME DisconnectAll PROVE Given(d, m)'
    BY <1>18, <1>c DEF DisconnectAll
<1>19. ASSUME HandleEvent PROVE Given(d, m)'
    BY <1>19, <1>c DEF HandleEvent
<1>20. CASE UNCHANGED vars
    BY <1>20, <1>c DEF vars, plugin, storage, switch, clients, thread, ghosts
<1> QED
    BY <1>1, <1>2, <1>3, <1>4, <1>5, <1>6, <1>7, <1>8, <1>9, <1>10,
       <1>11, <1>12, <1>13, <1>14, <1>15, <1>16, <1>17, <1>18, <1>19, <1>20 DEF Next, Execute, Switching

(* No open context was given any: nothing is on its way to one.            *)
LEMMA NoneOpen ==
    ASSUME TypeInv, \A c \in Clients : Context(c) \in cache => \A m \in Callbacks : ~Given(c, m)
    PROVE  /\ \A j \in DOMAIN result : result[j][2] \notin cache
           /\ \A t \in DOMAIN tasks : \A j \in DOMAIN tasks[t].callbacks :
                 tasks[t].callbacks[j][2] \notin cache
<1>1. \A x \in cache : \A m : ~Given(x[1], m) /\ x = Context(x[1])
    <2>1. \A x \in cache : x[1] \in Clients /\ x = Context(x[1])
        BY ContextsAre DEF TypeInv, Typed, TypedFlags, Opened
    <2>2. \A c \in Clients : Context(c) \in cache => \A m : ~Given(c, m)
        BY GivenIs
    <2> QED
        BY <2>1, <2>2
<1>2. ASSUME NEW j \in DOMAIN result, NEW x \in cache, result[j][2] = x PROVE FALSE
    BY <1>1, <1>2 DEF Given, Holds, For
<1>3. ASSUME NEW t \in DOMAIN tasks, NEW j \in DOMAIN tasks[t].callbacks, NEW x \in cache,
             tasks[t].callbacks[j][2] = x
      PROVE  FALSE
    BY <1>1, <1>3 DEF Given, Holds, For
<1> QED
    BY <1>2, <1>3

(* A batch is for open contexts or for none.                               *)
LEMMA WholeNext == OnceInv /\ AllWhole /\ [Next]_vars => AllWhole'
<1> SUFFICES ASSUME OnceInv, AllWhole, [Next]_vars PROVE AllWhole'
    OBVIOUS
<1> USE DEF thread, clients, plugin, switch, ghosts
<1>a. TypeInv /\ tasks \in Seq(AnyTask) /\ result \in Seq(Pairs)
    BY DEF OnceInv, CallInv, TypeInv, Typed, TypedThread
<1>b. DOMAIN <<>> = {} /\ \A open : Whole(<<>>, open)
    BY DEF Whole
<1>c. ASSUME UNCHANGED <<settingsActive, cache>>, ~disturbed' => ~disturbed,
             settingsActive /\ ~disturbed => Whole(result', cache),
             settingsActive /\ ~disturbed => \A t \in DOMAIN tasks' :
                 Whole(tasks'[t].callbacks, cache) \/ \E u \in DOMAIN tasks : tasks'[t] = tasks[u]
      PROVE  AllWhole'
    BY <1>c DEF AllWhole
<1>d. ASSUME UNCHANGED <<settingsActive, cache, tasks>>, ~disturbed' => ~disturbed,
             result' = result \/ result' = <<>>
      PROVE  AllWhole'
    BY <1>b, <1>d DEF AllWhole
<1>e. ASSUME tasks # <<>> PROVE \A t \in DOMAIN Tail(tasks) : \E u \in DOMAIN tasks : Tail(tasks)[t] = tasks[u]
    BY <1>a, <1>e, Shifted
<1>f. ASSUME settingsActive', ~disturbed', settingsActive', UNCHANGED <<result, tasks>>, cache' \subseteq cache,
             \A d \in Clients : Context(d) \in cache => \A m \in Callbacks : ~Given(d, m)
      PROVE  AllWhole'
    <2>1. /\ \A j \in DOMAIN result : result[j][2] \notin cache'
          /\ \A t \in DOMAIN tasks : \A j \in DOMAIN tasks[t].callbacks : tasks[t].callbacks[j][2] \notin cache'
        BY <1>a, <1>f, NoneOpen
    <2> QED
        BY <1>f, <2>1 DEF AllWhole, Whole
<1>1. ASSUME NEW c \in Clients, Connect(c) PROVE AllWhole'
    <2> SUFFICES ASSUME settingsActive, ~disturbed PROVE AllWhole'
        BY <1>1 DEF Connect, AllWhole
    <2>1. UNCHANGED <<result, tasks>> /\ cache' = cache \cup {<<c, connects[c] + 1>>}
        BY <1>1 DEF Connect
    <2>2. /\ \A j \in DOMAIN result : result[j][2] \in cache' <=> result[j][2] \in cache
          /\ \A t \in DOMAIN tasks : \A j \in DOMAIN tasks[t].callbacks :
                tasks[t].callbacks[j][2] \in cache' <=> tasks[t].callbacks[j][2] \in cache
        BY <1>a, <2>1, NewContext
    <2>3. Whole(result, cache)
        BY DEF AllWhole
    <2>4. \A t \in DOMAIN tasks : Whole(tasks[t].callbacks, cache)
        BY DEF AllWhole
    <2>5. Whole(result, cache')
        BY <2>2, <2>3 DEF Whole
    <2>6. \A t \in DOMAIN tasks : Whole(tasks[t].callbacks, cache')
        BY <2>2, <2>4 DEF Whole
    <2> QED
        BY <2>1, <2>5, <2>6 DEF AllWhole
<1>2. ASSUME NEW c \in Clients, Call(c) PROVE AllWhole'
    <2>1. PICK b \in AnyTask : b.callbacks = <<>> /\ tasks' = Append(tasks, b)
        BY <1>2, <1>a, CallIs
    <2>2. UNCHANGED <<settingsActive, cache, result, disturbed>>
        BY <1>2 DEF Call
    <2>3. \A t \in DOMAIN tasks' : (t \in DOMAIN tasks /\ tasks'[t] = tasks[t]) \/ tasks'[t] = b
        BY <1>a, <2>1, Appended
    <2>4. settingsActive /\ ~disturbed => Whole(result', cache)
        BY <2>2 DEF AllWhole
    <2> QED
        BY <1>b, <1>c, <2>1, <2>2, <2>3, <2>4
<1>3. ASSUME React PROVE AllWhole'
    <2>1. PICK b \in AnyTask : b.callbacks = <<>> /\ tasks' = Append(Tail(tasks), b)
        BY <1>3, <1>a, ReactIs
    <2>2. UNCHANGED <<settingsActive, cache, result, disturbed>> /\ tasks # <<>>
        BY <1>3 DEF React
    <2>3. PICK q \in Seq(AnyTask) : q = Tail(tasks)
        BY <1>a, <2>2, Rest
    <2>4. \A t \in DOMAIN tasks' : (t \in DOMAIN q /\ tasks'[t] = q[t]) \/ tasks'[t] = b
        BY <2>1, <2>3, Appended
    <2>5. settingsActive /\ ~disturbed => Whole(result', cache)
        BY <2>2 DEF AllWhole
    <2> QED
        BY <1>b, <1>c, <1>e, <2>1, <2>2, <2>3, <2>4, <2>5
<1>4. ASSUME RunSteps PROVE AllWhole'
    <2>1. UNCHANGED <<settingsActive, cache, result, disturbed>> /\ tasks # <<>> /\ tasks' = Tail(tasks)
        BY <1>4 DEF RunSteps
    <2>2. settingsActive /\ ~disturbed => Whole(result', cache)
        BY <2>1 DEF AllWhole
    <2> QED
        BY <1>c, <1>e, <2>1, <2>2
<1>5. ASSUME FindIndex PROVE AllWhole'
    BY <1>5, <1>d DEF FindIndex, Idle
<1>6. ASSUME FindIndexThrows PROVE AllWhole'
    BY <1>6, <1>d DEF FindIndexThrows, Idle
<1>7. ASSUME Mark PROVE AllWhole'
    BY <1>7, <1>d DEF Mark, Idle
<1>8. ASSUME Answer PROVE AllWhole'
    <2>1. UNCHANGED <<settingsActive, cache, disturbed>> /\ result' = <<>>
        BY <1>8 DEF Answer, Idle
    <2>2. CASE tasks' = tasks
        BY <1>d, <2>1, <2>2
    <2>3. ASSUME NEW b \in AnyTask, Batch(b), tasks' = Append(tasks, b) PROVE AllWhole'
        <3>1. \A t \in DOMAIN tasks' : (t \in DOMAIN tasks /\ tasks'[t] = tasks[t]) \/ tasks'[t] = b
            BY <1>a, <2>3, Appended
        <3>2. Whole(b.callbacks, cache)
            BY <2>3 DEF Whole, Batch, Subscribers
        <3> QED
            BY <1>b, <1>c, <2>1, <3>1, <3>2
    <2> QED
        BY <1>8, <1>a, <2>2, <2>3, AnswerIs DEF TypeInv
<1>9. ASSUME LoadThrows PROVE AllWhole'
    BY <1>9, <1>d DEF LoadThrows, Idle
<1>10. ASSUME SendBackResponses PROVE AllWhole'
    <2>1. /\ UNCHANGED <<settingsActive, cache, disturbed>> /\ tasks # <<>> /\ tasks' = Tail(tasks)
          /\ result' = Head(tasks).callbacks
        BY <1>10 DEF SendBackResponses
    <2>2. Head(tasks) = tasks[1] /\ 1 \in DOMAIN tasks
        BY <1>a, <2>1, HeadIs
    <2>3. settingsActive /\ ~disturbed => Whole(result', cache)
        BY <2>1, <2>2 DEF AllWhole
    <2> QED
        BY <1>c, <1>e, <2>1, <2>3
<1>11. ASSUME SendBack PROVE AllWhole'
    <2>1. UNCHANGED <<settingsActive, cache, disturbed, tasks>>
        BY <1>11 DEF SendBack
    <2>2. CASE ~(result # <<>> /\ isActive /\ result[1][2] \in cache)
        BY <1>11, <1>d, <2>1, <2>2 DEF SendBack, Idle
    <2>3. CASE result # <<>> /\ isActive /\ result[1][2] \in cache
        <3>1. result' = Tail(result)
            BY <1>11, <2>3 DEF SendBack
        <3>2. \A j \in DOMAIN result' : j + 1 \in DOMAIN result /\ result'[j] = result[j + 1]
            BY <1>a, <2>3, <3>1, Shifted
        <3>3. settingsActive /\ ~disturbed => Whole(result', cache)
            BY <3>2 DEF AllWhole, Whole
        <3> QED
            BY <1>c, <2>1, <3>3
    <2> QED
        BY <2>2, <2>3
<1>12. ASSUME Activate PROVE AllWhole'
    <2>1. ~settingsActive /\ \A x : ~Doomed(x)
        BY <1>12, <1>a DEF Activate, isActive, TypeInv, Switched, Doomed
    <2>2. \A d \in Clients : Context(d) \in cache => \A m \in Callbacks : ~Given(d, m)
        BY <2>1 DEF OnceInv, Once, NoneLeft
    <2> QED
        BY <1>12, <1>f, <2>2 DEF Activate
<1>13. ASSUME Waited PROVE AllWhole'
    BY <1>13, <1>d DEF Waited
<1>14. ASSUME WaitTimesOut PROVE AllWhole'
    BY <1>14, <1>d DEF WaitTimesOut, BeginsReset
<1>15. ASSUME LoadIndexes PROVE AllWhole'
    BY <1>15, <1>d DEF LoadIndexes, BeginsReset
<1>16. ASSUME Deactivate PROVE AllWhole'
    BY <1>16 DEF Deactivate, AllWhole
<1>17. ASSUME Unload PROVE AllWhole'
    BY <1>17, <1>d DEF Unload, BeginsReset
<1>18. ASSUME DisconnectAll PROVE AllWhole'
    <2> SUFFICES ASSUME settingsActive, ~disturbed PROVE AllWhole'
        BY <1>18 DEF DisconnectAll, AllWhole
    <2>1. fresh = {} /\ cache' \subseteq cache /\ UNCHANGED <<settingsActive, disturbed, result, tasks>>
        BY <1>18, <1>a DEF DisconnectAll, TypeInv, Switched
    <2>2. completedOutIndexes = {}
        BY <2>1 DEF OnceInv, Takers
    <2>3. \A d \in Clients : Context(d) \in cache => \A m \in Callbacks : ~Given(d, m)
        BY <2>2 DEF OnceInv, Once, GivenTaken
    <2> QED
        BY <1>f, <2>1, <2>3
<1>19. ASSUME HandleEvent PROVE AllWhole'
    BY <1>19, <1>d DEF HandleEvent
<1>20. CASE UNCHANGED vars
    BY <1>20, <1>d DEF vars, plugin, storage, switch, clients, thread, ghosts
<1> QED
    BY <1>1, <1>2, <1>3, <1>4, <1>5, <1>6, <1>7, <1>8, <1>9, <1>10,
       <1>11, <1>12, <1>13, <1>14, <1>15, <1>16, <1>17, <1>18, <1>19, <1>20 DEF Next, Execute, Switching

(* What was taken is on its way, or was sent.                              *)
LEMMA WayNext == OnceInv /\ AllWhole /\ OnItsWay /\ [Next]_vars => OnItsWay'
<1> SUFFICES ASSUME OnceInv, AllWhole, OnItsWay, [Next]_vars, settingsActive', ~disturbed',
                    NEW m \in completedOutIndexes'
             PROVE  \E c \in Clients : Context(c)' \in cache' /\ Given(c, m)'
    BY DEF OnItsWay
<1> USE DEF thread, clients, plugin, switch, ghosts
<1>a. TypeInv /\ TakesLines /\ TypeInv' /\ Takers'
    BY TypeNext, OnceNext DEF OnceInv, CallInv
<1>b. Fresh' # {}
    <2>1. PICK x : x \in fresh'
        BY <1>a DEF Takers
    <2>2. x \in cache' /\ x[1] \in Clients /\ x = Context(x[1])'
        <3>1. x \in cache' /\ x \in Contexts
            BY <1>a, <2>1 DEF TypeInv, Switched, Typed, TypedFlags
        <3>2. x = <<x[1], connects'[x[1]]>>
            BY <1>a, <3>1 DEF TypeInv, Opened, Context
        <3> QED
            BY <3>1, <3>2, ContextsAre DEF Context
    <2>3. x[1] \in Fresh'
        BY <2>1, <2>2 DEF Fresh
    <2> QED
        BY <2>3
<1>c. Steady /\ ~disturbed /\ settingsActive /\ isActive
    BY <1>a, <1>b, Session DEF Steady, isActive
<1>1. CASE m \in completedOutIndexes
    <2>1. PICK c \in Clients : Context(c) \in cache /\ Given(c, m)
        BY <1>c, <1>1 DEF OnItsWay
    <2>2. Context(c)' = Context(c) /\ Context(c)' \in cache'
        BY <1>c, <2>1 DEF Steady, Stays
    <2>3. Sends(c)
        <3>1. Whole(result, cache) /\ result \in Seq(Pairs)
            BY <1>a, <1>c DEF AllWhole, TypeInv, Typed, TypedThread
        <3>2. CASE \A j \in DOMAIN result : result[j][2] \notin cache
            BY <2>1, <3>2 DEF Sends, For
        <3>3. CASE (\A j \in DOMAIN result : result[j][2] \in cache) /\ DOMAIN result # {}
            <4>1. 1 \in DOMAIN result
                BY <3>1, <3>3
            <4> QED
                BY <1>c, <3>3, <4>1 DEF Sends
        <3> QED
            BY <3>1, <3>2, <3>3 DEF Whole
    <2>4. Given(c, m)'
        BY <1>a, <2>1, <2>2, <2>3, GivenStays
    <2> QED
        BY <2>2, <2>4
<1>2. CASE m \notin completedOutIndexes
    <2>1. Answer
        <3>1. Pops \/ Keeps
            BY <1>b, <1>c, StepsAre
        <3>2. Pops => completedOutIndexes' = completedOutIndexes
            BY DEF Pops, React, RunSteps, SendBackResponses
        <3>3. \A c \in Clients : Connect(c) \/ Call(c) => completedOutIndexes' = completedOutIndexes
            BY DEF Connect, Call
        <3>4. FindIndex \/ Mark \/ SendBack \/ HandleEvent \/ UNCHANGED vars
                  => completedOutIndexes' = completedOutIndexes
            BY DEF FindIndex, Mark, SendBack, HandleEvent, vars
        <3> QED
            BY <1>2, <3>1, <3>2, <3>3, <3>4 DEF Keeps
    <2>2. m \in Taken
        BY <1>2, <1>a, <2>1, AnswerIs DEF TypeInv
    <2>3. task.ctx \in cache
        <3>1. PICK x : x \in cache /\ Recorded[m].queue \in subscribed[x[1]]
            BY <2>2 DEF Taken, Subscribers
        <3>2. x[1] \in Clients /\ x = Context(x[1])
            BY <1>a, <3>1, ContextsAre DEF TypeInv, Typed, TypedFlags, Opened
        <3>3. task.ctx \in fresh
            BY <1>c, <2>1, <3>1, <3>2 DEF OnceInv, Takers, Answer
        <3> QED
            BY <1>a, <3>3 DEF TypeInv, Switched
    <2>4. PICK b \in AnyTask : Batch(b) /\ tasks' = Append(tasks, b)
        BY <1>a, <2>1, <2>2, <2>3, AnswerIs DEF TypeInv
    <2>5. PICK j \in DOMAIN b.callbacks : b.callbacks[j][1] = m
        BY <2>2, <2>4 DEF Batch
    <2>6. PICK x : x = b.callbacks[j][2] /\ x \in cache
        BY <2>4, <2>5 DEF Batch, Subscribers
    <2>7. PICK c \in Clients : x = Context(c)
        BY <1>a, <2>6, ContextsAre DEF TypeInv, Typed, TypedFlags, Opened
    <2>8. Context(c)' = Context(c) /\ Context(c)' \in cache'
        BY <1>c, <2>6, <2>7 DEF Steady, Stays
    <2>9. Carries(b, x, m)
        BY <2>5, <2>6 DEF Carries, For
    <2>10. tasks \in Seq(AnyTask)
        BY <1>a DEF TypeInv, Typed, TypedThread
    <2>11. \A got, r : Holds(x, got, r, Append(tasks, b), m)
        BY <2>9, <2>10, HoldsAppended
    <2>12. Given(c, m)'
        BY <2>4, <2>7, <2>8, <2>11 DEF Given
    <2> QED
        BY <2>8, <2>12
<1> QED
    BY <1>1, <1>2

(* A call that is ready stays so.                                          *)
LEMMA AheadLast ==
    ASSUME NEW ctx, NEW q \in Seq(AnyTask)
    PROVE  Ahead(ctx, q, Len(q) + 1) <=> \E i \in DOMAIN q : q[i].ctx = ctx /\ q[i].do = "steps"
<1>1. \A i \in DOMAIN q : i < Len(q) + 1
    OBVIOUS
<1> QED
    BY <1>1 DEF Ahead

LEMMA ReadyNext ==
    ASSUME CallInv, [Next]_vars, NEW e \in Clients, e \in Fresh, e \in Fresh', ~disturbed', indexes # {},
           NEW k \in DOMAIN Program[e], Ready(e, k, Len(tasks) + 1)
    PROVE  Ready(e, k, Len(tasks) + 1)'
<1>1. tasks \in Seq(AnyTask) /\ (tasks \in Seq(AnyTask))'
    BY ThreadNext DEF CallInv, TypeInv, Typed, TypedThread
<1>2. Len(tasks) \in Nat
    BY <1>1
<1>3. PICK t \in Nat : t = Len(tasks) + 1 /\ t - 1 \in Nat
    BY <1>2
<1>4. Pops \/ Keeps
    BY ReadyFacts, StepsAre
<1>5. Ready(e, k, t - 1)' \/ Ready(e, k, t)'
    BY <1>3, <1>4, ReadyPops, ReadyStays
<1>6. ASSUME NEW ctx, NEW q \in Seq(AnyTask), NEW n \in Nat, Ahead(ctx, q, n) PROVE Ahead(ctx, q, Len(q) + 1)
    BY <1>6, AheadMoves
<1> QED
    BY <1>1, <1>3, <1>5, <1>6 DEF Ready


(* An answer comes from the call in hand.                                  *)
LEMMA AnswersGrow ==
    ASSUME CallInv, Steady, Pops \/ Keeps, NEW e \in Clients, e \in Fresh
    PROVE  \/ answers'[e] = answers[e] \/ answers'[e] = <<>>
           \/ /\ task.ctx = Context(e) /\ pos[e] = Len(answers[e]) + 1 /\ Len(answers'[e]) = pos[e]
              /\ FindIndex \/ Answer
<1> USE DEF thread, clients, plugin, switch, ghosts
<1>a. TypeInv
    BY DEF CallInv
<1>b. ASSUME NEW l \in Calls \cup {0}, GetsAnswer(task.ctx, l), task.ctx \in Contexts, FindIndex \/ Answer
      PROVE  \/ answers'[e] = answers[e]
             \/ /\ task.ctx = Context(e) /\ pos[e] = Len(answers[e]) + 1 /\ Len(answers'[e]) = pos[e]
                /\ FindIndex \/ Answer
    <2>1. CASE task.ctx # Context(e) \/ task.ctx \notin cache
        BY <1>a, <1>b, <2>1, AnswerGot
    <2>2. CASE task.ctx = Context(e) /\ task.ctx \in cache
        <3>1. Len(answers'[e]) = Len(answers[e]) + 1
            BY <1>a, <1>b, <2>2, AnswerGot
        <3>2. pos[e] = Len(answers[e]) + 1
            BY <1>a, <2>2, InHand DEF CallInv
        <3> QED
            BY <1>b, <2>2, <3>1, <3>2
    <2> QED
        BY <2>1, <2>2
<1>1. ASSUME NEW c \in Clients, Connect(c) PROVE answers'[e] = answers[e] \/ answers'[e] = <<>>
    BY <1>1, <1>a, ConnectsEmpty
<1>2. ASSUME NEW c \in Clients, Call(c) PROVE answers'[e] = answers[e]
    BY <1>2 DEF Call
<1>3. CASE FindIndex
    <2>1. answers' = answers \/ GetsAnswer(task.ctx, 0)
        BY <1>3 DEF FindIndex, Upstream
    <2>2. task.ctx \in Contexts
        BY <1>3, <1>a DEF FindIndex, TypeInv, Hands, InCall
    <2> QED
        BY <1>3, <1>b, <2>1, <2>2
<1>4. CASE Answer
    <2>1. GetsAnswer(task.ctx, found) /\ pc = "load"
        BY <1>4 DEF Answer
    <2>2. task.ctx \in Contexts /\ found \in Calls \cup {0}
        BY <1>a, <2>1 DEF TypeInv, Hands, InCall, Typed, TypedThread
    <2> QED
        BY <1>4, <1>b, <2>1, <2>2
<1>5. CASE RunSteps
    BY <1>5 DEF RunSteps, Steady, isActive
<1>6. CASE Mark \/ SendBack \/ HandleEvent \/ UNCHANGED vars
    BY <1>6 DEF Mark, SendBack, HandleEvent, vars
<1>7. CASE React \/ SendBackResponses
    BY <1>7 DEF React, SendBackResponses
<1> QED
    BY <1>1, <1>2, <1>3, <1>4, <1>5, <1>6, <1>7 DEF Pops, Keeps

(* A call becomes ready when it is reacted to.                             *)
Reacts(e) == React /\ Head(tasks).ctx = Context(e)

LEMMA ReadyBefore ==
    ASSUME CallInv, [Next]_vars, NEW e \in Clients, e \in Fresh, e \in Fresh', ~disturbed',
           NEW k \in DOMAIN Program[e], Ready(e, k, Len(tasks) + 1)'
    PROVE  Ready(e, k, Len(tasks) + 1) \/ (Reacts(e) /\ k = pos[e])
<1> USE DEF thread, clients, plugin, switch, ghosts
<1>a. TypeInv /\ CallInv' /\ Steady /\ k \in Nat /\ k >= 1
    BY ReadyFacts, ProgramIs
<1>b. /\ Context(e)' = Context(e) /\ Len(answers[e]) \in Nat /\ Len(answers'[e]) \in Nat
      /\ tasks \in Seq(AnyTask) /\ pos[e] \in Nat /\ Context(e) \in Contexts /\ Context(e) # <<>>
    BY ReadyFacts, ContextsAre
<1>c. tasks' \in Seq(AnyTask)
    BY <1>a, ThreadNext DEF TypeInv, Typed, TypedThread
<1>d. Pops \/ Keeps
    BY <1>a, StepsAre
<1>e. task.ctx = Context(e) => InCall
    BY ReadyFacts
<1>1. CASE k <= Len(answers'[e])
    <2>1. CASE answers'[e] = answers[e]
        BY <1>1, <2>1 DEF Ready
    <2>2. CASE answers'[e] = <<>>
        BY <1>1, <1>a, <2>2
    <2>3. CASE task.ctx = Context(e) /\ pos[e] = Len(answers[e]) + 1 /\ Len(answers'[e]) = pos[e]
        <3>1. k <= Len(answers[e]) \/ k = pos[e]
            BY <1>1, <1>a, <1>b, <2>3
        <3> QED
            BY <2>3, <3>1 DEF Ready
    <2> QED
        BY <1>a, <1>d, <2>1, <2>2, <2>3, AnswersGrow
<1> DEFINE Queued(q) == \E i \in DOMAIN q : q[i].ctx = Context(e) /\ q[i].do = "steps"
<1>2. \A q \in Seq(AnyTask) : Ahead(Context(e), q, Len(q) + 1) <=> Queued(q)
    BY AheadLast
<1>3. ~(k <= Len(answers'[e])) => k = pos'[e] /\ (task'.ctx = Context(e) \/ Queued(tasks'))
    BY <1>b, <1>c, <1>2 DEF Ready
<1>4. k = pos[e] /\ (task.ctx = Context(e) \/ Queued(tasks)) => Ready(e, k, Len(tasks) + 1)
    BY <1>b, <1>2 DEF Ready
<1> HIDE DEF Queued
<1> SUFFICES ASSUME k = pos'[e], task'.ctx = Context(e) \/ Queued(tasks')
             PROVE  (k = pos[e] /\ (task.ctx = Context(e) \/ Queued(tasks))) \/ (Reacts(e) /\ k = pos[e])
    BY <1>1, <1>3, <1>4
<1>5. ASSUME NEW b \in AnyTask, NEW q \in Seq(AnyTask), b.ctx # Context(e) \/ b.do # "steps", Queued(Append(q, b))
      PROVE  Queued(q)
    <2>1. PICK s : s = Append(q, b)
        OBVIOUS
    <2>2. \A i \in DOMAIN s : (i \in DOMAIN q /\ s[i] = q[i]) \/ s[i] = b
        BY <2>1, Appended
    <2> QED
        BY <1>5, <2>1, <2>2 DEF Queued
<1>6. ASSUME tasks # <<>>, Queued(Tail(tasks)) PROVE Queued(tasks)
    <2>1. PICK q \in Seq(AnyTask) : q = Tail(tasks)
        BY <1>b, <1>6, Rest
    <2>2. \A i \in DOMAIN q : i + 1 \in DOMAIN tasks /\ q[i] = tasks[i + 1]
        BY <1>b, <1>6, <2>1, Shifted
    <2> QED
        BY <1>6, <2>1, <2>2 DEF Queued
<1>7. ASSUME NEW c \in Clients, Connect(c) PROVE k = pos[e] /\ (task.ctx = Context(e) \/ Queued(tasks))
    <2>1. e # c
        BY <1>7 DEF Connect, Fresh
    <2> QED
        BY <1>7, <1>a, <2>1, ConnectsEmpty
<1>8. ASSUME NEW c \in Clients, Call(c) PROVE k = pos[e] /\ (task.ctx = Context(e) \/ Queued(tasks))
    <2>1. PICK b \in AnyTask : b.do = "react" /\ tasks' = Append(tasks, b)
        BY <1>8, <1>a, CallIs
    <2>2. ~Waits(c) /\ pos' = [pos EXCEPT ![c] = @ + 1] /\ task' = task
        BY <1>8 DEF Call
    <2>3. task.ctx = Context(e) \/ Queued(tasks)
        BY <1>5, <1>b, <2>1, <2>2
    <2>4. pos[e] = Len(answers[e]) + 1
        <3>1. Single(Context(e), tasks, task, pos[e], Len(answers[e]), Program[e])
            BY DEF CallInv, OneCall
        <3> QED
            BY <2>3, <3>1 DEF Single, CallOk, Queued
    <2>5. c # e
        BY <1>b, <2>2, <2>4 DEF Waits
    <2> QED
        BY <1>a, <2>2, <2>3, <2>5 DEF TypeInv, Typed, TypedClients
<1>9. ASSUME FindIndex PROVE k = pos[e] /\ (task.ctx = Context(e) \/ Queued(tasks))
    <2>1. UNCHANGED <<pos, tasks>> /\ (task' = task \/ task' = Task)
        BY <1>9 DEF FindIndex, Idle
    <2> QED
        BY <1>b, <2>1, TaskIs
<1>10. ASSUME Answer PROVE k = pos[e] /\ (task.ctx = Context(e) \/ Queued(tasks))
    <2>1. pos' = pos /\ task' = Task
        BY <1>10 DEF Answer, Idle
    <2>2. tasks' = tasks \/ \E b \in AnyTask : b.ctx = <<>> /\ tasks' = Append(tasks, b)
        BY <1>10, <1>a, AnswerIs DEF TypeInv, Batch
    <2> QED
        BY <1>5, <1>b, <2>1, <2>2, TaskIs
<1>11. ASSUME Mark \/ HandleEvent \/ UNCHANGED vars
       PROVE  k = pos[e] /\ (task.ctx = Context(e) \/ Queued(tasks))
    <2>1. UNCHANGED <<pos, task, tasks>>
        BY <1>11 DEF Mark, HandleEvent, vars
    <2> QED
        BY <2>1
<1>12. ASSUME SendBack PROVE k = pos[e] /\ (task.ctx = Context(e) \/ Queued(tasks))
    <2>1. UNCHANGED <<pos, tasks>> /\ (task' = task \/ task' = Task)
        BY <1>12 DEF SendBack, Idle
    <2> QED
        BY <1>b, <2>1, TaskIs
<1>13. ASSUME SendBackResponses PROVE k = pos[e] /\ (task.ctx = Context(e) \/ Queued(tasks))
    <2>1. UNCHANGED <<pos, task>> /\ tasks # <<>> /\ tasks' = Tail(tasks)
        BY <1>13 DEF SendBackResponses
    <2> QED
        BY <1>6, <2>1
<1>14. ASSUME RunSteps PROVE k = pos[e] /\ (task.ctx = Context(e) \/ Queued(tasks))
    <2>1. pos' = pos /\ tasks # <<>> /\ tasks' = Tail(tasks) /\ task' = Head(tasks) /\ Head(tasks).do = "steps"
        BY <1>14, <1>a DEF RunSteps, Steady, isActive
    <2>2. task'.ctx = Context(e) => Queued(tasks)
        BY <1>a, <2>1, HeadIs DEF Queued
    <2> QED
        BY <1>6, <2>1, <2>2
<1>15. ASSUME React PROVE (k = pos[e] /\ (task.ctx = Context(e) \/ Queued(tasks))) \/ (Reacts(e) /\ k = pos[e])
    <2>1. UNCHANGED <<pos, task>> /\ tasks # <<>>
        BY <1>15 DEF React
    <2>2. PICK b \in AnyTask : b.ctx = Head(tasks).ctx /\ tasks' = Append(Tail(tasks), b)
        BY <1>15, <1>a, ReactIs
    <2>3. PICK q \in Seq(AnyTask) : q = Tail(tasks)
        BY <1>b, <2>1, Rest
    <2>4. CASE b.ctx = Context(e)
        BY <1>15, <2>1, <2>2, <2>4 DEF Reacts
    <2>5. CASE b.ctx # Context(e)
        BY <1>5, <1>6, <2>1, <2>2, <2>3, <2>5
    <2> QED
        BY <2>4, <2>5
<1> QED
    BY <1>d, <1>7, <1>8, <1>9, <1>10, <1>11, <1>12, <1>13, <1>14, <1>15 DEF Pops, Keeps


(* The reaction to a call of the flow: from there on it is ready, and its  *)
(* queue is in the context.                                                *)
LEMMA ReactsIs ==
    ASSUME CallInv, NEW e \in Clients, Reacts(e), pos[e] <= Len(Program[e]), NEW l, l = Program[e][pos[e]]
    PROVE  /\ pos[e] \in DOMAIN Program[e] /\ pos[e] = Len(answers[e]) + 1 /\ Len(answers[e]) \in Nat
           /\ ~Ready(e, pos[e], Len(tasks) + 1)
           /\ \A k : k = pos[e] => Ready(e, k, Len(tasks) + 1)'
           /\ subscribed'[e] = IF Recorded[l].type # "Subscribe" THEN subscribed[e]
                               ELSE IF mode.tagged THEN subscribed[e] \cup {Recorded[l].queue}
                               ELSE {Recorded[l].queue}
<1> USE DEF thread, clients, plugin, switch, ghosts
<1>a. TypeInv /\ React /\ pc = "idle" /\ tasks # <<>> /\ tasks \in Seq(AnyTask)
    BY DEF CallInv, Reacts, React, TypeInv, Typed, TypedThread
<1>1. PICK h \in AnyTask : h = Head(tasks) /\ h = tasks[1] /\ 1 \in DOMAIN tasks /\ h.ctx = Context(e) /\ h.do = "react"
    BY <1>a, HeadIs DEF Reacts, React
<1>2. h.ctx[1] = e
    BY <1>1 DEF Context
<1>3. Single(Context(e), tasks, task, pos[e], Len(answers[e]), Program[e])
    BY DEF CallInv, OneCall
<1>4. /\ pos[e] \in Nat /\ Len(answers[e]) \in Nat /\ Len(Program[e]) \in Nat
      /\ DOMAIN Program[e] = 1..Len(Program[e])
    BY <1>a, ProgramIs DEF TypeInv, Typed, TypedClients
<1>5. CallOk(h, pos[e], Len(answers[e]), Program[e])
    BY <1>1, <1>3 DEF Single
<1>6. pos[e] = Len(answers[e]) + 1 /\ h.call = l /\ pos[e] \in DOMAIN Program[e]
    BY <1>4, <1>5 DEF CallOk
<1>7. ~Ready(e, pos[e], Len(tasks) + 1)
    <2>1. ~(pos[e] <= Len(answers[e]))
        BY <1>4, <1>6
    <2>2. task.ctx # Context(e)
        BY <1>1, <1>3 DEF Single
    <2>3. \A i \in DOMAIN tasks : tasks[i].ctx = Context(e) => tasks[i].do = "react"
        BY <1>1, <1>3 DEF Single
    <2> QED
        BY <1>a, <2>1, <2>2, <2>3, AheadLast DEF Ready
<1>8. Ready(e, pos[e], Len(tasks) + 1)' /\ UNCHANGED <<pos, answers, connects>>
    <2>1. PICK b \in AnyTask : b.do = "steps" /\ b.ctx = Head(tasks).ctx /\ tasks' = Append(Tail(tasks), b)
        BY <1>a, ReactIs
    <2>2. PICK q \in Seq(AnyTask) : q = Tail(tasks)
        BY <1>a, Rest
    <2>3. Len(q) + 1 \in DOMAIN tasks' /\ tasks'[Len(q) + 1] = b /\ tasks' \in Seq(AnyTask)
        BY <2>1, <2>2, Appended
    <2>4. Ahead(Context(e), tasks', Len(tasks') + 1)
        <3>1. PICK s \in Seq(AnyTask) : s = tasks'
            BY <2>3
        <3>2. \E i \in DOMAIN s : s[i].ctx = Context(e) /\ s[i].do = "steps"
            BY <1>1, <2>1, <2>3, <3>1
        <3>3. Ahead(Context(e), s, Len(s) + 1)
            BY <3>2, AheadLast
        <3> QED
            BY <3>1, <3>3
    <2>5. UNCHANGED <<pos, answers, connects>>
        BY <1>a DEF React
    <2> QED
        BY <2>4, <2>5 DEF Ready, Context
<1>9. subscribed'[e] = IF Recorded[l].type # "Subscribe" THEN subscribed[e]
                       ELSE IF mode.tagged THEN subscribed[e] \cup {Recorded[l].queue}
                       ELSE {Recorded[l].queue}
    <2>1. subscribed' = IF Recorded[h.call].type = "Subscribe" /\ h.ctx = Context(h.ctx[1])
                        THEN [subscribed EXCEPT ![h.ctx[1]] = IF mode.tagged THEN @ \cup {Recorded[h.call].queue}
                                                             ELSE {Recorded[h.call].queue}]
                        ELSE subscribed
        BY <1>a, <1>1 DEF React
    <2>2. e \in DOMAIN subscribed
        BY <1>a DEF TypeInv, Typed, TypedClients
    <2> QED
        BY <1>1, <1>2, <1>6, <2>1, <2>2
<1>10. ASSUME NEW k, k = pos[e] PROVE Ready(e, k, Len(tasks) + 1)'
    BY <1>8, <1>10 DEF Ready
<1> QED
    BY <1>4, <1>6, <1>7, <1>9, <1>10

(* Only the reaction to a call of a client changes its queues.             *)
LEMMA SubscribedStays ==
    ASSUME CallInv, [Next]_vars, NEW e \in Clients, e \in Fresh, e \in Fresh', ~disturbed', ~Reacts(e)
    PROVE  subscribed'[e] = subscribed[e]
<1> USE DEF thread, clients, plugin, switch, ghosts
<1>a. TypeInv /\ Steady
    BY ReadyFacts
<1>1. ASSUME NEW c \in Clients, Connect(c) PROVE subscribed'[e] = subscribed[e]
    <2>1. e # c
        BY <1>1 DEF Connect, Fresh
    <2> QED
        BY <1>1, <1>a, <2>1, ConnectsEmpty
<1>2. ASSUME NEW c \in Clients, Call(c) PROVE subscribed' = subscribed
    BY <1>2 DEF Call
<1>3. ASSUME React PROVE subscribed'[e] = subscribed[e]
    <2>1. PICK h \in AnyTask : h = Head(tasks) /\ h.ctx \in Contexts
        BY <1>a, <1>3, HeadIs DEF React
    <2>2. h.ctx # Context(e) /\ h.ctx[1] \in Clients
        BY <1>3, <2>1, ContextsAre DEF Reacts
    <2>3. CASE h.ctx # Context(h.ctx[1])
        BY <1>3, <2>1, <2>3 DEF React
    <2>4. CASE h.ctx = Context(h.ctx[1])
        <3>1. h.ctx[1] # e
            BY <2>2, <2>4
        <3>2. \/ subscribed' = subscribed
              \/ subscribed' = [subscribed EXCEPT ![h.ctx[1]] = IF mode.tagged THEN @ \cup {Recorded[h.call].queue}
                                                                ELSE {Recorded[h.call].queue}]
            BY <1>3, <2>1 DEF React
        <3> QED
            BY <1>a, <3>1, <3>2 DEF TypeInv, Typed, TypedClients
    <2> QED
        BY <2>3, <2>4
<1>4. RunSteps \/ SendBackResponses => subscribed' = subscribed
    BY DEF RunSteps, SendBackResponses
<1>5. FindIndex \/ Mark \/ Answer \/ SendBack \/ HandleEvent \/ UNCHANGED vars => subscribed' = subscribed
    BY DEF FindIndex, Mark, Answer, SendBack, HandleEvent, vars
<1>6. Pops \/ Keeps
    BY <1>a, StepsAre
<1> QED
    BY <1>1, <1>2, <1>3, <1>4, <1>5, <1>6 DEF Pops, Keeps

(* The queue of a subscription is in the context.                          *)
LEMMA NotedNext == RecallInv /\ AllNoted /\ [Next]_vars => AllNoted'
<1> SUFFICES ASSUME RecallInv, AllNoted, [Next]_vars, mode'.ordered, ~disturbed', Plays',
                    NEW e \in Clients, e \in Fresh', NEW k \in DOMAIN Program[e], NEW queue \in Queues,
                    Subscribes(e, k, queue), Ready(e, k, Len(tasks) + 1)'
             PROVE  Noted(e, k, queue)'
    BY DEF AllNoted, Fresh, Subscribes
<1>a. CallInv /\ TypeInv /\ Steady /\ k \in Nat /\ k >= 1
    BY Session, ProgramIs DEF RecallInv, CallInv
<1>b. mode.ordered /\ ~disturbed /\ Plays /\ mode' = mode /\ indexes # {}
    BY <1>a DEF Steady, Plays
<1>1. ~Connect(e)
    <2> SUFFICES ASSUME Connect(e) PROVE FALSE
        OBVIOUS
    <2>1. pos'[e] = 0 /\ answers'[e] = <<>>
        BY <1>a, ConnectsEmpty
    <2> QED
        BY <1>a, <2>1 DEF Ready
<1>2. e \in Fresh
    BY <1>a, <1>1 DEF Steady
<1>3. pos[e] <= Len(Program[e])
    BY <1>b, <1>2 DEF RecallInv, Turns
<1>4. Ready(e, k, Len(tasks) + 1) \/ (Reacts(e) /\ k = pos[e])
    BY <1>a, <1>2, ReadyBefore
<1>5. CASE Reacts(e) /\ k = pos[e]
    <2>1. PICK l : l = Program[e][pos[e]]
        OBVIOUS
    <2>2. Recorded[l].type = "Subscribe" /\ Recorded[l].queue = queue
        BY <1>5, <2>1 DEF Subscribes
    <2>3. subscribed'[e] = IF mode.tagged THEN subscribed[e] \cup {queue} ELSE {queue}
        BY <1>5, <1>3, <1>a, <2>1, <2>2, ReactsIs
    <2> QED
        BY <2>3 DEF Noted
<1>6. CASE Ready(e, k, Len(tasks) + 1)
    <2>1. Noted(e, k, queue)
        BY <1>6, <1>b, <1>2 DEF AllNoted
    <2>2. ASSUME ~mode.tagged, NEW n \in DOMAIN Program[e], NEW other \in Queues,
                 n > k, other # queue, Subscribes(e, n, other), Ready(e, n, Len(tasks) + 1)'
          PROVE  Noted(e, k, queue)'
        BY <1>b, <2>2 DEF Noted, Subscribes
    <2>3. CASE queue \notin subscribed[e]
        <3>1. PICK n \in DOMAIN Program[e], other \in Queues :
                  n > k /\ other # queue /\ Subscribes(e, n, other) /\ Ready(e, n, Len(tasks) + 1)
            BY <2>1, <2>3 DEF Noted
        <3>2. Ready(e, n, Len(tasks) + 1)'
            BY <1>a, <1>b, <1>2, <3>1, ReadyNext
        <3>3. ~mode.tagged
            BY <2>1, <2>3 DEF Noted
        <3> QED
            BY <2>2, <3>1, <3>2, <3>3
    <2>4. CASE queue \in subscribed[e] /\ ~Reacts(e)
        <3>1. queue \in subscribed'[e]
            BY <1>a, <1>2, <2>4, SubscribedStays
        <3> QED
            BY <3>1 DEF Noted
    <2>5. CASE queue \in subscribed[e] /\ Reacts(e)
        <3>1. PICK l : l = Program[e][pos[e]]
            OBVIOUS
        <3>2. /\ pos[e] \in DOMAIN Program[e] /\ pos[e] = Len(answers[e]) + 1 /\ Len(answers[e]) \in Nat
              /\ ~Ready(e, pos[e], Len(tasks) + 1)
              /\ \A n : n = pos[e] => Ready(e, n, Len(tasks) + 1)'
              /\ subscribed'[e] = IF Recorded[l].type # "Subscribe" THEN subscribed[e]
                                  ELSE IF mode.tagged THEN subscribed[e] \cup {Recorded[l].queue}
                                  ELSE {Recorded[l].queue}
            BY <1>3, <1>a, <2>5, <3>1, ReactsIs
        <3>3. CASE queue \in subscribed'[e]
            BY <3>3 DEF Noted
        <3>4. CASE queue \notin subscribed'[e]
            <4>1. Recorded[l].type = "Subscribe" /\ ~mode.tagged /\ Recorded[l].queue # queue
                BY <2>5, <3>2, <3>4
            <4>2. PICK n \in DOMAIN Program[e] : n = pos[e]
                BY <3>2
            <4>3. PICK other \in Queues : other = Recorded[l].queue
                <5>1. l \in Calls
                    BY <3>1, <3>2, ProgramIs
                <5> QED
                    BY <5>1, LinesAre
            <4>4. Subscribes(e, n, other) /\ other # queue
                BY <3>1, <4>1, <4>2, <4>3 DEF Subscribes
            <4>5. k # n
                BY <1>6, <3>2, <4>2
            <4>6. n > k
                <5>1. k <= Len(answers[e]) \/ k = pos[e]
                    BY <1>6 DEF Ready
                <5> QED
                    BY <1>a, <3>2, <4>2, <4>5, <5>1
            <4> QED
                BY <2>2, <3>2, <4>1, <4>2, <4>4, <4>6
        <3> QED
            BY <3>3, <3>4
    <2> QED
        BY <2>3, <2>4, <2>5
<1> QED
    BY <1>4, <1>5, <1>6


(* A call of the flow takes the callbacks recorded after it, since their   *)
(* subscriptions came before it.                                           *)
LEMMA TakesAll ==
    ASSUME RecallInv, AllNoted, Addressed, mode.ordered, ~disturbed, Plays, isActive, toReset = {},
           NEW d \in Clients, d \in Fresh, task.ctx = Context(d), pos[d] \in DOMAIN Program[d],
           found = Program[d][pos[d]], pos[d] = Len(answers[d]) + 1, Len(answers[d]) \in Nat,
           NEW m \in Indexed \ Calls, After(found, m), m \notin completedOutIndexes
    PROVE  m \in Taken
<1>a. TypeInv /\ \A c \in Clients : pos[c] \in Nat /\ Len(answers[c]) \in Nat /\ Len(answers[c]) <= pos[c]
    <2>1. \A c \in Clients : pos[c] \in Nat /\ Len(answers[c]) \in Nat
        BY DEF RecallInv, CallInv, TypeInv, Typed, TypedClients
    <2>2. \A c \in Clients : Len(answers[c]) <= pos[c]
        BY DEF RecallInv, CallInv, OneCall, Single
    <2> QED
        BY <2>1, <2>2 DEF RecallInv, CallInv
<1>b. \A x \in Calls : x \in Nat
    BY LinesAre
<1>c. found \in Calls /\ Recorded[found].client = d /\ found \in Nat
    BY <1>b, ProgramIs
<1>d. m \in Lines /\ m \in Nat /\ found < m /\ \A n \in (found + 1)..m : Recorded[n].type = "RESPONSE"
    BY LinesAre DEF Indexed, After
<1>e. m \in readResponsesFromScenario(found) \cap indexes
    <2>1. indexes = Indexed
        BY <1>a DEF TypeInv, Typed, TypedFlags, Plays
    <2>2. m > found
        BY <1>c, <1>d
    <2> QED
        BY <1>d, <2>1, <2>2 DEF readResponsesFromScenario
<1>f. ASSUME NEW j \in DOMAIN Program[d], j <= Len(answers[d]) PROVE Program[d][j] # found
    <2>1. j \in Nat /\ j < pos[d]
        BY <1>f, ProgramIs
    <2>2. Program[d][j] < found /\ Program[d][j] \in Calls
        BY <2>1, ProgramIs
    <2> QED
        BY <1>b, <1>c, <2>2
<1>g. InTurn(found)
    <2>1. pos[d] \in 1..pos[d]
        BY <1>a
    <2> QED
        BY <2>1 DEF RecallInv, Turns
<1>1. PICK s \in Calls :
          /\ s < m /\ Recorded[s].type = "Subscribe" /\ Recorded[s].queue = Recorded[m].queue
          /\ ~mode.tagged => \A r \in Calls :
                /\ s < r /\ r < m
                /\ Recorded[r].type = "Subscribe" /\ Recorded[r].client = Recorded[s].client
                => Recorded[r].queue = Recorded[s].queue
    BY DEF Addressed
<1>2. s \in Nat /\ s <= found
    <2>1. s \in Nat
        BY <1>b
    <2>2. ASSUME ~(s <= found) PROVE FALSE
        <3>1. s \in (found + 1)..m
            BY <1>1, <1>c, <1>d, <2>1, <2>2
        <3> QED
            BY <1>1, <1>d, <3>1
    <2> QED
        BY <2>1, <2>2
<1>3. PICK c \in Clients : c = Recorded[s].client
    BY LinesAre
<1>4. \E k \in DOMAIN Program[c] : Program[c][k] = s /\ c \in Fresh /\ Ready(c, k, Len(tasks) + 1)
    <2>1. CASE s = found
        BY <1>3, <1>c, <2>1 DEF Ready
    <2>2. CASE s # found
        <3>1. s < found
            BY <1>2, <1>c, <2>2
        <3>2. PICK k \in DOMAIN Program[c] : Program[c][k] = s /\ k <= Len(answers[c])
            BY <1>3, <1>g, <3>1 DEF InTurn
        <3>3. Context(c) \in cache
            BY <1>3, <1>g, <3>1 DEF InTurn
        <3>4. answers[c] # <<>>
            <4>1. k \in Nat /\ k >= 1
                BY ProgramIs
            <4> QED
                BY <3>2, <4>1
        <3>5. c \in Fresh
            BY <3>3, <3>4 DEF RecallInv, Strays, Stray, Fresh
        <3> QED
            BY <3>2, <3>5 DEF Ready
    <2> QED
        BY <2>1, <2>2
<1>5. PICK k \in DOMAIN Program[c] : Program[c][k] = s /\ c \in Fresh /\ Ready(c, k, Len(tasks) + 1)
    BY <1>4
<1>6. PICK queue \in Queues : queue = Recorded[m].queue
    BY <1>d, LinesAre
<1>7. Subscribes(c, k, queue)
    BY <1>1, <1>5, <1>6 DEF Subscribes
<1>8. Noted(c, k, queue)
    BY <1>5, <1>7 DEF AllNoted
<1>9. CASE queue \in subscribed[c]
    <2>1. Context(c) \in cache /\ Context(c)[1] = c
        BY <1>5 DEF Fresh, Context
    <2>2. Context(c) \in Subscribers(m)
        BY <1>6, <1>9, <2>1 DEF Subscribers
    <2> QED
        BY <1>e, <2>2 DEF Taken
<1>10. CASE queue \notin subscribed[c]
    <2>1. PICK n \in DOMAIN Program[c], other \in Queues :
              n > k /\ other # queue /\ Subscribes(c, n, other) /\ Ready(c, n, Len(tasks) + 1)
        BY <1>8, <1>10 DEF Noted
    <2>2. ~mode.tagged
        BY <1>8, <1>10 DEF Noted
    <2>3. PICK r \in Calls : r = Program[c][n] /\ Recorded[r].client = c
        BY ProgramIs
    <2>4. s < r
        <3>1. k < n
            BY <2>1, ProgramIs
        <3> QED
            BY <1>5, <2>3, <3>1, ProgramIs
    <2>5. Recorded[r].type = "Subscribe" /\ Recorded[r].queue # Recorded[s].queue
        BY <1>1, <1>6, <2>1, <2>3 DEF Subscribes
    <2>6. ~(r < m)
        BY <1>1, <1>3, <2>2, <2>3, <2>4, <2>5
    <2>7. found < r
        <3>1. r \in Nat
            BY <1>b
        <3> QED
            BY <1>c, <1>d, <2>6, <3>1
    <2>8. n \in 1..pos[c]
        <3>1. n <= Len(answers[c]) \/ n = pos[c]
            BY <2>1 DEF Ready
        <3>2. n \in Nat /\ n >= 1
            BY ProgramIs
        <3> QED
            BY <1>a, <3>1, <3>2
    <2>9. InTurn(r)
        BY <1>5, <2>3, <2>8 DEF RecallInv, Turns
    <2>10. \E j \in DOMAIN Program[d] : Program[d][j] = found /\ j <= Len(answers[d])
        BY <1>c, <2>7, <2>9 DEF InTurn
    <2> QED
        BY <1>f, <2>10
<1> QED
    BY <1>9, <1>10

(* The callbacks after an answered call were taken.                        *)
LEMMA AllTakenNext == RecallInv /\ AllNoted /\ AllTaken /\ [Next]_vars => AllTaken'
<1> SUFFICES ASSUME RecallInv, AllNoted, AllTaken, [Next]_vars, Addressed', mode'.ordered, ~disturbed', Plays',
                    NEW e \in Clients, e \in Fresh', NEW k \in DOMAIN Program[e], k <= Len(answers'[e]),
                    NEW m \in Indexed \ Calls, After(Program[e][k], m)
             PROVE  m \in completedOutIndexes'
    BY DEF AllTaken, Fresh, Done
<1>a. CallInv /\ TypeInv /\ Steady /\ k \in Nat /\ k >= 1
    BY Session, ProgramIs DEF RecallInv, CallInv
<1>b. mode.ordered /\ ~disturbed /\ Plays /\ Addressed
    BY <1>a DEF Steady, Plays, Addressed
<1>c. isActive /\ toReset = {}
    BY <1>a DEF Steady, isActive, TypeInv, Switched
<1>1. ~Connect(e)
    <2> SUFFICES ASSUME Connect(e) PROVE FALSE
        OBVIOUS
    <2>1. answers'[e] = <<>>
        BY <1>a, ConnectsEmpty
    <2> QED
        BY <1>a, <2>1
<1>2. e \in Fresh
    BY <1>a, <1>1 DEF Steady
<1>3. CASE k <= Len(answers[e])
    <2>1. m \in completedOutIndexes
        BY <1>b, <1>2, <1>3 DEF AllTaken, Done
    <2> QED
        BY <1>a, <2>1 DEF Steady
<1>4. CASE ~(k <= Len(answers[e]))
    <2>1. Pops \/ Keeps
        BY <1>a, StepsAre
    <2>2. answers'[e] # answers[e] /\ answers'[e] # <<>>
        BY <1>4, <1>a
    <2>3. /\ task.ctx = Context(e) /\ pos[e] = Len(answers[e]) + 1 /\ Len(answers'[e]) = pos[e]
          /\ FindIndex \/ Answer
        BY <1>2, <1>a, <2>1, <2>2, AnswersGrow
    <2>4. Len(answers[e]) \in Nat /\ k = Len(answers[e]) + 1
        BY <1>4, <1>a, <2>3 DEF TypeInv, Typed, TypedClients
    <2>5. ASSUME FindIndex PROVE FALSE
        <3>1. GetsAnswer(task.ctx, 0) /\ task.ctx \in Contexts
            BY <1>a, <2>2, <2>5 DEF FindIndex, Upstream, TypeInv, Hands, InCall
        <3>2. task.ctx \in cache
            BY <1>2, <2>3 DEF Fresh
        <3>3. answers'[e][k] = 0
            BY <1>a, <2>3, <2>4, <3>1, <3>2, AnswerGot
        <3>4. Recalled'
            BY RecallNext DEF RecallInv
        <3>5. answers'[e][k] = Program[e][k]
            BY <3>4 DEF Recalled, Faithful
        <3>6. Program[e][k] \in Calls /\ 0 \notin Lines /\ Calls \subseteq Lines
            BY ProgramIs, LinesAre
        <3> QED
            BY <3>3, <3>5, <3>6
    <2>6. CASE Answer
        <3>1. task.ctx \in fresh
            BY <1>2, <2>3 DEF Fresh
        <3>2. PICK d \in Clients :
                  /\ d \in Fresh /\ task.ctx = Context(d) /\ pos[d] \in DOMAIN Program[d]
                  /\ found = Program[d][pos[d]] /\ pos[d] = Len(answers[d]) + 1 /\ Len(answers[d]) \in Nat
            BY <1>b, <2>6, <3>1, AnswersOwn
        <3>3. d = e
            BY <2>3, <3>2 DEF Context
        <3>4. After(found, m)
            BY <2>3, <2>4, <3>2, <3>3
        <3>5. m \notin completedOutIndexes => m \in Taken
            BY <1>b, <1>c, <3>2, <3>4, TakesAll
        <3> QED
            BY <1>a, <2>6, <3>5, AnswerIs DEF TypeInv
    <2> QED
        BY <2>3, <2>5, <2>6
<1> QED
    BY <1>3, <1>4


LEMMA ReachNext == ReachInv /\ [Next]_vars => ReachInv'
<1>1. ReachInv /\ [Next]_vars => RecallInv' /\ OnceInv'
    BY RecallNext, OnceNext DEF ReachInv
<1>2. ReachInv /\ [Next]_vars => AllWhole' /\ OnItsWay'
    BY WholeNext, WayNext DEF ReachInv
<1>3. ReachInv /\ [Next]_vars => AllNoted' /\ AllTaken'
    BY NotedNext, AllTakenNext DEF ReachInv
<1> QED
    BY <1>1, <1>2, <1>3 DEF ReachInv

LEMMA ReachInit == Init => ReachInv
<1> SUFFICES ASSUME Init PROVE ReachInv
    OBVIOUS
<1>1. Fresh = {} /\ completedOutIndexes = {} /\ result = <<>> /\ tasks = <<>>
    BY DEF Init, Fresh
<1>2. DOMAIN <<>> = {}
    OBVIOUS
<1>3. AllNoted /\ OnItsWay /\ AllTaken
    BY <1>1 DEF AllNoted, OnItsWay, AllTaken
<1>4. AllWhole
    BY <1>1, <1>2 DEF AllWhole, Whole
<1> QED
    BY <1>3, <1>4, RecallInit, OnceInit DEF ReachInv

LEMMA ReachHolds == Spec => []ReachInv
<1>1. ReachInv /\ UNCHANGED vars => ReachInv'
    BY ReachNext
<1> QED
    BY <1>1, ReachInit, ReachNext, PTL DEF Spec

(* The last call recorded before a callback.                               *)
LEMMA LastCall ==
    ASSUME NEW m \in Lines, m \notin Calls, NEW s \in Calls, s < m
    PROVE  \E l \in Calls : After(l, m)
<1> DEFINE D == {x \in Nat : \E l \in Calls : l < m /\ x = m - l}
<1>1. m \in Nat /\ \A x \in Calls : x \in Nat
    BY LinesAre
<1>2. D \subseteq Nat /\ D # {}
    <2>1. m - s \in Nat
        BY <1>1
    <2>2. m - s \in D
        BY <2>1
    <2> QED
        BY <2>2
<1>3. PICK d \in D : \A x \in D : <<x, d>> \notin OpToRel(<, Nat)
    <2> HIDE DEF D
    <2> QED
        BY <1>2, NatLessThanWellFounded, WFMin, Zenon
<1>4. PICK l \in Calls : l < m /\ d = m - l
    BY <1>3
<1>5. ASSUME NEW n \in (l + 1)..m PROVE Recorded[n].type = "RESPONSE"
    <2>1. l \in Nat /\ n \in Nat /\ l < n /\ n <= m
        BY <1>1
    <2>2. n \in Lines
        BY <1>1, <2>1, LinesAre
    <2>3. n \notin Calls
        <3> SUFFICES ASSUME n \in Calls PROVE FALSE
            OBVIOUS
        <3>1. n < m
            <4>1. n # m
                OBVIOUS
            <4> QED
                BY <1>1, <2>1, <4>1
        <3>2. m - n \in D
            <4>1. m - n \in Nat
                BY <1>1, <2>1, <3>1
            <4> QED
                BY <3>1, <4>1
        <3>3. m - n < d /\ d \in Nat
            BY <1>1, <1>4, <2>1, <3>1
        <3>4. <<m - n, d>> \notin OpToRel(<, Nat)
            BY <1>3, <3>2
        <3>5. m - n \in Nat
            BY <3>2
        <3> HIDE DEF D
        <3> QED
            BY <3>3, <3>4, <3>5 DEF OpToRel
    <2> QED
        BY <2>2, <2>3, CallbacksAre DEF Callbacks
<1> QED
    BY <1>4, <1>5 DEF After

(***************************************************************************)
(* All callbacks are replayed: clients that keep the order of the          *)
(* recording and have all their answers from it have got, once the         *)
(* executor is idle, every callback recorded for a subscriber: each was    *)
(* taken by the call before it, since the subscription was noted before,   *)
(* and no batch that was taken is dropped (loadAndPrepareTheAsyncResponses,*)
(* sendBackResponses).                                                     *)
(***************************************************************************)
THEOREM CallbacksReplayed == Spec => []AllCallbacksReplayed
<1>1. ReachInv => AllCallbacksReplayed
    <2> SUFFICES ASSUME ReachInv, Addressed, mode.ordered, ~disturbed, tasks = <<>>, pc = "idle",
                        \A c \in Clients : c \in Fresh /\ \A k \in DOMAIN Program[c] :
                            k <= Len(answers[c]) /\ answers[c][k] # Upstream,
                        NEW m \in Indexed \ Calls
                 PROVE  \E c \in Clients : \E i \in DOMAIN messages[c] : messages[c][i].line = m
        BY DEF AllCallbacksReplayed
    <2>1. PICK s \in Calls : s < m
        BY DEF Addressed
    <2>2. m \in Lines /\ m \notin Calls
        BY DEF Indexed
    <2>3. PICK l \in Calls : After(l, m)
        BY <2>1, <2>2, LastCall
    <2>4. PICK c \in Clients : c = Recorded[l].client
        BY LinesAre
    <2>5. PICK k \in DOMAIN Program[c] : Program[c][k] = l
        BY <2>4, ProgramIs
    <2>6. c \in Fresh /\ k <= Len(answers[c]) /\ answers[c][k] # Upstream
        OBVIOUS
    <2>7. Plays
        BY <2>6 DEF ReachInv, RecallInv, Recalled, Faithful
    <2>8. m \in completedOutIndexes
        BY <2>3, <2>5, <2>6, <2>7 DEF ReachInv, AllTaken, Done
    <2>9. settingsActive /\ result = <<>>
        <3>1. fresh # {} /\ Switched /\ Hands
            BY <2>6 DEF Fresh, ReachInv, OnceInv, CallInv, TypeInv
        <3>2. switchPc = "idle" /\ active
            BY <3>1 DEF Switched
        <3>3. settingsActive
            BY <3>1, <3>2 DEF Switched
        <3> QED
            BY <3>1, <3>3 DEF Hands
    <2>10. PICK d \in Clients : Given(d, m)
        BY <2>8, <2>9 DEF ReachInv, OnItsWay
    <2>11. DOMAIN <<>> = {}
        OBVIOUS
    <2> QED
        BY <2>9, <2>10, <2>11 DEF Given, Holds
<1> QED
    BY <1>1, ReachHolds, PTL
=============================================================================
