-------------------------- MODULE RecordingProofs --------------------------
(***************************************************************************)
(* Recording calls, for any threads, any number of calls, of switches, of  *)
(* stops and of crashes, and for an administrator who is not hasty.        *)
(***************************************************************************)
EXTENDS Recording, TLAPS, SequenceTheorems, WellFoundedInduction

AnyLine  == [n : Nat, id : Nat, stored : BOOLEAN]
AnyEvent == [type : {"StartWrite", "WriteItem", "FinalizeWrite", "Terminate"},
             of : Instances \cup {"all"}, line : AnyLine]
AnyCall  == [pc : {"idle", "calling", "saving"}, of : Instances \cup {"none"}, n : Nat, id : Nat]

(* The types of every variable the properties are about; an executor that  *)
(* is not idle has a line in hand.                                         *)
Typed ==
    /\ index \in [Instances -> SUBSET AnyLine] /\ lines \in [Instances -> SUBSET AnyLine]
    /\ DOMAIN files = Instances /\ files = [p \in Instances |-> files[p]]
    /\ \A p \in Instances : DOMAIN files[p] \subseteq Nat
    /\ storageCounter \in Nat /\ maxIndex \in Nat /\ calls \in 0..MaxCalls
    /\ recording \in SUBSET Instances /\ somethingWritten \in SUBSET Instances
    /\ active \in [Instances -> BOOLEAN] /\ settingsActive \in [Instances -> BOOLEAN]
    /\ adminPc \in [Instances -> {"idle", "waiting"}]
    /\ caller \in [Callers -> AnyCall]
    /\ events \in Seq(AnyEvent) /\ pending \in Seq(AnyEvent)
    /\ workerPc \in {"idle", "starting", "finalizing"}
    /\ execPc \in {"idle", "adding", "orphaned", "writing"} /\ (execPc # "idle" => pending # <<>>)
    /\ quitBy \in {"none"} \cup Quits /\ quitPc \in {"none", "stopping", "waiting"}
    /\ toStop \in SUBSET Instances
    /\ issued \in Seq(Nat)
    /\ inTime \in [Instances -> SUBSET AnyLine]

(* Calls, events and lines belong to an instance.                          *)
Owned ==
    /\ \A c \in Callers : caller[c].pc # "idle" => caller[c].of \in Instances
    /\ \A i \in DOMAIN events : events[i].type # "Terminate" => events[i].of \in Instances
    /\ \A i \in DOMAIN pending : pending[i].type = "WriteItem" /\ pending[i].of \in Instances

(* Each call uses one id, and the start of a recording after it may skip   *)
(* another.                                                                *)
Small(n, id, k) == n <= k /\ id <= 2 * k + 1
Bounded ==
    /\ \A p \in Instances : \A l \in index[p] \cup lines[p] : Small(l.n, l.id, calls)
    /\ \A p \in Instances : \A id \in DOMAIN files[p] : id <= 2 * calls + 1
    /\ \A c \in Callers : Small(caller[c].n, caller[c].id, calls)
    /\ \A i \in DOMAIN events : Small(events[i].line.n, events[i].line.id, calls)
    /\ \A i \in DOMAIN pending : Small(pending[i].line.n, pending[i].line.id, calls)
    /\ storageCounter <= 2 * calls + 2 /\ maxIndex <= 2 * calls + 2

(* A plugin is active only with its settings, and nothing is switched      *)
(* while the process quits.                                                *)
Switching ==
    /\ \A p \in Instances : active[p] \/ adminPc[p] = "waiting" => settingsActive[p]
    /\ quitBy = "none" => quitPc = "none" /\ toStop = Instances
    /\ quitBy # "none" => \A p \in Instances : adminPc[p] = "idle"

(* What waits in the queue: the start of a recording is the first event of *)
(* its instance, the end of one comes when it is switched off or stopped.  *)
Sent(i, type, p) == events[i].type = type /\ events[i].of = p
Queue ==
    /\ \A i \in DOMAIN events : \A p \in Instances : Sent(i, "FinalizeWrite", p) =>
          adminPc[p] = "idle" /\ (active[p] => p \notin toStop)
    /\ \A i, j \in DOMAIN events :
          i < j /\ events[j].type = "StartWrite" => events[i].of # events[j].of

(* An active plugin has its repo, unless its server was told to stop and   *)
(* the end of the recording is what comes next for it.                     *)
Repos ==
    up =>
        /\ \A p \in Instances : active[p] /\ p \in toStop => p \in recording
        /\ \A i \in DOMAIN events : \A p \in Instances :
              Sent(i, "StartWrite", p) /\ active[p] => p \in recording
        /\ workerPc = "starting" =>
              /\ events # <<>> /\ events[1].type = "StartWrite"
              /\ events[1].of \notin recording
        /\ workerPc = "finalizing" =>
              /\ events # <<>> /\ events[1].type = "FinalizeWrite"
              /\ events[1].of \notin recording

TypeInv == Typed /\ Owned /\ Bounded /\ Switching /\ Queue /\ Repos

-----------------------------------------------------------------------------
(* The ids, with the calls they were given to, that are not in the index:  *)
(* of the calls under way, in the queue and with the executor.             *)
Play(cs, es, ps) ==
    {<<cs[c].id, cs[c].n>> : c \in {d \in Callers : cs[d].id # 0}}
    \cup {<<es[i].line.id, es[i].line.n>> : i \in {j \in DOMAIN es : es[j].type = "WriteItem"}}
    \cup {<<ps[i].line.id, ps[i].line.n>> : i \in DOMAIN ps}
InPlay == Play(caller, events, pending)

(* What is saved has an id.                                                *)
Numbered == \A c \in Callers : caller[c].pc = "saving" => caller[c].id # 0

(* With one instance, the counter is never set back and is past every id.  *)
Counter ==
    /\ UniqueProgressiveIds
    /\ up =>
        /\ \A i \in DOMAIN issued : issued[i] <= storageCounter
        /\ workerPc = "starting" =>
              /\ storageCounter <= maxIndex
              /\ \A p \in Instances : \A l \in index[p] : l.id <= maxIndex
        /\ \A x \in InPlay : x[1] <= storageCounter
        /\ \A p \in recording : \A l \in index[p] \cup lines[p] : l.id <= storageCounter

(* One id is of one call.                                                  *)
SameCall ==
    up => \A x \in InPlay :
        /\ \A y \in InPlay : x[1] = y[1] => x[2] = y[2]
        /\ \A p \in Instances : \A l \in index[p] \cup lines[p] : x[1] = l.id => x[2] = l.n

(* The item files are as the lines say, the ones of a running recording    *)
(* and the ones of the index file, but for the line the executor has not   *)
(* written yet and the ones that went to the index file that way.          *)
Writing == IF execPc = "writing" THEN {pending[1]} ELSE {}
Described(p, ls, items, es) ==
    \A l \in ls : l.stored => \/ l.id \in DOMAIN items /\ items[l.id] = l.n
                              \/ Event("WriteItem", p, l) \in es
Describes ==
    \A p \in Instances :
        /\ Described(p, index[p], files[p], torn)
        /\ up /\ (p \in recording \/ workerPc = "finalizing") =>
              Described(p, lines[p], files[p], torn \cup Writing)

IdsInv == TypeInv /\ Numbered /\ Counter /\ SameCall /\ Describes

-----------------------------------------------------------------------------
(* Without the console, the recording of an instance that is not recorded  *)
(* for much longer has its end in the queue.                               *)
EndComes(p) == \E i \in DOMAIN events : Sent(i, "FinalizeWrite", p)
Ends ==
    /\ \A p \in Instances : (p \in recording \/ \E i \in DOMAIN events : Sent(i, "StartWrite", p)) =>
          \/ active[p] /\ p \in toStop
          \/ adminPc[p] = "waiting"
          \/ EndComes(p)
    /\ quitPc = "stopping" => \A p \in Instances : EndComes(p) => p \in toStop
    /\ \A i \in DOMAIN events : events[i].type = "Terminate" =>
          /\ toStop = {} /\ quitBy # "none" /\ quitPc = "none"
          /\ \A j \in DOMAIN events : events[j].type = "FinalizeWrite" => j < i

(* Where the lines of a recording are that were sent in time: written,     *)
(* with the executor, or in the queue before the end of the recording.     *)
ItemIds(ls) == {l.id : l \in ls}
Underway(p, l) ==
    \/ \E i \in DOMAIN pending : pending[i].of = p /\ pending[i].line = l
    \/ \E i \in DOMAIN events :
          /\ Sent(i, "WriteItem", p) /\ events[i].line = l
          /\ \A j \in 1..(i - 1) : ~Sent(j, "FinalizeWrite", p)
Finalizing(p) == workerPc = "finalizing" /\ events[1].of = p
Kept(p) ==
    /\ up /\ p \in recording =>
          /\ \A l \in inTime[p] : l \in lines[p] \/ Underway(p, l)
          /\ p \notin somethingWritten => lines[p] = index[p]
          /\ DOMAIN files[p] \subseteq ItemIds(lines[p])
    /\ up /\ Finalizing(p) => inTime[p] \subseteq lines[p] /\ DOMAIN files[p] \subseteq ItemIds(lines[p])
    /\ ~up \/ (p \notin recording /\ ~Finalizing(p)) =>
          inTime[p] \subseteq index[p] /\ DOMAIN files[p] \subseteq ItemIds(index[p])

(* Where the executor is when no wait was too short: its repo is there     *)
(* until it is done.                                                       *)
Busy ==
    /\ execPc # "orphaned"
    /\ execPc # "idle" => pending[1].of \in recording
    /\ execPc = "writing" => pending[1].line \in lines[pending[1].of]
    /\ workerPc = "finalizing" => pending = <<>>

Regular == ~timedOut /\ crashes = 0
Complete == (up => Ends) /\ \A p \in Instances : Kept(p)
CompleteInv == TypeInv /\ crashes \in Nat /\ (Regular => Complete /\ (up => Busy))

(* No id in play has an item file of another call.                         *)
FilesOfCalls ==
    up => \A x \in InPlay : \A p \in Instances : x[1] \in DOMAIN files[p] => files[p][x[1]] = x[2]
KeptInv == IdsInv /\ CompleteInv /\ (Regular => FilesOfCalls)

-----------------------------------------------------------------------------
(* The events that are sent are events.                                    *)
LEMMA EventTypes ==
    /\ NoLine \in AnyLine /\ NoLine.n = 0 /\ NoLine.id = 0
    /\ \A p \in Instances :
          /\ Start(p) \in AnyEvent /\ Start(p).type = "StartWrite" /\ Start(p).of = p
          /\ Start(p).line = NoLine
          /\ Finalize(p) \in AnyEvent /\ Finalize(p).type = "FinalizeWrite" /\ Finalize(p).of = p
          /\ Finalize(p).line = NoLine
    /\ Terminate \in AnyEvent /\ Terminate.type = "Terminate" /\ Terminate.line = NoLine
    /\ \A p \in Instances, l \in AnyLine :
          LET e == Event("WriteItem", p, l)
          IN  e \in AnyEvent /\ e.type = "WriteItem" /\ e.of = p /\ e.line = l
    /\ \A n, id \in Nat, stored \in BOOLEAN :
          LET l == Line(n, id, stored)
          IN  l \in AnyLine /\ l.n = n /\ l.id = id /\ l.stored = stored
BY DEF AnyLine, AnyEvent, NoLine, Line, Start, Finalize, Terminate, Event

LEMMA CallTypes ==
    /\ Idle \in AnyCall /\ Idle.pc = "idle" /\ Idle.n = 0 /\ Idle.id = 0
    /\ \A pc \in {"idle", "calling", "saving"}, p \in Instances, n, id \in Nat :
          [pc |-> pc, of |-> p, n |-> n, id |-> id] \in AnyCall
    /\ \A k \in AnyCall : [k EXCEPT !.pc = "saving"] \in AnyCall
BY DEF AnyCall, Idle

(* A bounded set of naturals has a greatest element.                       *)
LEMMA GreatestNatural ==
    ASSUME NEW S \in SUBSET Nat, S # {}, NEW b \in Nat, \A x \in S : x <= b
    PROVE  Max(S) \in S /\ \A x \in S : x <= Max(S)
<1> DEFINE D == {b - x : x \in S}
<1>1. D \in SUBSET Nat /\ D # {}
    <2>1. \A x \in S : b - x \in Nat
        OBVIOUS
    <2>2. PICK x \in S : TRUE
        OBVIOUS
    <2>3. b - x \in D
        BY <2>2
    <2> QED
        BY <2>1, <2>3
<1>2. PICK d \in D : \A e \in D : ~ (<<e, d>> \in OpToRel(<, Nat))
    BY <1>1, WFMin, NatLessThanWellFounded
<1>3. \A e \in D : ~ (e < d)
    BY <1>1, <1>2 DEF OpToRel
<1>4. PICK m \in S : d = b - m
    BY <1>2
<1>5. \A x \in S : m >= x
    <2> TAKE x \in S
    <2>1. b - x \in D
        OBVIOUS
    <2>2. ~ (b - x < b - m)
        BY <1>3, <1>4, <2>1
    <2> QED
        BY <2>2
<1>6. Max(S) \in S /\ \A x \in S : Max(S) >= x
    BY <1>5, Zenon DEF Max
<1> QED
    BY <1>6

-----------------------------------------------------------------------------
LEMMA InitTyped == Init => TypeInv
<1> SUFFICES ASSUME Init PROVE TypeInv
    OBVIOUS
<1>1. PICK old \in SUBSET Instances :
          /\ index = [p \in Instances |-> IF p \in old THEN {Line(0, 1, TRUE)} ELSE {}]
          /\ files = [p \in Instances |-> IF p \in old THEN [id \in {1} |-> 0] ELSE << >>]
    BY DEF Init
<1>2. Line(0, 1, TRUE) \in AnyLine /\ Line(0, 1, TRUE).n = 0 /\ Line(0, 1, TRUE).id = 1
    BY DEF Line, AnyLine
<1>3. /\ index \in [Instances -> SUBSET AnyLine]
      /\ \A p \in Instances : \A l \in index[p] : l.n = 0 /\ l.id = 1
    BY <1>1, <1>2
<1>4. /\ DOMAIN files = Instances /\ files = [p \in Instances |-> files[p]]
      /\ \A p \in Instances : \A id \in DOMAIN files[p] : id = 1
    BY <1>1
<1>5. events = <<>> /\ pending = <<>> /\ issued = <<>> /\ execPc = "idle"
    BY DEF Init
<1>6. events \in Seq(AnyEvent) /\ pending \in Seq(AnyEvent) /\ issued \in Seq(Nat)
    BY <1>5, EmptySeq
<1>7. caller \in [Callers -> AnyCall] /\ \A c \in Callers : caller[c] = Idle
    BY CallTypes DEF Init
<1>8. active \in [Instances -> BOOLEAN] /\ settingsActive \in [Instances -> BOOLEAN]
    BY DEF Init
<1>9. lines \in [Instances -> SUBSET AnyLine] /\ inTime \in [Instances -> SUBSET AnyLine]
    BY DEF Init
<1>10. calls = 0 /\ storageCounter = 0 /\ maxIndex = 0 /\ recording = {} /\ somethingWritten = {}
    BY DEF Init
<1>11. Typed
    <2>1. /\ adminPc \in [Instances -> {"idle", "waiting"}]
          /\ workerPc \in {"idle", "starting", "finalizing"}
          /\ quitBy \in {"none"} \cup Quits /\ quitPc \in {"none", "stopping", "waiting"}
          /\ toStop \in SUBSET Instances
        BY DEF Init
    <2>2. \A p \in Instances : DOMAIN files[p] \subseteq Nat
        BY <1>4
    <2> QED
        BY <1>3, <1>4, <1>5, <1>6, <1>7, <1>8, <1>9, <1>10, <2>1, <2>2, ConstantsAssumption DEF Typed
<1>12. Owned
    BY <1>5, <1>7, CallTypes DEF Owned
<1>13. Bounded
    <2>1. \A p \in Instances : lines[p] = {}
        BY DEF Init
    <2>2. \A c \in Callers : caller[c].n = 0 /\ caller[c].id = 0
        BY <1>7, CallTypes
    <2> QED
        BY <1>3, <1>4, <1>5, <1>10, <2>1, <2>2 DEF Bounded, Small
<1>14. Switching /\ Queue /\ Repos
    BY <1>5 DEF Init, Switching, Queue, Repos
<1> QED
    BY <1>11, <1>12, <1>13, <1>14 DEF TypeInv

(* What initializeContentForWrite makes of the counter: it is past the     *)
(* index file, and not set back.                                           *)
LEMMA StartMax ==
    ASSUME TypeInv, NEW p \in Instances, index[p] # {},
           NEW m, m = Max({storageCounter, Max({l.id : l \in index[p]}) + 1})
    PROVE  /\ m \in Nat /\ storageCounter <= m /\ m <= 2 * calls + 2
           /\ \A l \in index[p] : l.id <= m
<1> DEFINE ids == {l.id : l \in index[p]}
           b == 2 * calls + 1
           both == {storageCounter, Max(ids) + 1}
<1>1. index[p] \in SUBSET AnyLine /\ calls \in Nat /\ b \in Nat /\ storageCounter \in Nat
    BY DEF TypeInv, Typed
<1>2. \A l \in index[p] : l.id \in Nat
    BY <1>1 DEF AnyLine
<1>3. ids \in SUBSET Nat /\ ids # {} /\ \A x \in ids : x <= b
    BY <1>2 DEF TypeInv, Bounded, Small
<1> HIDE DEF ids, b
<1>4. Max(ids) \in ids /\ \A x \in ids : x <= Max(ids)
    BY <1>1, <1>3, GreatestNatural
<1>5. Max(ids) \in Nat /\ Max(ids) <= b
    BY <1>3, <1>4
<1>6. both \in SUBSET Nat /\ both # {} /\ b + 1 \in Nat /\ \A x \in both : x <= b + 1
    BY <1>1, <1>5 DEF TypeInv, Bounded, b
<1>7. Max(both) \in both /\ \A x \in both : x <= Max(both)
    BY <1>6, GreatestNatural
<1>8. m = Max(both)
    BY DEF ids
<1> HIDE DEF both
<1>9. m \in Nat /\ m <= b + 1 /\ \A x \in both : x <= m
    BY <1>6, <1>7, <1>8
<1>10. storageCounter <= m /\ Max(ids) + 1 <= m
    BY <1>9 DEF both
<1>11. ASSUME NEW l \in index[p] PROVE l.id <= m
    <2>1. l.id \in ids
        BY DEF ids
    <2>2. l.id \in Nat /\ l.id <= Max(ids)
        BY <1>3, <1>4, <2>1
    <2> QED
        BY <1>5, <1>9, <1>10, <2>2
<1>12. m <= 2 * calls + 2
    BY <1>1, <1>9 DEF b
<1> QED
    BY <1>9, <1>10, <1>11, <1>12

(* A worker with an event in hand.                                         *)
LEMMA InHandIs ==
    ASSUME TypeInv, NEW type, InHand(type)
    PROVE  /\ up /\ events # <<>> /\ Len(events) \in Nat /\ Len(events) >= 1
           /\ 1 \in DOMAIN events /\ Head(events) = events[1] /\ events[1].type = type
           /\ events[1] \in AnyEvent
           /\ type # "Terminate" => events[1].of \in Instances
           /\ Tail(events) \in Seq(AnyEvent) /\ Len(Tail(events)) = Len(events) - 1
           /\ \A i \in DOMAIN Tail(events) :
                 /\ i \in Nat /\ i >= 1 /\ i + 1 \in DOMAIN events /\ i + 1 \in 2..Len(events)
                 /\ Tail(events)[i] = events[i + 1]
<1>1. events \in Seq(AnyEvent) /\ events # <<>> /\ up /\ Head(events).type = type
    BY DEF TypeInv, Typed, InHand
<1>2. /\ Len(events) \in Nat /\ Len(events) >= 1 /\ 1 \in DOMAIN events
      /\ Head(events) = events[1] /\ events[1] \in AnyEvent
    BY <1>1
<1>3. /\ Tail(events) \in Seq(AnyEvent) /\ Len(Tail(events)) = Len(events) - 1
      /\ \A i \in 1..(Len(events) - 1) : Tail(events)[i] = events[i + 1]
    BY <1>1, HeadTailProperties
<1> QED
    BY <1>1, <1>2, <1>3 DEF TypeInv, Owned

(* A line given to the executor.                                           *)
LEMMA PendingIs ==
    ASSUME TypeInv, pending # <<>>
    PROVE  /\ Len(pending) \in Nat /\ Len(pending) >= 1
           /\ 1 \in DOMAIN pending /\ Head(pending) = pending[1] /\ pending[1] \in AnyEvent
           /\ pending[1].of \in Instances /\ pending[1].line \in AnyLine
           /\ pending[1] = Event("WriteItem", pending[1].of, pending[1].line)
           /\ Tail(pending) \in Seq(AnyEvent)
           /\ \A i \in DOMAIN Tail(pending) :
                 i + 1 \in DOMAIN pending /\ Tail(pending)[i] = pending[i + 1]
<1>1. pending \in Seq(AnyEvent) /\ pending # <<>>
    BY DEF TypeInv, Typed
<1>2. /\ Len(pending) \in Nat /\ Len(pending) >= 1 /\ 1 \in DOMAIN pending
      /\ Head(pending) = pending[1] /\ pending[1] \in AnyEvent
    BY <1>1
<1>3. /\ Tail(pending) \in Seq(AnyEvent) /\ Len(Tail(pending)) = Len(pending) - 1
      /\ \A i \in 1..(Len(pending) - 1) : Tail(pending)[i] = pending[i + 1]
    BY <1>1, HeadTailProperties
<1>4. pending[1].line \in AnyLine
    BY <1>2 DEF AnyEvent
<1>5. \A e \in AnyEvent : e.type = "WriteItem" => e = Event("WriteItem", e.of, e.line)
    BY DEF AnyEvent, Event
<1> QED
    BY <1>1, <1>2, <1>3, <1>4, <1>5 DEF TypeInv, Owned

(* What a step of the executor may do with the line in hand.               *)
LEMMA ExecutorIs ==
    ASSUME TypeInv, Executor
    PROVE  \E p \in Instances, line \in AnyLine :
              /\ p = pending[1].of /\ line = pending[1].line /\ 1 \in DOMAIN pending
              /\ Head(pending) = pending[1] /\ pending[1] = Event("WriteItem", p, line)
              /\ up /\ pending # <<>> /\ pending' \in {pending, Tail(pending)}
              /\ lines' = lines \/ lines' = [lines EXCEPT ![p] = lines[p] \cup {line}]
              /\ somethingWritten' \in {somethingWritten, somethingWritten \cup {p}}
              /\ files' = files \/ files' = [files EXCEPT ![p] = WithItem(files[p], line)]
              /\ execPc' \in {"idle", "adding", "orphaned", "writing"}
              /\ execPc' # "idle" => pending' = pending
              /\ UNCHANGED <<index, recording, storageCounter, plugins, caller, worker, quitter,
                             up, issued, inTime, calls, bounds, timedOut, failed>>
<1> USE DEF disk, repos
<1>1. pending # <<>> /\ up
    BY DEF Executor, ExecutorTakes, ExecutorAdds, ExecutorWrites, InHandOfExecutor
<1>2. PICK p \in Instances, line \in AnyLine :
          /\ p = pending[1].of /\ line = pending[1].line /\ 1 \in DOMAIN pending
          /\ Head(pending) = pending[1] /\ pending[1] = Event("WriteItem", p, line)
    BY <1>1, PendingIs
<1>3. CASE ExecutorTakes
    BY <1>1, <1>2, <1>3 DEF ExecutorTakes, InHandOfExecutor
<1>4. CASE ExecutorAdds
    BY <1>1, <1>2, <1>4 DEF ExecutorAdds, InHandOfExecutor
<1>5. CASE ExecutorWrites
    BY <1>1, <1>2, <1>5 DEF ExecutorWrites, InHandOfExecutor
<1> QED
    BY <1>3, <1>4, <1>5 DEF Executor

-----------------------------------------------------------------------------
(* The types, one step of each kind at a time.                             *)
LEMMA TypedByPlugins ==
    ASSUME TypeInv, NEW p \in Instances,
           Activate(p) \/ Activated(p) \/ ActivationTimesOut(p) \/ Deactivate(p)
    PROVE  Typed'
<1> USE DEF disk, repos, plugins, worker, executor, quitter, bounds
<1>1. Append(events, Start(p)) \in Seq(AnyEvent) /\ Append(events, Finalize(p)) \in Seq(AnyEvent)
    BY EventTypes DEF TypeInv, Typed
<1>2. CASE Activate(p)
    BY <1>1, <1>2 DEF TypeInv, Typed, Activate
<1>3. CASE Activated(p)
    BY <1>3 DEF TypeInv, Typed, Activated
<1>4. CASE ActivationTimesOut(p)
    BY <1>4 DEF TypeInv, Typed, ActivationTimesOut
<1>5. CASE Deactivate(p)
    BY <1>1, <1>5 DEF TypeInv, Typed, Deactivate
<1> QED
    BY <1>2, <1>3, <1>4, <1>5

LEMMA TypedByCalls ==
    ASSUME TypeInv, NEW c \in Callers, NEW p \in Instances,
           PreCall(c, p) \/ PostCall(c) \/ AsyncResponse(c, p) \/ SendLine(c)
    PROVE  Typed'
<1> USE DEF disk, repos, plugins, worker, executor, quitter, bounds
<1>1. /\ calls \in Nat /\ storageCounter \in Nat /\ calls + 1 \in Nat /\ storageCounter + 1 \in Nat
      /\ caller[c] \in AnyCall /\ issued \in Seq(Nat) /\ caller \in [Callers -> AnyCall]
    BY DEF TypeInv, Typed
<1>2. generateIndex /\ calls < MaxCalls =>
          /\ storageCounter' \in Nat /\ issued' \in Seq(Nat) /\ calls' \in 0..MaxCalls
    BY <1>1, ConstantsAssumption DEF generateIndex
<1>3. CASE PreCall(c, p)
    <2>1. caller' \in [Callers -> AnyCall]
        BY <1>1, <1>3, CallTypes DEF PreCall
    <2>2. storageCounter' \in Nat /\ issued' \in Seq(Nat) /\ calls' \in 0..MaxCalls
        BY <1>2, <1>3 DEF PreCall, TypeInv, Typed
    <2> QED
        BY <1>3, <2>1, <2>2 DEF TypeInv, Typed, PreCall
<1>4. CASE PostCall(c)
    <2>1. caller' \in [Callers -> AnyCall]
        BY <1>1, <1>4, CallTypes DEF PostCall
    <2> QED
        BY <1>4, <2>1 DEF TypeInv, Typed, PostCall
<1>5. CASE AsyncResponse(c, p)
    <2>1. caller' \in [Callers -> AnyCall]
        BY <1>1, <1>5, CallTypes DEF AsyncResponse
    <2> QED
        BY <1>2, <1>5, <2>1 DEF TypeInv, Typed, AsyncResponse
<1>6. CASE SendLine(c)
    <2>1. PICK stored \in BOOLEAN :
              LET q == caller[c].of
                  line == Line(caller[c].n, caller[c].id, stored)
              IN  /\ events' = Append(events, Event("WriteItem", q, line))
                  /\ inTime' = IF isActive(q) /\ q \in toStop /\ quitBy # "console"
                               THEN [inTime EXCEPT ![q] = @ \cup {line}] ELSE inTime
        BY <1>6 DEF SendLine
    <2> DEFINE q == caller[c].of
               line == Line(caller[c].n, caller[c].id, stored)
    <2>2. q \in Instances /\ caller[c].n \in Nat /\ caller[c].id \in Nat
        BY <1>1, <1>6 DEF SendLine, TypeInv, Owned, AnyCall
    <2>3. line \in AnyLine /\ Event("WriteItem", q, line) \in AnyEvent
        BY <2>2, EventTypes
    <2> HIDE DEF q, line
    <2>4. events' \in Seq(AnyEvent)
        BY <2>1, <2>3 DEF q, line, TypeInv, Typed
    <2>5. inTime' \in [Instances -> SUBSET AnyLine]
        BY <2>1, <2>2, <2>3 DEF q, line, TypeInv, Typed
    <2>6. caller' \in [Callers -> AnyCall]
        BY <1>1, <1>6, CallTypes DEF SendLine
    <2> QED
        BY <1>6, <2>4, <2>5, <2>6 DEF TypeInv, Typed, SendLine
<1> QED
    BY <1>3, <1>4, <1>5, <1>6

LEMMA TypedByWorker ==
    ASSUME TypeInv, Worker \/ Executor
    PROVE  Typed'
<1> USE DEF disk, repos, plugins, worker, executor, quitter, bounds
<1>1. CASE StartRecording
    <2>1. InHand("StartWrite")
        BY <1>1 DEF StartRecording
    <2> DEFINE p == events[1].of
    <2>2. Head(events).of = p /\ p \in Instances /\ Tail(events) \in Seq(AnyEvent)
        BY <2>1, InHandIs
    <2> HIDE DEF p
    <2>3. CASE p \in recording \/ index[p] = {}
        <3>1. /\ recording' = recording \cup {p} /\ events' = Tail(events)
              /\ lines' = [lines EXCEPT ![p] = IF p \in recording THEN lines[p] ELSE {}]
              /\ somethingWritten' \in {somethingWritten, somethingWritten \ {p}}
              /\ UNCHANGED <<workerPc, maxIndex>>
            BY <1>1, <2>2, <2>3 DEF TypeInv, Typed, StartRecording
        <3>2. /\ recording' \in SUBSET Instances /\ somethingWritten' \in SUBSET Instances
              /\ lines' \in [Instances -> SUBSET AnyLine]
            BY <2>2, <3>1 DEF TypeInv, Typed
        <3> QED
            BY <1>1, <2>2, <3>1, <3>2 DEF TypeInv, Typed, StartRecording
    <2>4. CASE ~(p \in recording \/ index[p] = {})
        <3>1. maxIndex' = Max({storageCounter, Max({l.id : l \in index[p]}) + 1})
            BY <1>1, <2>2, <2>4 DEF StartRecording
        <3>2. maxIndex' \in Nat
            BY <2>2, <2>4, <3>1, StartMax
        <3> QED
            BY <1>1, <2>2, <2>4, <3>2 DEF TypeInv, Typed, StartRecording
    <2> QED
        BY <2>3, <2>4
<1>2. CASE SetCounter
    <2>1. InHand("StartWrite")
        BY <1>2 DEF SetCounter
    <2>2. Head(events).of \in Instances /\ Tail(events) \in Seq(AnyEvent)
        BY <2>1, InHandIs
    <2> QED
        BY <1>2, <2>2 DEF TypeInv, Typed, SetCounter
<1>3. CASE RecordInteraction
    <2>1. InHand("WriteItem")
        BY <1>3 DEF RecordInteraction
    <2>2. Head(events) \in AnyEvent /\ Tail(events) \in Seq(AnyEvent)
        BY <2>1, InHandIs
    <2>3. Append(pending, Head(events)) \in Seq(AnyEvent) /\ Append(pending, Head(events)) # <<>>
        <3>1. pending \in Seq(AnyEvent)
            BY DEF TypeInv, Typed
        <3> QED
            BY <2>2, <3>1, AppendProperties
    <2> QED
        BY <1>3, <2>2, <2>3 DEF TypeInv, Typed, RecordInteraction
<1>4. CASE FinalizeRecording
    <2>1. InHand("FinalizeWrite")
        BY <1>4 DEF FinalizeRecording
    <2>2. Head(events).of \in Instances /\ Tail(events) \in Seq(AnyEvent)
        BY <2>1, InHandIs
    <2> QED
        BY <1>4, <2>2 DEF TypeInv, Typed, FinalizeRecording, FinalizeTakes, Orphan
<1>5. CASE WriteIndex \/ WriteIndexThrows
    <2>1. InHand("FinalizeWrite")
        BY <1>5 DEF WriteIndex, WriteIndexThrows
    <2>2. Head(events).of \in Instances /\ Tail(events) \in Seq(AnyEvent)
        BY <2>1, InHandIs
    <2>3. CASE WriteIndex
        BY <2>2, <2>3 DEF TypeInv, Typed, WriteIndex, Orphan
    <2>4. CASE WriteIndexThrows
        BY <2>2, <2>4 DEF TypeInv, Typed, WriteIndexThrows, InHandOfExecutor
    <2> QED
        BY <1>5, <2>3, <2>4
<1>6. CASE HandleTerminate
    BY <1>6, EmptySeq DEF TypeInv, Typed, HandleTerminate
<1>7. CASE Executor
    <2>1. PICK p \in Instances, line \in AnyLine :
              /\ up /\ pending # <<>> /\ pending' \in {pending, Tail(pending)}
              /\ lines' = lines \/ lines' = [lines EXCEPT ![p] = lines[p] \cup {line}]
              /\ somethingWritten' \in {somethingWritten, somethingWritten \cup {p}}
              /\ files' = files \/ files' = [files EXCEPT ![p] = WithItem(files[p], line)]
              /\ execPc' \in {"idle", "adding", "orphaned", "writing"}
              /\ execPc' # "idle" => pending' = pending
              /\ UNCHANGED <<index, recording, storageCounter, plugins, caller, worker, quitter, issued, inTime, calls>>
        BY <1>7, ExecutorIs
    <2>2. line.id \in Nat
        BY DEF AnyLine
    <2>3. DOMAIN WithItem(files[p], line) = DOMAIN files[p] \cup {line.id}
        BY DEF WithItem
    <2>4. lines' \in [Instances -> SUBSET AnyLine] /\ somethingWritten' \in SUBSET Instances
        BY <2>1 DEF TypeInv, Typed
    <2>5. /\ DOMAIN files' = Instances /\ files' = [q \in Instances |-> files'[q]]
          /\ \A q \in Instances : DOMAIN files'[q] \subseteq Nat
        BY <2>1, <2>2, <2>3 DEF TypeInv, Typed
    <2>6. pending' \in Seq(AnyEvent)
        BY <2>1, PendingIs DEF TypeInv, Typed
    <2> QED
        BY <2>1, <2>4, <2>5, <2>6 DEF TypeInv, Typed
<1> QED
    BY <1>1, <1>2, <1>3, <1>4, <1>5, <1>6, <1>7 DEF Worker

LEMMA TypedByProcess ==
    ASSUME TypeInv, \/ \E by \in Quits : Quit(by)
                    \/ Quitting \/ Crash \/ StartProcess
    PROVE  Typed'
<1> USE DEF disk, repos, plugins, worker, executor, quitter, bounds
<1>0. /\ <<>> \in Seq(AnyEvent) /\ <<>> \in Seq(Nat)
      /\ Append(events, Terminate) \in Seq(AnyEvent)
      /\ \A p \in Instances : Append(events, Finalize(p)) \in Seq(AnyEvent)
    BY EmptySeq, EventTypes DEF TypeInv, Typed
<1>1. ASSUME NEW by \in Quits, Quit(by) PROVE Typed'
    BY <1>0, <1>1 DEF TypeInv, Typed, Quit
<1>2. ASSUME NEW p \in Instances, StopServer(p) PROVE Typed'
    <2>1. events' \in Seq(AnyEvent)
        BY <1>0, <1>2 DEF StopServer, TypeInv, Typed
    <2> QED
        BY <1>2, <2>1 DEF TypeInv, Typed, StopServer
<1>3. CASE StopWaited
    BY <1>3 DEF TypeInv, Typed, StopWaited
<1>4. CASE SendTerminate
    BY <1>0, <1>4 DEF TypeInv, Typed, SendTerminate
<1>5. CASE CleanAndExit
    BY <1>0, <1>5 DEF TypeInv, Typed, CleanAndExit
<1>6. CASE Crash
    BY <1>0, <1>6 DEF TypeInv, Typed, Crash
<1>7. CASE StartProcess
    <2>1. /\ active' \in [Instances -> BOOLEAN] /\ settingsActive' \in [Instances -> BOOLEAN]
          /\ lines' \in [Instances -> SUBSET AnyLine] /\ caller' \in [Callers -> AnyCall]
          /\ adminPc' \in [Instances -> {"idle", "waiting"}]
        BY <1>7, CallTypes DEF StartProcess
    <2>2. events' \in Seq(AnyEvent) /\ pending' \in Seq(AnyEvent) /\ issued' \in Seq(Nat)
        BY <1>0, <1>7 DEF StartProcess
    <2> QED
        BY <1>7, <2>1, <2>2 DEF TypeInv, Typed, StartProcess
<1> QED
    BY <1>1, <1>2, <1>3, <1>4, <1>5, <1>6, <1>7 DEF Quitting

LEMMA TypedStep ==
    ASSUME TypeInv, [Next]_vars
    PROVE  Typed'
<1>1. CASE UNCHANGED vars
    BY <1>1 DEF TypeInv, Typed, vars, disk, repos, plugins, worker, executor, quitter, bounds
<1>2. ASSUME NEW c \in Callers, PostCall(c) \/ SendLine(c) PROVE Typed'
    <2>1. PICK p \in Instances : TRUE
        BY <1>2 DEF PostCall, SendLine, TypeInv, Owned
    <2> QED
        BY <1>2, <2>1, TypedByCalls
<1> QED
    BY <1>1, <1>2, TypedByPlugins, TypedByCalls, TypedByWorker, TypedByProcess DEF Next

-----------------------------------------------------------------------------
(* The queue once an event was sent.                                       *)
LEMMA Appended ==
    ASSUME NEW s \in Seq(AnyEvent), NEW e \in AnyEvent, NEW t, t = Append(s, e)
    PROVE  /\ Len(s) \in Nat /\ Len(t) = Len(s) + 1
           /\ \A i \in DOMAIN s : i \in Nat /\ i >= 1 /\ i <= Len(s) /\ i \in DOMAIN t /\ t[i] = s[i]
           /\ \A i \in DOMAIN t :
                 (i \in DOMAIN s /\ t[i] = s[i] /\ i # Len(s) + 1) \/ (i = Len(s) + 1 /\ t[i] = e)
           /\ Len(s) + 1 \in DOMAIN t
<1>1. t \in Seq(AnyEvent) /\ Len(t) = Len(s) + 1 /\ Len(s) \in Nat
    OBVIOUS
<1>2. DOMAIN s = 1..Len(s) /\ DOMAIN t = 1..(Len(s) + 1)
    BY <1>1
<1>3. \A i \in 1..Len(s) : t[i] = s[i]
    OBVIOUS
<1>4. t[Len(s) + 1] = e
    OBVIOUS
<1> QED
    BY <1>1, <1>2, <1>3, <1>4

(* The order of the queue is kept by an event that is sent and by one that *)
(* is handled.                                                             *)
StartsFirst(es) ==
    \A i, j \in DOMAIN es : i < j /\ es[j].type = "StartWrite" => es[i].of # es[j].of

LEMMA SentInOrder ==
    ASSUME TypeInv, NEW e \in AnyEvent, events' = Append(events, e),
           e.type = "StartWrite" => \A i \in DOMAIN events : events[i].of # e.of
    PROVE  /\ \A i \in DOMAIN events' :
                 (i \in DOMAIN events /\ events'[i] = events[i]) \/ events'[i] = e
           /\ StartsFirst(events')
           /\ events # <<>> => 1 \in DOMAIN events /\ events' # <<>> /\ events'[1] = events[1]
<1> DEFINE last == Len(events) + 1
<1>1. events \in Seq(AnyEvent)
    BY DEF TypeInv, Typed
<1>2. /\ Len(events) \in Nat
      /\ \A i \in DOMAIN events : i \in DOMAIN events' /\ events'[i] = events[i] /\ i < last
      /\ \A i \in DOMAIN events' :
            (i \in DOMAIN events /\ events'[i] = events[i] /\ i # last) \/ (i = last /\ events'[i] = e)
    BY <1>1, Appended
<1>3. StartsFirst(events')
    BY <1>2 DEF TypeInv, Queue, StartsFirst
<1>4. events # <<>> => 1 \in DOMAIN events /\ events' # <<>> /\ events'[1] = events[1]
    BY <1>1, <1>2
<1> QED
    BY <1>2, <1>3, <1>4

LEMMA HandledInOrder ==
    ASSUME TypeInv, NEW type, InHand(type), events' = Tail(events)
    PROVE  /\ \A i \in DOMAIN events' :
                 /\ i + 1 \in DOMAIN events /\ events'[i] = events[i + 1]
                 /\ events'[i].type = "StartWrite" => events'[i].of # events[1].of
           /\ StartsFirst(events')
<1>1. /\ 1 \in DOMAIN events
      /\ \A i \in DOMAIN events' : /\ i \in Nat /\ i >= 1 /\ i + 1 \in DOMAIN events
                                  /\ events'[i] = events[i + 1]
    BY InHandIs
<1>2. \A i, j \in DOMAIN events : i < j /\ events[j].type = "StartWrite" => events[i].of # events[j].of
    BY DEF TypeInv, Queue
<1>3. ASSUME NEW i \in DOMAIN events', events'[i].type = "StartWrite"
      PROVE  events'[i].of # events[1].of
    BY <1>1, <1>2, <1>3
<1>4. ASSUME NEW i \in DOMAIN events', NEW j \in DOMAIN events', i < j, events'[j].type = "StartWrite"
      PROVE  events'[i].of # events'[j].of
    <2>1. i + 1 < j + 1
        BY <1>1, <1>4
    <2> QED
        BY <1>1, <1>2, <1>4, <2>1
<1> QED
    BY <1>1, <1>3, <1>4 DEF StartsFirst

(* Recording is switched on when no event of the instance waits.           *)
LEMMA ActivateKeeps ==
    ASSUME TypeInv, ~Hasty, NEW p \in Instances, Activate(p)
    PROVE  TypeInv'
<1> USE DEF disk, repos, plugins, worker, executor, quitter, bounds
<1>1. Typed'
    BY TypedStep DEF Next
<1> DEFINE e == Start(p)
<1>2. e \in AnyEvent /\ e.type = "StartWrite" /\ e.of = p /\ e.line.n = 0 /\ e.line.id = 0
      /\ events' = Append(events, e)
    BY EventTypes DEF Activate
<1> HIDE DEF e
<1>3. ~active[p] /\ \A i \in DOMAIN events : events[i].of # p
    BY DEF Activate, TypeInv, Switching, isActive
<1>4. /\ \A i \in DOMAIN events' : (i \in DOMAIN events /\ events'[i] = events[i]) \/ events'[i] = e
      /\ StartsFirst(events')
      /\ events # <<>> => 1 \in DOMAIN events /\ events' # <<>> /\ events'[1] = events[1]
    BY <1>2, <1>3, SentInOrder
<1>5. /\ adminPc' = [adminPc EXCEPT ![p] = "waiting"]
      /\ settingsActive' = [settingsActive EXCEPT ![p] = TRUE]
      /\ active' = active /\ quitBy = "none" /\ up
      /\ UNCHANGED <<disk, storageCounter, repos, caller, workerPc, maxIndex, pending, quitter, up, calls>>
    BY DEF Activate
<1>6. Owned'
    BY <1>2, <1>4, <1>5 DEF TypeInv, Owned
<1>7. Bounded'
    <2>1. calls \in Nat /\ Small(0, 0, calls)
        BY DEF TypeInv, Typed, Small
    <2>2. \A i \in DOMAIN events' : Small(events'[i].line.n, events'[i].line.id, calls)
        BY <1>2, <1>4, <1>5, <2>1 DEF TypeInv, Bounded
    <2> QED
        BY <1>2, <1>4, <1>5, <2>2 DEF TypeInv, Bounded
<1>8. Switching'
    BY <1>5 DEF TypeInv, Typed, Switching
<1>9. Queue'
    <2>1. ASSUME NEW i \in DOMAIN events', NEW q \in Instances, Sent(i, "FinalizeWrite", q)'
          PROVE  adminPc'[q] = "idle" /\ (active'[q] => q \notin toStop')
        <3>1. i \in DOMAIN events /\ Sent(i, "FinalizeWrite", q) /\ q # p
            BY <1>2, <1>3, <1>4, <2>1 DEF Sent
        <3>2. adminPc[q] = "idle" /\ (active[q] => q \notin toStop)
            BY <3>1 DEF TypeInv, Queue
        <3> QED
            BY <1>5, <3>1, <3>2 DEF TypeInv, Typed
    <2> QED
        BY <1>4, <2>1 DEF Queue, StartsFirst
<1>10. Repos'
    <2>1. \A i \in DOMAIN events' : \A q \in Instances :
              Sent(i, "StartWrite", q)' /\ active[q] => q \in recording
        BY <1>2, <1>3, <1>4, <1>5 DEF TypeInv, Repos, Sent
    <2> QED
        BY <1>4, <1>5, <2>1 DEF TypeInv, Repos
<1> QED
    BY <1>1, <1>6, <1>7, <1>8, <1>9, <1>10 DEF TypeInv

(* The plugin is active once its repo is there; it is not when the wait    *)
(* was too short.                                                          *)
LEMMA ActivatedKeeps ==
    ASSUME TypeInv, NEW p \in Instances, Activated(p) \/ ActivationTimesOut(p)
    PROVE  TypeInv'
<1> USE DEF disk, repos, plugins, worker, executor, quitter, bounds
<1>1. Typed'
    BY TypedStep DEF Next
<1>2. /\ UNCHANGED <<disk, storageCounter, repos, settingsActive, caller, worker, pending, quitter, up, calls>>
      /\ up /\ adminPc[p] = "waiting" /\ adminPc' = [adminPc EXCEPT ![p] = "idle"]
      /\ active' = active \/ (p \in recording /\ active' = [active EXCEPT ![p] = TRUE])
    BY DEF Activated, ActivationTimesOut
<1>3. quitBy = "none"
    BY <1>2 DEF TypeInv, Switching
<1>4. ~ \E i \in DOMAIN events : Sent(i, "FinalizeWrite", p)
    BY <1>2 DEF TypeInv, Queue
<1>5. \A q \in Instances :
          /\ active'[q] => active[q] \/ (q = p /\ p \in recording)
          /\ q # p => adminPc'[q] = adminPc[q]
    BY <1>2 DEF TypeInv, Typed
<1>6. Owned' /\ Bounded'
    BY <1>2 DEF TypeInv, Owned, Bounded
<1>7. Switching'
    BY <1>2, <1>3, <1>5 DEF TypeInv, Switching
<1>8. Queue'
    BY <1>2, <1>4, <1>5 DEF TypeInv, Queue, Sent
<1>9. Repos'
    BY <1>2, <1>5 DEF TypeInv, Repos, Sent
<1> QED
    BY <1>1, <1>6, <1>7, <1>8, <1>9 DEF TypeInv

(* The end of a recording is sent when the plugin is inactive.             *)
LEMMA DeactivateKeeps ==
    ASSUME TypeInv, NEW p \in Instances, Deactivate(p)
    PROVE  TypeInv'
<1> USE DEF disk, repos, plugins, worker, executor, quitter, bounds
<1>1. Typed'
    BY TypedStep DEF Next
<1> DEFINE e == Finalize(p)
<1>2. e \in AnyEvent /\ e.type = "FinalizeWrite" /\ e.of = p /\ e.line.n = 0 /\ e.line.id = 0
      /\ events' = Append(events, e)
    BY EventTypes DEF Deactivate
<1> HIDE DEF e
<1>3. /\ \A i \in DOMAIN events' : (i \in DOMAIN events /\ events'[i] = events[i]) \/ events'[i] = e
      /\ StartsFirst(events')
      /\ events # <<>> => 1 \in DOMAIN events /\ events' # <<>> /\ events'[1] = events[1]
    BY <1>2, SentInOrder
<1>4. /\ adminPc' = adminPc /\ adminPc[p] = "idle"
      /\ settingsActive' = [settingsActive EXCEPT ![p] = FALSE]
      /\ active' = [active EXCEPT ![p] = FALSE] /\ quitBy = "none" /\ up
      /\ UNCHANGED <<disk, storageCounter, repos, caller, workerPc, maxIndex, pending, quitter, up, calls>>
    BY DEF Deactivate
<1>5. \A q \in Instances :
          /\ active'[q] => active[q] /\ q # p
          /\ q # p => settingsActive'[q] = settingsActive[q]
    BY <1>4 DEF TypeInv, Typed
<1>6. Owned'
    BY <1>2, <1>3, <1>4 DEF TypeInv, Owned
<1>7. Bounded'
    <2>1. calls \in Nat /\ Small(0, 0, calls)
        BY DEF TypeInv, Typed, Small
    <2>2. \A i \in DOMAIN events' : Small(events'[i].line.n, events'[i].line.id, calls)
        BY <1>2, <1>3, <1>4, <2>1 DEF TypeInv, Bounded
    <2> QED
        BY <1>2, <1>3, <1>4, <2>2 DEF TypeInv, Bounded
<1>8. Switching'
    BY <1>4, <1>5 DEF TypeInv, Switching
<1>9. Queue'
    <2>1. ASSUME NEW i \in DOMAIN events', NEW q \in Instances, Sent(i, "FinalizeWrite", q)'
          PROVE  adminPc'[q] = "idle" /\ (active'[q] => q \notin toStop')
        <3>1. q = p \/ (i \in DOMAIN events /\ Sent(i, "FinalizeWrite", q))
            BY <1>2, <1>3, <2>1 DEF Sent
        <3>2. q = p \/ (adminPc[q] = "idle" /\ (active[q] => q \notin toStop))
            BY <3>1 DEF TypeInv, Queue
        <3> QED
            BY <1>4, <1>5, <3>2
    <2> QED
        BY <1>3, <2>1 DEF Queue, StartsFirst
<1>10. Repos'
    <2>1. \A i \in DOMAIN events' : \A q \in Instances :
              Sent(i, "StartWrite", q)' /\ active'[q] => q \in recording
        BY <1>2, <1>3, <1>4, <1>5 DEF TypeInv, Repos, Sent
    <2> QED
        BY <1>3, <1>4, <1>5, <2>1 DEF TypeInv, Repos
<1> QED
    BY <1>1, <1>6, <1>7, <1>8, <1>9, <1>10 DEF TypeInv

-----------------------------------------------------------------------------
(* A call that takes an id is bounded by the number of calls.              *)
LEMMA GenerateKeepsBounds ==
    ASSUME TypeInv, NEW c \in Callers, generateIndex,
           UNCHANGED <<index, lines, files, events, pending, maxIndex>>,
           NEW k, caller' = [caller EXCEPT ![c] = k], k.n = calls + 1, k.id = storageCounter + 1
    PROVE  Bounded'
<1>1. calls' = calls + 1 /\ storageCounter' = storageCounter + 1
    BY DEF generateIndex
<1>2. calls \in Nat /\ storageCounter \in Nat /\ storageCounter <= 2 * calls + 2 /\ maxIndex <= 2 * calls + 2
      /\ maxIndex \in Nat
    BY DEF TypeInv, Typed, Bounded
<1>3. storageCounter' <= 2 * calls' + 1 /\ maxIndex' <= 2 * calls' + 2 /\ storageCounter' <= 2 * calls' + 2
    BY <1>1, <1>2
<1>4. ASSUME NEW n \in Nat, NEW id \in Nat, Small(n, id, calls) PROVE Small(n, id, calls')
    BY <1>1, <1>2, <1>4 DEF Small
<1>5. \A d \in Callers : Small(caller'[d].n, caller'[d].id, calls')
    <2>1. \A d \in Callers : caller[d].n \in Nat /\ caller[d].id \in Nat
        BY DEF TypeInv, Typed, AnyCall
    <2>2. \A d \in Callers : Small(caller[d].n, caller[d].id, calls')
        BY <1>4, <2>1 DEF TypeInv, Bounded
    <2>3. Small(k.n, k.id, calls')
        BY <1>1, <1>2, <1>3 DEF Small
    <2> QED
        BY <2>2, <2>3 DEF TypeInv, Typed
<1>6. \A p \in Instances : \A l \in index[p] \cup lines[p] : Small(l.n, l.id, calls')
    <2>1. \A p \in Instances : \A l \in index[p] \cup lines[p] : l.n \in Nat /\ l.id \in Nat
        BY DEF TypeInv, Typed, AnyLine
    <2> QED
        BY <1>4, <2>1 DEF TypeInv, Bounded
<1>7. \A p \in Instances : \A id \in DOMAIN files[p] : id <= 2 * calls' + 1
    <2>1. \A p \in Instances : \A id \in DOMAIN files[p] : id \in Nat /\ id <= 2 * calls + 1
        BY DEF TypeInv, Typed, Bounded
    <2> QED
        BY <1>1, <1>2, <2>1
<1>8. /\ \A i \in DOMAIN events : Small(events[i].line.n, events[i].line.id, calls')
      /\ \A i \in DOMAIN pending : Small(pending[i].line.n, pending[i].line.id, calls')
    <2>1. /\ \A i \in DOMAIN events : events[i].line \in AnyLine
          /\ \A i \in DOMAIN pending : pending[i].line \in AnyLine
        <3>1. events \in Seq(AnyEvent) /\ pending \in Seq(AnyEvent)
            BY DEF TypeInv, Typed
        <3>2. \A e \in AnyEvent : e.line \in AnyLine
            BY DEF AnyEvent
        <3> QED
            BY <3>1, <3>2
    <2>2. \A l \in AnyLine : l.n \in Nat /\ l.id \in Nat
        BY DEF AnyLine
    <2> QED
        BY <1>4, <2>1, <2>2 DEF TypeInv, Bounded
<1> QED
    BY <1>3, <1>5, <1>6, <1>7, <1>8 DEF Bounded

(* What a step leaves alone that only calls, lines and ids change in.      *)
Others == <<active, adminPc, settingsActive, quitBy, quitPc, toStop, events, up, recording, workerPc>>
LEMMA OthersKept ==
    ASSUME TypeInv, UNCHANGED Others
    PROVE  Switching' /\ Queue' /\ Repos'
BY DEF TypeInv, Others, Switching, Queue, Repos, Sent

(* A call is made, or an answer is.                                        *)
LEMMA CallKeeps ==
    ASSUME TypeInv, NEW c \in Callers, NEW p \in Instances,
           PreCall(c, p) \/ AsyncResponse(c, p) \/ PostCall(c)
    PROVE  TypeInv'
<1> USE DEF disk, repos, plugins, worker, executor, quitter, bounds
<1>1. Typed'
    BY TypedStep DEF Next
<1>2. UNCHANGED Others /\ UNCHANGED <<index, lines, files, events, pending, maxIndex>>
    BY DEF Others, PreCall, AsyncResponse, PostCall
<1>3. PICK k : /\ caller' = [caller EXCEPT ![c] = k]
               /\ k.pc # "idle" => k.of \in Instances
               /\ \/ generateIndex /\ k.n = calls + 1 /\ k.id = storageCounter + 1
                  \/ UNCHANGED <<calls, storageCounter>> /\ Small(k.n, k.id, calls)
    <2>1. calls \in Nat /\ Small(caller[c].n, caller[c].id, calls) /\ Small(0, 0, calls)
        BY DEF TypeInv, Typed, Bounded, Small
    <2>2. CASE PreCall(c, p)
        <3> DEFINE k == [pc |-> "calling", of |-> p, n |-> calls + 1, id |-> storageCounter + 1]
                   k0 == [pc |-> "calling", of |-> p, n |-> 0, id |-> 0]
        <3>1. k.of = p /\ k.n = calls + 1 /\ k.id = storageCounter + 1 /\ k0.of = p /\ k0.n = 0 /\ k0.id = 0
            OBVIOUS
        <3>2. \/ generateIndex /\ caller' = [caller EXCEPT ![c] = k]
              \/ UNCHANGED <<calls, storageCounter>> /\ caller' = [caller EXCEPT ![c] = k0]
            BY <2>2 DEF PreCall
        <3> HIDE DEF k, k0
        <3> QED
            BY <2>1, <3>1, <3>2
    <2>3. CASE AsyncResponse(c, p)
        <3> DEFINE k == [pc |-> "saving", of |-> p, n |-> calls + 1, id |-> storageCounter + 1]
        <3>1. k.of = p /\ k.n = calls + 1 /\ k.id = storageCounter + 1
            OBVIOUS
        <3>2. generateIndex /\ caller' = [caller EXCEPT ![c] = k]
            BY <2>3 DEF AsyncResponse
        <3> HIDE DEF k
        <3> QED
            BY <3>1, <3>2
    <2>4. CASE PostCall(c)
        <3>1. caller[c] \in AnyCall /\ caller[c].of \in Instances
            BY <2>4 DEF PostCall, TypeInv, Typed, Owned
        <3> DEFINE k == [caller[c] EXCEPT !.pc = "saving"]
        <3>2. k.of = caller[c].of /\ k.n = caller[c].n /\ k.id = caller[c].id
            BY <3>1 DEF AnyCall
        <3>3. caller' = [caller EXCEPT ![c] = k] \/ caller' = [caller EXCEPT ![c] = Idle]
            BY <2>4 DEF PostCall, TypeInv, Typed
        <3>4. UNCHANGED <<calls, storageCounter>>
            BY <2>4 DEF PostCall
        <3> HIDE DEF k
        <3> QED
            BY <2>1, <3>1, <3>2, <3>3, <3>4, CallTypes
    <2> QED
        BY <2>2, <2>3, <2>4
<1>4. Owned'
    BY <1>2, <1>3 DEF TypeInv, Typed, Owned
<1>5. Bounded'
    <2>1. CASE generateIndex /\ k.n = calls + 1 /\ k.id = storageCounter + 1
        BY <1>2, <1>3, <2>1, GenerateKeepsBounds
    <2>2. CASE UNCHANGED <<calls, storageCounter>> /\ Small(k.n, k.id, calls)
        BY <1>2, <1>3, <2>2 DEF TypeInv, Typed, Bounded
    <2> QED
        BY <1>3, <2>1, <2>2
<1> QED
    BY <1>1, <1>2, <1>4, <1>5, OthersKept DEF TypeInv

(* What was seen of a call is sent.                                        *)
LEMMA SendLineKeeps ==
    ASSUME TypeInv, NEW c \in Callers, SendLine(c)
    PROVE  TypeInv'
<1> USE DEF disk, repos, plugins, worker, executor, quitter, bounds
<1>1. Typed'
    BY TypedStep DEF Next
<1> DEFINE p == caller[c].of
<1>2. p \in Instances /\ caller[c].n \in Nat /\ caller[c].id \in Nat
    BY DEF SendLine, TypeInv, Typed, Owned, AnyCall
<1>3. PICK stored \in BOOLEAN : events' = Append(events, Event("WriteItem", p, Line(caller[c].n, caller[c].id, stored)))
    BY DEF SendLine
<1> DEFINE e == Event("WriteItem", p, Line(caller[c].n, caller[c].id, stored))
<1>4. e \in AnyEvent /\ e.type = "WriteItem" /\ e.of = p
      /\ e.line.n = caller[c].n /\ e.line.id = caller[c].id
    BY <1>2, EventTypes
<1>5. events' = Append(events, e)
    BY <1>3
<1> HIDE DEF e, p
<1>6. /\ \A i \in DOMAIN events' : (i \in DOMAIN events /\ events'[i] = events[i]) \/ events'[i] = e
      /\ StartsFirst(events')
      /\ events # <<>> => 1 \in DOMAIN events /\ events' # <<>> /\ events'[1] = events[1]
    BY <1>4, <1>5, SentInOrder
<1>7. /\ caller' = [caller EXCEPT ![c] = Idle] /\ up
      /\ UNCHANGED <<disk, storageCounter, repos, plugins, workerPc, maxIndex, pending, quitter, up, calls>>
    BY DEF SendLine
<1>8. Owned'
    BY <1>2, <1>4, <1>6, <1>7, CallTypes DEF TypeInv, Typed, Owned
<1>9. Bounded'
    <2>1. calls \in Nat /\ Small(0, 0, calls)
        BY DEF TypeInv, Typed, Small
    <2>2. \A d \in Callers : Small(caller'[d].n, caller'[d].id, calls)
        BY <1>7, <2>1, CallTypes DEF TypeInv, Typed, Bounded
    <2>3. \A i \in DOMAIN events' : Small(events'[i].line.n, events'[i].line.id, calls)
        BY <1>4, <1>6 DEF TypeInv, Bounded
    <2> QED
        BY <1>7, <2>2, <2>3 DEF TypeInv, Bounded
<1>10. Switching'
    BY <1>7 DEF TypeInv, Switching
<1>11. Queue'
    BY <1>4, <1>6, <1>7 DEF TypeInv, Queue, Sent, StartsFirst
<1>12. Repos'
    BY <1>4, <1>6, <1>7 DEF TypeInv, Repos, Sent
<1> QED
    BY <1>1, <1>8, <1>9, <1>10, <1>11, <1>12 DEF TypeInv

(* The worker starts a recording, at once or after it read the index file. *)
LEMMA StartKeeps ==
    ASSUME TypeInv, StartRecording \/ SetCounter
    PROVE  TypeInv'
<1> USE DEF disk, repos, plugins, worker, executor, quitter, bounds
<1>1. Typed'
    BY TypedStep DEF Next, Worker
<1>2. InHand("StartWrite")
    BY DEF StartRecording, SetCounter
<1> DEFINE p == events[1].of
<1>3. p \in Instances /\ Head(events).of = p /\ up /\ events # <<>> /\ 1 \in DOMAIN events
      /\ events[1].type = "StartWrite"
    BY <1>2, InHandIs
<1>4. UNCHANGED <<disk, plugins, caller, pending, quitter, up, calls>>
    BY DEF StartRecording, SetCounter
<1>5. CASE /\ p \notin recording /\ index[p] # {} /\ UNCHANGED <<repos, events, storageCounter>>
           /\ workerPc' = "starting"
           /\ maxIndex' = Max({storageCounter, Max({l.id : l \in index[p]}) + 1})
    <2> HIDE DEF p
    <2>1. maxIndex' <= 2 * calls + 2
        BY <1>3, <1>5, StartMax
    <2>2. Owned' /\ Switching' /\ Queue'
        BY <1>4, <1>5 DEF TypeInv, Owned, Switching, Queue, Sent
    <2>3. Bounded'
        BY <1>4, <1>5, <2>1 DEF TypeInv, Bounded
    <2>4. Repos'
        BY <1>3, <1>4, <1>5 DEF TypeInv, Repos, Sent, p
    <2> QED
        BY <1>1, <2>2, <2>3, <2>4 DEF TypeInv
<1>6. CASE /\ recording' = recording \cup {p}
           /\ \E ls \in {lines[p], index[p], {}} : lines' = [lines EXCEPT ![p] = ls]
           /\ events' = Tail(events) /\ workerPc' = "idle" /\ UNCHANGED maxIndex
           /\ storageCounter' \in {storageCounter, maxIndex}
    <2>1. /\ \A i \in DOMAIN events' : i + 1 \in DOMAIN events /\ events'[i] = events[i + 1]
          /\ StartsFirst(events')
        BY <1>2, <1>6, HandledInOrder
    <2> HIDE DEF p
    <2>2. Owned'
        BY <1>4, <2>1 DEF TypeInv, Owned
    <2>3. Bounded'
        <3>1. \A q \in Instances : \A l \in lines'[q] : Small(l.n, l.id, calls)
            BY <1>3, <1>6 DEF TypeInv, Typed, Bounded
        <3>2. \A i \in DOMAIN events' : Small(events'[i].line.n, events'[i].line.id, calls)
            BY <2>1 DEF TypeInv, Bounded
        <3>3. storageCounter' <= 2 * calls + 2
            BY <1>6 DEF TypeInv, Bounded
        <3> QED
            BY <1>4, <1>6, <3>1, <3>2, <3>3 DEF TypeInv, Bounded
    <2>4. Switching'
        BY <1>4 DEF TypeInv, Switching
    <2>5. Queue'
        BY <1>4, <2>1 DEF TypeInv, Queue, Sent, StartsFirst
    <2>6. Repos'
        BY <1>3, <1>4, <1>6, <2>1 DEF TypeInv, Repos, Sent
    <2> QED
        BY <1>1, <2>2, <2>3, <2>4, <2>5, <2>6 DEF TypeInv
<1>7. CASE StartRecording
    <2> HIDE DEF p
    <2>1. CASE p \in recording \/ index[p] = {}
        BY <1>3, <1>6, <1>7, <2>1 DEF StartRecording
    <2>2. CASE ~(p \in recording \/ index[p] = {})
        BY <1>3, <1>5, <1>7, <2>2 DEF StartRecording
    <2> QED
        BY <2>1, <2>2
<1>8. CASE SetCounter
    <2> HIDE DEF p
    <2> QED
        BY <1>3, <1>6, <1>8 DEF SetCounter
<1> QED
    BY <1>7, <1>8

(* The worker gives a line to the executor.                                *)
LEMMA RecordInteractionKeeps ==
    ASSUME TypeInv, RecordInteraction
    PROVE  TypeInv'
<1> USE DEF disk, repos, plugins, worker, executor, quitter, bounds
<1>1. Typed'
    BY TypedStep DEF Next, Worker
<1>2. InHand("WriteItem")
    BY DEF RecordInteraction
<1>3. /\ events[1] \in AnyEvent /\ events[1].type = "WriteItem" /\ events[1].of \in Instances
      /\ Head(events) = events[1] /\ 1 \in DOMAIN events
    BY <1>2, InHandIs
<1>4. /\ pending' = Append(pending, events[1]) /\ events' = Tail(events)
      /\ UNCHANGED <<disk, storageCounter, repos, plugins, caller, workerPc, maxIndex, quitter, up, calls>>
    BY <1>3 DEF RecordInteraction
<1>5. /\ \A i \in DOMAIN events' : i + 1 \in DOMAIN events /\ events'[i] = events[i + 1]
      /\ StartsFirst(events')
    BY <1>2, <1>4, HandledInOrder
<1>6. \A i \in DOMAIN pending' : (i \in DOMAIN pending /\ pending'[i] = pending[i]) \/ pending'[i] = events[1]
    <2>1. pending \in Seq(AnyEvent)
        BY DEF TypeInv, Typed
    <2> QED
        BY <1>3, <1>4, <2>1, Appended
<1>7. Owned'
    BY <1>3, <1>4, <1>5, <1>6 DEF TypeInv, Owned
<1>8. Bounded'
    <2>1. \A i \in DOMAIN events' : Small(events'[i].line.n, events'[i].line.id, calls)
        BY <1>5 DEF TypeInv, Bounded
    <2>2. \A i \in DOMAIN pending' : Small(pending'[i].line.n, pending'[i].line.id, calls)
        BY <1>3, <1>6 DEF TypeInv, Bounded
    <2> QED
        BY <1>4, <2>1, <2>2 DEF TypeInv, Bounded
<1>9. Switching'
    BY <1>4 DEF TypeInv, Switching
<1>10. Queue'
    BY <1>4, <1>5 DEF TypeInv, Queue, Sent, StartsFirst
<1>11. Repos'
    BY <1>3, <1>4, <1>5 DEF TypeInv, Repos, Sent
<1> QED
    BY <1>1, <1>7, <1>8, <1>9, <1>10, <1>11 DEF TypeInv

(* The executor takes a step with the line in hand.                        *)
LEMMA ExecutorKeeps ==
    ASSUME TypeInv, Executor
    PROVE  TypeInv'
<1> USE DEF disk, repos, plugins, worker, executor, quitter, bounds
<1>1. Typed'
    BY TypedStep DEF Next
<1>2. PICK p \in Instances, line \in AnyLine :
          /\ line = pending[1].line /\ 1 \in DOMAIN pending /\ pending # <<>>
          /\ pending' \in {pending, Tail(pending)}
          /\ lines' = lines \/ lines' = [lines EXCEPT ![p] = lines[p] \cup {line}]
          /\ files' = files \/ files' = [files EXCEPT ![p] = WithItem(files[p], line)]
          /\ UNCHANGED Others /\ UNCHANGED <<index, storageCounter, maxIndex, caller, calls>>
    BY ExecutorIs DEF Others
<1>3. \A i \in DOMAIN pending' : \E j \in DOMAIN pending : pending'[i] = pending[j]
    BY <1>2, PendingIs
<1>4. Small(line.n, line.id, calls)
    BY <1>2 DEF TypeInv, Bounded
<1>5. UNCHANGED Others /\ UNCHANGED <<index, storageCounter, maxIndex, caller, calls>>
    BY <1>2
<1>6. /\ lines' = lines \/ lines' = [lines EXCEPT ![p] = lines[p] \cup {line}]
      /\ files' = files \/ files' = [files EXCEPT ![p] = WithItem(files[p], line)]
    BY <1>2
<1>7. Owned'
    BY <1>3, <1>5 DEF TypeInv, Owned, Others
<1>8. Bounded'
    <2>1. \A q \in Instances : \A l \in lines'[q] : Small(l.n, l.id, calls)
        <3>1. \A q \in Instances : lines'[q] \subseteq lines[q] \cup {line}
            <4>1. lines \in [Instances -> SUBSET AnyLine]
                BY DEF TypeInv, Typed
            <4> QED
                BY <1>3, <1>6, <4>1
        <3> QED
            BY <1>4, <3>1 DEF TypeInv, Bounded
    <2>2. \A q \in Instances : DOMAIN files'[q] \subseteq DOMAIN files[q] \cup {line.id}
        <3>1. DOMAIN WithItem(files[p], line) = DOMAIN files[p] \cup {line.id} /\ DOMAIN files = Instances
            BY DEF WithItem, TypeInv, Typed
        <3> QED
            BY <1>3, <1>6, <3>1
    <2>3. \A i \in DOMAIN pending' : Small(pending'[i].line.n, pending'[i].line.id, calls)
        BY <1>3, <1>5 DEF TypeInv, Bounded
    <2>4. \A q \in Instances : \A id \in DOMAIN files'[q] : id <= 2 * calls + 1
        BY <1>4, <2>2 DEF TypeInv, Bounded, Small
    <2> QED
        BY <1>5, <2>1, <2>3, <2>4 DEF TypeInv, Bounded, Others
<1> QED
    BY <1>1, <1>5, <1>7, <1>8, OthersKept DEF TypeInv

(* The worker ends a recording and writes its index file.                  *)
LEMMA FinalizeKeeps ==
    ASSUME TypeInv, FinalizeRecording \/ WriteIndex \/ WriteIndexThrows
    PROVE  TypeInv'
<1> USE DEF disk, repos, plugins, worker, executor, quitter, bounds
<1>1. Typed'
    BY TypedStep DEF Next, Worker
<1>2. InHand("FinalizeWrite")
    BY DEF FinalizeRecording, WriteIndex, WriteIndexThrows
<1> DEFINE p == events[1].of
<1>3. p \in Instances /\ Head(events).of = p /\ up /\ events # <<>> /\ 1 \in DOMAIN events
      /\ events[1].type = "FinalizeWrite"
    BY <1>2, InHandIs
<1>4. /\ UNCHANGED <<lines, files, storageCounter, maxIndex, plugins, caller, pending, quitter, up, calls>>
      /\ \E ls \in {lines[p], index[p], {}} : index' = [index EXCEPT ![p] = ls]
      /\ recording' = recording \ {p} \/ (workerPc = "finalizing" /\ recording' = recording)
      /\ \/ events' = Tail(events) /\ workerPc' = "idle"
         \/ UNCHANGED events /\ workerPc' = "finalizing" /\ recording' = recording \ {p}
    <2> HIDE DEF p
    <2>1. index = [index EXCEPT ![p] = index[p]]
        BY DEF TypeInv, Typed
    <2>2. CASE FinalizeRecording
        BY <1>3, <2>1, <2>2 DEF FinalizeRecording, FinalizeTakes
    <2>3. CASE WriteIndex
        BY <1>3, <2>3 DEF WriteIndex
    <2>4. CASE WriteIndexThrows
        BY <1>3, <2>1, <2>4 DEF WriteIndexThrows
    <2> QED
        BY <2>2, <2>3, <2>4
<1>5. p \notin recording' /\ \A q \in Instances : q # p => (q \in recording' <=> q \in recording)
    BY <1>3, <1>4 DEF TypeInv, Repos
<1>6. active[p] => p \notin toStop
    BY <1>3 DEF TypeInv, Queue, Sent
<1>7. /\ \A i \in DOMAIN events' :
            /\ (\E j \in DOMAIN events : events'[i] = events[j])
            /\ events'[i].type = "StartWrite" => events'[i].of # p
      /\ StartsFirst(events')
    <2>1. CASE events' = Tail(events)
        BY <1>2, <2>1, HandledInOrder
    <2>2. CASE UNCHANGED events
        <3>1. events \in Seq(AnyEvent)
            BY DEF TypeInv, Typed
        <3>2. \A i \in DOMAIN events : i = 1 \/ 1 < i
            BY <3>1
        <3> QED
            BY <1>3, <2>2, <3>2 DEF TypeInv, Queue, StartsFirst
    <2> QED
        BY <1>4, <2>1, <2>2
<1>8. workerPc' = "finalizing" => events' = events
    BY <1>4
<1> HIDE DEF p
<1>9. Owned'
    BY <1>4, <1>7 DEF TypeInv, Owned
<1>10. Bounded'
    <2>1. \A q \in Instances : \A l \in index'[q] : Small(l.n, l.id, calls)
        BY <1>3, <1>4 DEF TypeInv, Typed, Bounded
    <2>2. \A i \in DOMAIN events' : Small(events'[i].line.n, events'[i].line.id, calls)
        BY <1>7 DEF TypeInv, Bounded
    <2> QED
        BY <1>4, <2>1, <2>2 DEF TypeInv, Bounded
<1>11. Switching'
    BY <1>4 DEF TypeInv, Switching
<1>12. Queue'
    BY <1>4, <1>7 DEF TypeInv, Queue, Sent, StartsFirst
<1>13. Repos'
    <2>1. \A q \in Instances : active[q] /\ q \in toStop => q \in recording'
        BY <1>3, <1>5, <1>6 DEF TypeInv, Repos
    <2>2. \A i \in DOMAIN events' : \A q \in Instances :
              Sent(i, "StartWrite", q)' /\ active[q] => q \in recording'
        BY <1>3, <1>5, <1>7 DEF TypeInv, Repos, Sent
    <2>3. workerPc' # "starting"
        BY <1>4
    <2>4. workerPc' = "finalizing" =>
              /\ events' # <<>> /\ events'[1].type = "FinalizeWrite"
              /\ events'[1].of \notin recording'
        BY <1>3, <1>5, <1>8 DEF p
    <2> QED
        BY <1>4, <2>1, <2>2, <2>3, <2>4 DEF Repos
<1> QED
    BY <1>1, <1>9, <1>10, <1>11, <1>12, <1>13 DEF TypeInv

(* The process is told to quit, its servers are stopped, and it ends.      *)
LEMMA QuitKeeps ==
    ASSUME TypeInv, NEW by \in Quits, Quit(by)
    PROVE  TypeInv'
<1> USE DEF disk, repos, plugins, worker, executor, quitter, bounds
<1>1. Typed'
    BY TypedStep DEF Next
<1>2. Terminate \in AnyEvent /\ Terminate.type = "Terminate" /\ Terminate.line.n = 0 /\ Terminate.line.id = 0
    BY EventTypes
<1>3. /\ UNCHANGED <<disk, storageCounter, repos, plugins, caller, workerPc, maxIndex, pending, toStop, up, calls>>
      /\ quitBy' # "none" /\ \A p \in Instances : adminPc[p] = "idle"
      /\ events' = events \/ events' = Append(events, Terminate)
    BY ConstantsAssumption DEF Quit
<1>4. /\ \A i \in DOMAIN events' : (i \in DOMAIN events /\ events'[i] = events[i]) \/ events'[i] = Terminate
      /\ StartsFirst(events')
      /\ events # <<>> => events' # <<>> /\ events'[1] = events[1]
    <2>1. CASE events' = events
        BY <2>1 DEF TypeInv, Queue, StartsFirst
    <2>2. CASE events' = Append(events, Terminate)
        BY <1>2, <2>2, SentInOrder
    <2> QED
        BY <1>3, <2>1, <2>2
<1>5. Owned'
    BY <1>2, <1>3, <1>4 DEF TypeInv, Owned
<1>6. Bounded'
    <2>1. calls \in Nat /\ Small(0, 0, calls)
        BY DEF TypeInv, Typed, Small
    <2>2. \A i \in DOMAIN events' : Small(events'[i].line.n, events'[i].line.id, calls)
        BY <1>2, <1>3, <1>4, <2>1 DEF TypeInv, Bounded
    <2> QED
        BY <1>2, <1>3, <1>4, <2>2 DEF TypeInv, Bounded
<1>7. Switching'
    BY <1>3 DEF TypeInv, Switching
<1>8. Queue'
    BY <1>2, <1>3, <1>4 DEF TypeInv, Queue, Sent, StartsFirst
<1>9. Repos'
    BY <1>2, <1>3, <1>4 DEF TypeInv, Repos, Sent
<1> QED
    BY <1>1, <1>5, <1>6, <1>7, <1>8, <1>9 DEF TypeInv

LEMMA StopServerKeeps ==
    ASSUME TypeInv, NEW p \in Instances, StopServer(p)
    PROVE  TypeInv'
<1> USE DEF disk, repos, plugins, worker, executor, quitter, bounds
<1>1. Typed'
    BY TypedStep DEF Next, Quitting
<1> DEFINE e == Finalize(p)
<1>2. e \in AnyEvent /\ e.type = "FinalizeWrite" /\ e.of = p /\ e.line.n = 0 /\ e.line.id = 0
    BY EventTypes
<1>3. /\ UNCHANGED <<disk, storageCounter, repos, plugins, caller, workerPc, maxIndex, pending, quitBy, up, calls>>
      /\ events' = events \/ events' = Append(events, e)
      /\ toStop' = toStop \ {p} /\ quitPc = "stopping"
    BY DEF StopServer
<1> HIDE DEF e
<1>4. quitBy # "none" /\ \A q \in Instances : adminPc[q] = "idle"
    BY <1>3 DEF TypeInv, Switching
<1>5. /\ \A i \in DOMAIN events' : (i \in DOMAIN events /\ events'[i] = events[i]) \/ events'[i] = e
      /\ StartsFirst(events')
      /\ events # <<>> => events' # <<>> /\ events'[1] = events[1]
    <2>1. CASE events' = events
        BY <2>1 DEF TypeInv, Queue, StartsFirst
    <2>2. CASE events' = Append(events, e)
        BY <1>2, <2>2, SentInOrder
    <2> QED
        BY <1>3, <2>1, <2>2
<1>6. Owned'
    BY <1>2, <1>3, <1>5 DEF TypeInv, Owned
<1>7. Bounded'
    <2>1. calls \in Nat /\ Small(0, 0, calls)
        BY DEF TypeInv, Typed, Small
    <2>2. \A i \in DOMAIN events' : Small(events'[i].line.n, events'[i].line.id, calls)
        BY <1>2, <1>3, <1>5, <2>1 DEF TypeInv, Bounded
    <2> QED
        BY <1>2, <1>3, <1>5, <2>2 DEF TypeInv, Bounded
<1>8. Switching'
    BY <1>3, <1>4 DEF TypeInv, Switching
<1>9. Queue'
    <2>1. ASSUME NEW i \in DOMAIN events', NEW q \in Instances, Sent(i, "FinalizeWrite", q)'
          PROVE  adminPc'[q] = "idle" /\ (active'[q] => q \notin toStop')
        <3>1. q = p \/ (i \in DOMAIN events /\ Sent(i, "FinalizeWrite", q))
            BY <1>2, <1>5, <2>1 DEF Sent
        <3>2. q = p \/ (active[q] => q \notin toStop)
            BY <3>1 DEF TypeInv, Queue
        <3> QED
            BY <1>3, <1>4, <3>2
    <2> QED
        BY <1>5, <2>1 DEF Queue, StartsFirst
<1>10. Repos'
    BY <1>2, <1>3, <1>5 DEF TypeInv, Repos, Sent
<1> QED
    BY <1>1, <1>6, <1>7, <1>8, <1>9, <1>10 DEF TypeInv

LEMMA StopGoesOnKeeps ==
    ASSUME TypeInv, StopWaited \/ SendTerminate
    PROVE  TypeInv'
<1> USE DEF disk, repos, plugins, worker, executor, quitter, bounds
<1>1. Typed'
    BY TypedStep DEF Next, Quitting
<1>2. Terminate \in AnyEvent /\ Terminate.type = "Terminate" /\ Terminate.line.n = 0 /\ Terminate.line.id = 0
    BY EventTypes
<1>3. /\ UNCHANGED <<disk, storageCounter, repos, plugins, caller, workerPc, maxIndex, pending, quitBy,
                     toStop, up, calls>>
      /\ events' = events \/ events' = Append(events, Terminate)
      /\ quitPc # "none"
    BY DEF StopWaited, SendTerminate
<1>4. quitBy # "none"
    BY <1>3 DEF TypeInv, Switching
<1>5. /\ \A i \in DOMAIN events' : (i \in DOMAIN events /\ events'[i] = events[i]) \/ events'[i] = Terminate
      /\ StartsFirst(events')
      /\ events # <<>> => events' # <<>> /\ events'[1] = events[1]
    <2>1. CASE events' = events
        BY <2>1 DEF TypeInv, Queue, StartsFirst
    <2>2. CASE events' = Append(events, Terminate)
        BY <1>2, <2>2, SentInOrder
    <2> QED
        BY <1>3, <2>1, <2>2
<1>6. Owned'
    BY <1>2, <1>3, <1>5 DEF TypeInv, Owned
<1>7. Bounded'
    <2>1. calls \in Nat /\ Small(0, 0, calls)
        BY DEF TypeInv, Typed, Small
    <2>2. \A i \in DOMAIN events' : Small(events'[i].line.n, events'[i].line.id, calls)
        BY <1>2, <1>3, <1>5, <2>1 DEF TypeInv, Bounded
    <2> QED
        BY <1>2, <1>3, <1>5, <2>2 DEF TypeInv, Bounded
<1>8. Switching'
    BY <1>3, <1>4 DEF TypeInv, Switching
<1>9. Queue'
    BY <1>2, <1>3, <1>5 DEF TypeInv, Queue, Sent, StartsFirst
<1>10. Repos'
    BY <1>2, <1>3, <1>5 DEF TypeInv, Repos, Sent
<1> QED
    BY <1>1, <1>6, <1>7, <1>8, <1>9, <1>10 DEF TypeInv

LEMMA ExitKeeps ==
    ASSUME TypeInv, HandleTerminate \/ CleanAndExit \/ Crash
    PROVE  TypeInv'
<1> USE DEF disk, repos, plugins, worker, executor, quitter, bounds
<1>1. Typed'
    BY TypedStep DEF Next, Worker, Quitting
<1>2. /\ ~up' /\ events' = <<>> /\ DOMAIN events' = {}
      /\ UNCHANGED <<disk, storageCounter, repos, plugins, caller, workerPc, maxIndex, pending, quitter, calls>>
    BY DEF HandleTerminate, CleanAndExit, Crash
<1>3. Owned' /\ Bounded' /\ Switching' /\ Queue' /\ Repos'
    BY <1>2 DEF TypeInv, Owned, Bounded, Switching, Queue, Repos
<1> QED
    BY <1>1, <1>3 DEF TypeInv

(* A new process has nothing in hand.                                      *)
LEMMA StartProcessKeeps ==
    ASSUME TypeInv, StartProcess
    PROVE  TypeInv'
<1> USE DEF disk, repos, plugins, worker, executor, quitter, bounds
<1>1. Typed'
    BY TypedStep DEF Next
<1>2. /\ events' = <<>> /\ pending' = <<>> /\ DOMAIN events' = {} /\ DOMAIN pending' = {}
      /\ UNCHANGED <<disk, calls>> /\ storageCounter' = 0 /\ maxIndex' = 0
      /\ quitBy' = "none" /\ quitPc' = "none" /\ toStop' = Instances /\ workerPc' = "idle"
    BY DEF StartProcess
<1>3. /\ \A p \in Instances : ~active'[p] /\ adminPc'[p] = "idle" /\ lines'[p] = {}
      /\ \A c \in Callers : caller'[c].pc = "idle" /\ caller'[c].n = 0 /\ caller'[c].id = 0
    BY CallTypes DEF StartProcess
<1>4. Owned'
    BY <1>2, <1>3 DEF Owned
<1>5. Bounded'
    <2>1. calls \in Nat
        BY DEF TypeInv, Typed
    <2> QED
        BY <1>2, <1>3, <2>1 DEF TypeInv, Bounded, Small
<1>6. Switching' /\ Queue' /\ Repos'
    BY <1>2, <1>3 DEF Switching, Queue, Repos
<1> QED
    BY <1>1, <1>4, <1>5, <1>6 DEF TypeInv

-----------------------------------------------------------------------------
LEMMA TypeStep ==
    ASSUME TypeInv, ~Hasty, [Next]_vars
    PROVE  TypeInv'
<1>1. CASE UNCHANGED vars
    <2>1. Typed'
        BY TypedStep
    <2>2. UNCHANGED Others /\ UNCHANGED <<index, lines, files, storageCounter, maxIndex, caller, pending, calls>>
        BY <1>1 DEF vars, disk, repos, plugins, worker, executor, quitter, bounds, Others
    <2>3. Owned' /\ Bounded'
        BY <2>2 DEF TypeInv, Owned, Bounded, Others
    <2> QED
        BY <2>1, <2>2, <2>3, OthersKept DEF TypeInv
<1>2. ASSUME NEW p \in Instances, Activate(p) \/ Activated(p) \/ ActivationTimesOut(p) \/ Deactivate(p)
      PROVE  TypeInv'
    BY <1>2, ActivateKeeps, ActivatedKeeps, DeactivateKeeps
<1>3. ASSUME NEW c \in Callers, PostCall(c) \/ SendLine(c)
      PROVE  TypeInv'
    <2>1. PICK p \in Instances : TRUE
        BY <1>3 DEF PostCall, SendLine, TypeInv, Owned
    <2> QED
        BY <1>3, <2>1, CallKeeps, SendLineKeeps
<1>4. ASSUME NEW c \in Callers, NEW p \in Instances, PreCall(c, p) \/ AsyncResponse(c, p)
      PROVE  TypeInv'
    BY <1>4, CallKeeps
<1>5. CASE Executor \/ Worker
    BY <1>5, ExecutorKeeps, StartKeeps, RecordInteractionKeeps, FinalizeKeeps, ExitKeeps DEF Worker
<1>6. CASE Quitting \/ Crash \/ StartProcess
    BY <1>6, StopServerKeeps, StopGoesOnKeeps, ExitKeeps, StartProcessKeeps DEF Quitting
<1>7. CASE \E by \in Quits : Quit(by)
    BY <1>7, QuitKeeps
<1> QED
    BY <1>1, <1>2, <1>3, <1>4, <1>5, <1>6, <1>7 DEF Next

LEMMA TypesOfInv == TypeInv => TypeOK
<1> SUFFICES ASSUME TypeInv PROVE TypeOK
    OBVIOUS
<1>1. calls \in Nat /\ calls <= MaxCalls /\ MaxCalls \in Nat /\ 2 * calls + 2 <= 2 * MaxCalls + 2
    BY ConstantsAssumption DEF TypeInv, Typed
<1>2. \A id \in Nat : id <= 2 * calls + 2 => id \in Ids
    BY <1>1 DEF Ids
<1>3. ASSUME NEW l \in AnyLine, Small(l.n, l.id, calls) PROVE l \in Lines
    <2>1. l.n \in 0..MaxCalls /\ l.id \in Ids
        BY <1>1, <1>2, <1>3 DEF AnyLine, Small
    <2> QED
        BY <2>1 DEF AnyLine, Lines
<1>4. \A p \in Instances : index[p] \subseteq Lines /\ lines[p] \subseteq Lines
    <2>1. \A p \in Instances : \A l \in index[p] \cup lines[p] : l \in AnyLine /\ Small(l.n, l.id, calls)
        BY DEF TypeInv, Typed, Bounded
    <2> QED
        BY <1>3, <2>1
<1>5. \A p \in Instances : DOMAIN files[p] \subseteq Ids
    <2>1. \A p \in Instances : \A id \in DOMAIN files[p] : id \in Nat /\ id <= 2 * calls + 1
        BY DEF TypeInv, Typed, Bounded
    <2> QED
        BY <1>1, <1>2, <2>1
<1>6. storageCounter \in Ids
    BY <1>2 DEF TypeInv, Typed, Bounded
<1>7. \A c \in Callers : caller[c].pc \in {"idle", "calling", "saving"}
    BY DEF TypeInv, Typed, AnyCall
<1>8. \A p \in Instances : up /\ isActive(p) /\ quitBy = "none" => p \in recording
    BY DEF TypeInv, Switching, Repos, isActive
<1> QED
    BY <1>4, <1>5, <1>6, <1>7, <1>8 DEF TypeInv, Typed, TypeOK

(***************************************************************************)
(* Unless recording is turned on hastily, the types hold with any number   *)
(* of instances: no id is past twice the calls, and a plugin that is       *)
(* active has its repo until the process quits.                            *)
(***************************************************************************)
THEOREM RecordingTypes == ASSUME ~Hasty PROVE Spec => []TypeOK
<1>1. Init => TypeInv
    BY InitTyped
<1>2. TypeInv /\ [Next]_vars => TypeInv'
    BY TypeStep
<1> QED
    BY <1>1, <1>2, TypesOfInv, PTL DEF Spec

-----------------------------------------------------------------------------
LEMMA PlayIs ==
    ASSUME NEW cs, NEW es, NEW ps, NEW x
    PROVE  x \in Play(cs, es, ps) <=>
               \/ \E c \in Callers : cs[c].id # 0 /\ x = <<cs[c].id, cs[c].n>>
               \/ \E i \in DOMAIN es : es[i].type = "WriteItem" /\ x = <<es[i].line.id, es[i].line.n>>
               \/ \E i \in DOMAIN ps : x = <<ps[i].line.id, ps[i].line.n>>
BY DEF Play

LEMMA PlayTyped ==
    ASSUME TypeInv, NEW x \in InPlay
    PROVE  x[1] \in Nat /\ x[2] \in Nat /\ x = <<x[1], x[2]>>
<1>1. events \in Seq(AnyEvent) /\ pending \in Seq(AnyEvent) /\ caller \in [Callers -> AnyCall]
    BY DEF TypeInv, Typed
<1>2. /\ \A i \in DOMAIN events : events[i] \in AnyEvent
      /\ \A i \in DOMAIN pending : pending[i] \in AnyEvent
      /\ \A c \in Callers : caller[c].id \in Nat /\ caller[c].n \in Nat
    BY <1>1 DEF AnyCall
<1>3. \A e \in AnyEvent : e.line.id \in Nat /\ e.line.n \in Nat
    BY DEF AnyEvent, AnyLine
<1>4. \E id, n \in Nat : x = <<id, n>>
    BY <1>2, <1>3, PlayIs DEF InPlay
<1> QED
    BY <1>4

(* The ids in play after a step that takes none: calls go on or end, a     *)
(* line is sent, given to the executor or written.                         *)
LEMMA PlayShrinks ==
    ASSUME TypeInv, Numbered,
           \/ \E p \in Instances : Activate(p) \/ Activated(p) \/ ActivationTimesOut(p) \/ Deactivate(p)
           \/ \E c \in Callers : PostCall(c) \/ SendLine(c)
           \/ Executor \/ Worker \/ Quitting \/ \E by \in Quits : Quit(by)
    PROVE  InPlay' \subseteq InPlay /\ Numbered'
<1> USE DEF disk, repos, plugins, worker, executor, quitter, bounds
<1>0. events \in Seq(AnyEvent) /\ pending \in Seq(AnyEvent) /\ caller \in [Callers -> AnyCall]
    BY DEF TypeInv, Typed
<1>1. ASSUME NEW e \in AnyEvent, e.type # "WriteItem",
             events' = Append(events, e) \/ events' = events, UNCHANGED <<caller, pending>>
      PROVE  InPlay' \subseteq InPlay /\ Numbered'
    <2>1. \A i \in DOMAIN events' : (i \in DOMAIN events /\ events'[i] = events[i]) \/ events'[i] = e
        BY <1>0, <1>1, Appended
    <2>2. ASSUME NEW x \in Play(caller', events', pending') PROVE x \in Play(caller, events, pending)
        BY <1>1, <2>1, PlayIs
    <2> QED
        BY <1>1, <2>2 DEF InPlay, Numbered
<1>2. ASSUME \/ events' = events
             \/ events' = <<>>
             \/ events # <<>> /\ events' = Tail(events),
             UNCHANGED <<caller, pending>>
      PROVE  InPlay' \subseteq InPlay /\ Numbered'
    <2>1. \A i \in DOMAIN events' : \E j \in DOMAIN events : events'[i] = events[j]
        BY <1>0, <1>2
    <2>2. ASSUME NEW x \in Play(caller', events', pending') PROVE x \in Play(caller, events, pending)
        BY <1>2, <2>1, PlayIs
    <2> QED
        BY <1>2, <2>2 DEF InPlay, Numbered
<1>3. ASSUME NEW c \in Callers, PostCall(c)
      PROVE  InPlay' \subseteq InPlay /\ Numbered'
    <2>1. UNCHANGED <<events, pending>>
        BY <1>3 DEF PostCall
    <2> DEFINE k == [caller[c] EXCEPT !.pc = "saving"]
    <2>2. k.n = caller[c].n /\ k.id = caller[c].id
        BY <1>0 DEF AnyCall
    <2>3. (caller' = [caller EXCEPT ![c] = k] /\ caller[c].id # 0) \/ caller' = [caller EXCEPT ![c] = Idle]
        BY <1>3 DEF PostCall
    <2> HIDE DEF k
    <2>4. ASSUME NEW d \in Callers
          PROVE  /\ caller'[d].id # 0 => caller'[d].id = caller[d].id /\ caller'[d].n = caller[d].n
                 /\ caller'[d].pc = "saving" => caller'[d].id # 0
        BY <1>0, <2>2, <2>3, CallTypes DEF Numbered
    <2>5. ASSUME NEW x \in Play(caller', events', pending') PROVE x \in Play(caller, events, pending)
        BY <2>1, <2>4, PlayIs
    <2> QED
        BY <2>4, <2>5 DEF InPlay, Numbered
<1>4. ASSUME NEW c \in Callers, SendLine(c)
      PROVE  InPlay' \subseteq InPlay /\ Numbered'
    <2>1. caller' = [caller EXCEPT ![c] = Idle] /\ pending' = pending /\ caller[c].id # 0
        BY <1>4 DEF SendLine, Numbered
    <2>2. caller[c].of \in Instances /\ caller[c].n \in Nat /\ caller[c].id \in Nat
        BY <1>0, <1>4 DEF SendLine, TypeInv, Owned, AnyCall
    <2>3. PICK stored \in BOOLEAN :
              events' = Append(events, Event("WriteItem", caller[c].of, Line(caller[c].n, caller[c].id, stored)))
        BY <1>4 DEF SendLine
    <2> DEFINE e == Event("WriteItem", caller[c].of, Line(caller[c].n, caller[c].id, stored))
    <2>4. e \in AnyEvent /\ e.line.n = caller[c].n /\ e.line.id = caller[c].id /\ events' = Append(events, e)
        BY <2>2, <2>3, EventTypes
    <2> HIDE DEF e
    <2>5. \A i \in DOMAIN events' : (i \in DOMAIN events /\ events'[i] = events[i]) \/ events'[i] = e
        BY <1>0, <2>4, Appended
    <2>6. ASSUME NEW d \in Callers
          PROVE  caller'[d] = caller[d] \/ (caller'[d].id = 0 /\ caller'[d].pc = "idle")
        BY <1>0, <2>1, CallTypes
    <2>7. ASSUME NEW x \in Play(caller', events', pending') PROVE x \in Play(caller, events, pending)
        <3>1. \/ \E d \in Callers : caller'[d].id # 0 /\ x = <<caller'[d].id, caller'[d].n>>
              \/ \E i \in DOMAIN events' :
                    events'[i].type = "WriteItem" /\ x = <<events'[i].line.id, events'[i].line.n>>
              \/ \E i \in DOMAIN pending' : x = <<pending'[i].line.id, pending'[i].line.n>>
            BY <2>7, PlayIs
        <3>2. \/ \E d \in Callers : caller[d].id # 0 /\ x = <<caller[d].id, caller[d].n>>
              \/ \E i \in DOMAIN events :
                    events[i].type = "WriteItem" /\ x = <<events[i].line.id, events[i].line.n>>
              \/ \E i \in DOMAIN pending : x = <<pending[i].line.id, pending[i].line.n>>
            BY <2>1, <2>4, <2>5, <2>6, <3>1
        <3> QED
            BY <3>2, PlayIs
    <2> QED
        BY <2>6, <2>7 DEF InPlay, Numbered
<1>5. CASE RecordInteraction
    <2>1. /\ 1 \in DOMAIN events /\ events[1] \in AnyEvent /\ events[1].type = "WriteItem"
          /\ pending' = Append(pending, events[1]) /\ UNCHANGED caller
          /\ \A i \in DOMAIN events' : i + 1 \in DOMAIN events /\ events'[i] = events[i + 1]
        BY <1>5, InHandIs DEF RecordInteraction
    <2>2. \A i \in DOMAIN pending' : (i \in DOMAIN pending /\ pending'[i] = pending[i]) \/ pending'[i] = events[1]
        BY <1>0, <2>1, Appended
    <2>3. ASSUME NEW x \in Play(caller', events', pending') PROVE x \in Play(caller, events, pending)
        <3>1. \/ \E d \in Callers : caller'[d].id # 0 /\ x = <<caller'[d].id, caller'[d].n>>
              \/ \E i \in DOMAIN events' :
                    events'[i].type = "WriteItem" /\ x = <<events'[i].line.id, events'[i].line.n>>
              \/ \E i \in DOMAIN pending' : x = <<pending'[i].line.id, pending'[i].line.n>>
            BY <2>3, PlayIs
        <3>2. \/ \E d \in Callers : caller[d].id # 0 /\ x = <<caller[d].id, caller[d].n>>
              \/ \E i \in DOMAIN events :
                    events[i].type = "WriteItem" /\ x = <<events[i].line.id, events[i].line.n>>
              \/ \E i \in DOMAIN pending : x = <<pending[i].line.id, pending[i].line.n>>
            BY <2>1, <2>2, <3>1
        <3> QED
            BY <3>2, PlayIs
    <2> QED
        BY <2>1, <2>3 DEF InPlay, Numbered
<1>6. CASE Executor
    <2>0. UNCHANGED <<caller, events>> /\ pending # <<>> /\ pending' \in {pending, Tail(pending)}
        BY <1>6, ExecutorIs
    <2>1. /\ UNCHANGED <<caller, events>>
          /\ \A i \in DOMAIN pending' : \E j \in DOMAIN pending : pending'[i] = pending[j]
        BY <2>0, PendingIs
    <2>2. ASSUME NEW x \in Play(caller', events', pending') PROVE x \in Play(caller, events, pending)
        BY <2>1, PlayIs
    <2> QED
        BY <2>1, <2>2 DEF InPlay, Numbered
<1>7. CASE StartRecording \/ SetCounter \/ FinalizeRecording \/ WriteIndex \/ WriteIndexThrows
           \/ HandleTerminate \/ StopWaited \/ CleanAndExit \/ \E p \in Instances : Activated(p) \/ ActivationTimesOut(p)
    <2>1. UNCHANGED <<caller, pending>>
        BY <1>7 DEF StartRecording, SetCounter, FinalizeRecording, FinalizeTakes, WriteIndex, WriteIndexThrows, HandleTerminate,
                    StopWaited, CleanAndExit, Activated, ActivationTimesOut
    <2>2. events' = events \/ events' = <<>> \/ (events # <<>> /\ events' = Tail(events))
        BY <1>7 DEF StartRecording, SetCounter, FinalizeRecording, FinalizeTakes, WriteIndex, WriteIndexThrows, HandleTerminate,
                    StopWaited, CleanAndExit, Activated, ActivationTimesOut, InHand
    <2> QED
        BY <1>2, <2>1, <2>2
<1>8. CASE \/ \E p \in Instances : Activate(p) \/ Deactivate(p) \/ StopServer(p)
           \/ SendTerminate \/ \E by \in Quits : Quit(by)
    <2>1. UNCHANGED <<caller, pending>>
        BY <1>8 DEF Activate, Deactivate, StopServer, SendTerminate, Quit
    <2>2. ASSUME NEW p \in Instances, Activate(p) PROVE events' = Append(events, Start(p))
        BY <2>2 DEF Activate
    <2>3. ASSUME NEW p \in Instances, Deactivate(p) \/ StopServer(p)
          PROVE  events' = Append(events, Finalize(p)) \/ events' = events
        BY <2>3 DEF Deactivate, StopServer
    <2>4. CASE SendTerminate \/ \E by \in Quits : Quit(by)
        <3>1. events' = Append(events, Terminate) \/ events' = events
            BY <2>4 DEF SendTerminate, Quit
        <3> QED
            BY <1>1, <2>1, <3>1, EventTypes
    <2> QED
        BY <1>1, <1>8, <2>1, <2>2, <2>3, <2>4, EventTypes
<1> QED
    BY <1>3, <1>4, <1>5, <1>6, <1>7, <1>8 DEF Worker, Quitting

(* A step that takes no id and leaves the lines and the files alone.       *)
LEMMA IdsKept ==
    ASSUME IdsInv, InPlay' \subseteq InPlay, Writing' = Writing,
           UNCHANGED <<issued, storageCounter, index, lines, files, torn, recording, up, workerPc, maxIndex>>
    PROVE  Counter' /\ SameCall' /\ Describes'
<1>1. Counter'
    BY DEF IdsInv, Counter, UniqueProgressiveIds
<1>2. SameCall'
    BY DEF IdsInv, SameCall
<1>3. Describes'
    BY DEF IdsInv, Describes, Described
<1> QED
    BY <1>1, <1>2, <1>3

(* An id that is taken is new.  With one instance no recording starts      *)
(* while a plugin is active, so the counter is not set at the same time.   *)
LEMMA GenerateIsNew ==
    ASSUME IdsInv, NEW p, Instances = {p}, NEW c \in Callers, up, isActive(p), p \in toStop, generateIndex,
           NEW k, caller' = [caller EXCEPT ![c] = k], k.n = calls + 1, k.id = storageCounter + 1,
           UNCHANGED <<index, lines, files, torn, recording, up, workerPc, maxIndex, events, executor>>
    PROVE  Numbered' /\ Counter' /\ SameCall' /\ Describes'
<1> USE DEF executor
<1> DEFINE new == <<storageCounter + 1, calls + 1>>
<1>1. TypeInv /\ storageCounter \in Nat /\ issued \in Seq(Nat) /\ caller \in [Callers -> AnyCall]
    BY DEF IdsInv, TypeInv, Typed
<1>2. p \in recording /\ workerPc # "starting"
    <2>1. p \in recording
        BY <1>1 DEF isActive, TypeInv, Repos
    <2>2. workerPc = "starting" => 1 \in DOMAIN events /\ events[1].of \in Instances /\ events[1].of \notin recording
        <3>1. events \in Seq(AnyEvent)
            BY <1>1 DEF TypeInv, Typed
        <3>2. workerPc = "starting" =>
                  events # <<>> /\ events[1].type = "StartWrite" /\ events[1].of \notin recording
            BY <1>1 DEF TypeInv, Repos
        <3>3. events # <<>> => 1 \in DOMAIN events
            BY <3>1
        <3> QED
            BY <1>1, <3>2, <3>3 DEF TypeInv, Owned
    <2> QED
        BY <2>1, <2>2
<1>3. issued' = Append(issued, storageCounter + 1) /\ storageCounter' = storageCounter + 1
    BY DEF generateIndex
<1>4. \A x \in InPlay' : x \in InPlay \/ x = new
    <2>1. \A d \in Callers : caller'[d] = IF d = c THEN k ELSE caller[d]
        BY <1>1
    <2>2. ASSUME NEW cs, \A d \in Callers : cs[d] = IF d = c THEN k ELSE caller[d],
                 NEW x \in Play(cs, events, pending)
          PROVE  x \in Play(caller, events, pending) \/ x = new
        <3>1. \/ \E d \in Callers : cs[d].id # 0 /\ x = <<cs[d].id, cs[d].n>>
              \/ \E i \in DOMAIN events :
                    events[i].type = "WriteItem" /\ x = <<events[i].line.id, events[i].line.n>>
              \/ \E i \in DOMAIN pending : x = <<pending[i].line.id, pending[i].line.n>>
            BY <2>2, PlayIs
        <3>2. \/ \E d \in Callers : caller[d].id # 0 /\ x = <<caller[d].id, caller[d].n>>
              \/ \E i \in DOMAIN events :
                    events[i].type = "WriteItem" /\ x = <<events[i].line.id, events[i].line.n>>
              \/ \E i \in DOMAIN pending : x = <<pending[i].line.id, pending[i].line.n>>
              \/ x = new
            BY <2>2, <3>1
        <3> QED
            BY <3>2, PlayIs
    <2> QED
        BY <2>1, <2>2 DEF InPlay
<1>5. \A x \in InPlay : x[1] \in Nat /\ x[1] <= storageCounter
    BY <1>1, PlayTyped DEF IdsInv, Counter
<1>6. new[1] = storageCounter + 1 /\ new[2] = calls + 1
    OBVIOUS
<1> HIDE DEF new
<1>7. \A q \in Instances : \A l \in index[q] \cup lines[q] : l.id \in Nat /\ l.id <= storageCounter
    <2>1. \A q \in Instances : \A l \in index[q] \cup lines[q] : l.id \in Nat
        BY <1>1 DEF TypeInv, Typed, AnyLine
    <2> QED
        BY <1>2, <2>1 DEF IdsInv, Counter
<1>8. Numbered'
    BY <1>1 DEF IdsInv, Numbered
<1>9. Counter'
    <2>1. /\ \A i \in DOMAIN issued : issued[i] \in Nat /\ issued[i] <= storageCounter
          /\ \A i, j \in DOMAIN issued : i < j => issued[i] < issued[j]
        BY <1>1 DEF IdsInv, Counter, UniqueProgressiveIds
    <2>2. /\ Len(issued) \in Nat /\ DOMAIN issued = 1..Len(issued) /\ DOMAIN issued' = 1..(Len(issued) + 1)
          /\ \A i \in 1..Len(issued) : issued'[i] = issued[i]
          /\ issued'[Len(issued) + 1] = storageCounter + 1
        BY <1>1, <1>3
    <2>3. \A i \in DOMAIN issued' : issued'[i] <= storageCounter'
        BY <1>1, <1>3, <2>1, <2>2
    <2>4. UniqueProgressiveIds'
        BY <1>1, <2>1, <2>2 DEF UniqueProgressiveIds
    <2>5. \A x \in InPlay' : x[1] <= storageCounter'
        BY <1>1, <1>3, <1>4, <1>5, <1>6
    <2>6. \A q \in recording : \A l \in index[q] \cup lines[q] : l.id <= storageCounter'
        BY <1>1, <1>3, <1>7 DEF TypeInv, Typed
    <2> QED
        BY <1>2, <2>3, <2>4, <2>5, <2>6 DEF Counter
<1>10. SameCall'
    <2>1. \A x, y \in InPlay' : x[1] = y[1] => x[2] = y[2]
        BY <1>1, <1>4, <1>5, <1>6 DEF IdsInv, SameCall
    <2>2. \A x \in InPlay' : \A q \in Instances : \A l \in index[q] \cup lines[q] : x[1] = l.id => x[2] = l.n
        BY <1>1, <1>4, <1>6, <1>7 DEF IdsInv, SameCall
    <2> QED
        BY <2>1, <2>2 DEF SameCall
<1>11. Describes'
    BY DEF IdsInv, Describes, Described, Writing
<1> QED
    BY <1>8, <1>9, <1>10, <1>11

(* The ids when a recording starts: the counter is set past those of the   *)
(* index file and not set back.                                            *)
LEMMA StartKeepsIds ==
    ASSUME IdsInv, NEW p, Instances = {p}, StartRecording \/ SetCounter
    PROVE  Counter' /\ SameCall' /\ Describes'
<1> USE DEF disk, repos, plugins, worker, executor, quitter, bounds
<1>1. TypeInv /\ InPlay' \subseteq InPlay
    BY PlayShrinks DEF IdsInv, Worker
<1>2. InHand("StartWrite") /\ up
    BY DEF StartRecording, SetCounter, InHand
<1>3. /\ Head(events).of = p /\ events[1].of = p
      /\ lines \in [Instances -> SUBSET AnyLine] /\ recording \in SUBSET Instances
    BY <1>1, <1>2, InHandIs DEF TypeInv, Typed
<1>4. UNCHANGED <<disk, issued, up>> /\ Writing' = Writing
    BY DEF StartRecording, SetCounter, Writing
<1>5. CASE StartRecording /\ (p \in recording \/ index[p] = {})
    <2>1. /\ recording' = {p} /\ UNCHANGED <<storageCounter, workerPc, maxIndex>> /\ workerPc = "idle"
          /\ lines' = [lines EXCEPT ![p] = IF p \in recording THEN lines[p] ELSE {}]
        BY <1>3, <1>5 DEF StartRecording
    <2>2. lines'[p] = IF p \in recording THEN lines[p] ELSE {}
        BY <1>3, <2>1
    <2>3. Counter'
        BY <1>1, <1>2, <1>4, <1>5, <2>1, <2>2 DEF IdsInv, Counter, UniqueProgressiveIds
    <2>4. SameCall'
        BY <1>1, <1>2, <1>4, <1>5, <2>2 DEF IdsInv, SameCall
    <2>5. Describes'
        BY <1>2, <1>4, <2>1, <2>2 DEF IdsInv, Describes, Described
    <2> QED
        BY <2>3, <2>4, <2>5
<1>6. CASE StartRecording /\ ~(p \in recording \/ index[p] = {})
    <2>1. /\ UNCHANGED <<repos, storageCounter>> /\ workerPc' = "starting"
          /\ maxIndex' = Max({storageCounter, Max({l.id : l \in index[p]}) + 1})
        BY <1>3, <1>6 DEF StartRecording
    <2>2. storageCounter <= maxIndex' /\ \A l \in index[p] : l.id <= maxIndex'
        BY <1>1, <1>6, <2>1, StartMax
    <2>3. Counter'
        BY <1>1, <1>2, <1>4, <2>1, <2>2 DEF IdsInv, Counter, UniqueProgressiveIds
    <2>4. SameCall'
        BY <1>1, <1>2, <1>4, <2>1 DEF IdsInv, SameCall
    <2>5. Describes'
        BY <1>4, <1>6, <2>1 DEF IdsInv, Describes, Described
    <2> QED
        BY <2>3, <2>4, <2>5
<1>7. CASE SetCounter
    <2>1. /\ recording' = recording \cup {p} /\ UNCHANGED maxIndex /\ workerPc = "starting" /\ workerPc' = "idle"
          /\ lines' = [lines EXCEPT ![p] = index[p]] /\ storageCounter' = maxIndex
        BY <1>3, <1>7 DEF SetCounter
    <2>2. lines'[p] = index[p] /\ recording' = {p}
        BY <1>3, <2>1
    <2>3. /\ storageCounter \in Nat /\ maxIndex \in Nat /\ storageCounter <= maxIndex
          /\ \A l \in index[p] : l.id <= maxIndex
        BY <1>1, <1>2, <2>1 DEF TypeInv, Typed, IdsInv, Counter
    <2>4. /\ \A x \in InPlay : x[1] \in Nat /\ x[1] <= storageCounter
          /\ \A i \in DOMAIN issued : issued[i] \in Nat /\ issued[i] <= storageCounter
        BY <1>1, <1>2, PlayTyped DEF TypeInv, Typed, IdsInv, Counter
    <2>5. Counter'
        BY <1>1, <1>2, <1>4, <2>1, <2>2, <2>3, <2>4 DEF IdsInv, Counter, UniqueProgressiveIds
    <2>6. SameCall'
        BY <1>1, <1>2, <1>4, <2>2 DEF IdsInv, SameCall
    <2>7. Describes'
        BY <1>4, <2>2 DEF IdsInv, Describes, Described
    <2> QED
        BY <2>5, <2>6, <2>7
<1> QED
    BY <1>5, <1>6, <1>7

(* The executor adds a line and then its item file, of the call the id was *)
(* given to.                                                               *)
LEMMA ExecutorKeepsIds ==
    ASSUME IdsInv, NEW p, Instances = {p}, Executor
    PROVE  Counter' /\ SameCall' /\ Describes'
<1> USE DEF disk, repos, plugins, worker, executor, quitter, bounds
<1>1. TypeInv /\ InPlay' \subseteq InPlay
    BY PlayShrinks DEF IdsInv
<1>2. PICK line \in AnyLine :
          /\ line = pending[1].line /\ 1 \in DOMAIN pending /\ Head(pending) = pending[1]
          /\ pending[1] = Event("WriteItem", p, line) /\ pending[1].of = p
          /\ up /\ UNCHANGED <<index, recording, storageCounter, issued, up, workerPc, maxIndex>>
    BY <1>1, ExecutorIs
<1> DEFINE new == <<line.id, line.n>>
<1>3. new \in InPlay /\ new[1] = line.id /\ new[2] = line.n
    <2>1. new \in Play(caller, events, pending)
        BY <1>2, PlayIs
    <2> QED
        BY <2>1 DEF InPlay
<1> HIDE DEF new
<1>4. /\ line.id <= storageCounter
      /\ \A x \in InPlay : x[1] = line.id => x[2] = line.n
      /\ \A l \in index[p] \cup lines[p] : line.id = l.id => line.n = l.n
    BY <1>2, <1>3 DEF IdsInv, Counter, SameCall
<1>5. CASE ExecutorTakes
    <2>1. UNCHANGED <<lines, files, torn>> /\ Writing' = Writing
        BY <1>5 DEF ExecutorTakes, InHandOfExecutor, Writing
    <2> QED
        BY <1>1, <1>2, <2>1, IdsKept
<1>6. CASE ExecutorAdds
    <2>1. /\ UNCHANGED <<files, torn>> /\ Writing = {}
          /\ lines' = lines \/ lines' = [lines EXCEPT ![p] = lines[p] \cup {line}]
          /\ line.stored => Writing' = {Event("WriteItem", p, line)}
        BY <1>2, <1>6 DEF ExecutorAdds, InHandOfExecutor, Writing
    <2>2. lines'[p] \subseteq lines[p] \cup {line}
        <3>1. lines \in [Instances -> SUBSET AnyLine]
            BY <1>1 DEF TypeInv, Typed
        <3> QED
            BY <2>1, <3>1
    <2>3. Counter'
        <3>1. \A q \in recording : \A l \in index[q] \cup lines'[q] : l.id <= storageCounter
            <4>1. recording \subseteq {p}
                BY <1>1 DEF TypeInv, Typed
            <4>2. p \in recording => \A l \in index[p] \cup lines[p] : l.id <= storageCounter
                BY <1>2 DEF IdsInv, Counter
            <4> QED
                BY <1>4, <2>2, <4>1, <4>2
        <3> QED
            BY <1>1, <1>2, <3>1 DEF IdsInv, Counter, UniqueProgressiveIds
    <2>4. SameCall'
        BY <1>1, <1>2, <1>4, <2>2 DEF IdsInv, SameCall
    <2>5. /\ Described(p, index[p], files[p], torn)
          /\ p \in recording \/ workerPc = "finalizing" => Described(p, lines[p], files[p], torn)
        BY <1>2, <2>1 DEF IdsInv, Describes, Described
    <2>6. p \in recording \/ workerPc = "finalizing" => Described(p, lines'[p], files[p], torn \cup Writing')
        BY <2>1, <2>2, <2>5 DEF Described
    <2>7. Describes'
        BY <1>2, <2>1, <2>5, <2>6 DEF Describes
    <2> QED
        BY <2>3, <2>4, <2>7
<1>7. CASE ExecutorWrites
    <2> DEFINE e == Event("WriteItem", p, line)
    <2>1. /\ UNCHANGED lines /\ Writing = {e} /\ Writing' = {} /\ torn' = torn \ {e}
          /\ files' = [files EXCEPT ![p] = WithItem(files[p], line)]
        BY <1>2, <1>7 DEF ExecutorWrites, InHandOfExecutor, Writing
    <2>2. files'[p] = WithItem(files[p], line)
        <3>1. DOMAIN files = Instances
            BY <1>1 DEF TypeInv, Typed
        <3> QED
            BY <2>1, <3>1
    <2>3. Counter' /\ SameCall'
        BY <1>1, <1>2, <2>1 DEF IdsInv, Counter, SameCall, UniqueProgressiveIds
    <2>4. ASSUME NEW l \in index[p] \cup lines[p],
                 \/ l.id \in DOMAIN files[p] /\ files[p][l.id] = l.n
                 \/ Event("WriteItem", p, l) \in torn \cup Writing
          PROVE  \/ l.id \in DOMAIN files'[p] /\ files'[p][l.id] = l.n
                 \/ Event("WriteItem", p, l) \in torn'
        <3>1. CASE l.id \in DOMAIN files[p] /\ files[p][l.id] = l.n
            BY <1>4, <2>2, <3>1 DEF WithItem
        <3>2. CASE Event("WriteItem", p, l) = e
            <4>1. l = line
                BY <3>2 DEF Event
            <4> QED
                BY <2>2, <4>1 DEF WithItem
        <3>3. CASE Event("WriteItem", p, l) \in torn /\ Event("WriteItem", p, l) # e
            BY <2>1, <3>3
        <3> QED
            BY <2>1, <2>4, <3>1, <3>2, <3>3
    <2>5. /\ Described(p, index[p], files[p], torn)
          /\ p \in recording \/ workerPc = "finalizing" => Described(p, lines[p], files[p], torn \cup Writing)
        BY <1>2 DEF IdsInv, Describes
    <2>6. /\ Described(p, index[p], files'[p], torn')
          /\ p \in recording \/ workerPc = "finalizing" => Described(p, lines[p], files'[p], torn' \cup Writing')
        BY <2>4, <2>5 DEF Described
    <2>7. Describes'
        BY <1>2, <2>1, <2>6 DEF Describes
    <2> QED
        BY <2>3, <2>7
<1> QED
    BY <1>5, <1>6, <1>7 DEF Executor

(* The index file is deleted, and written from the lines.                  *)
LEMMA FinalizeKeepsIds ==
    ASSUME IdsInv, NEW p, Instances = {p}, FinalizeRecording \/ WriteIndex \/ WriteIndexThrows
    PROVE  Counter' /\ SameCall' /\ Describes'
<1> USE DEF disk, repos, plugins, worker, executor, quitter, bounds
<1>1. TypeInv /\ InPlay' \subseteq InPlay
    BY PlayShrinks DEF IdsInv, Worker
<1>2. InHand("FinalizeWrite") /\ up
    BY DEF FinalizeRecording, WriteIndex, WriteIndexThrows, InHand
<1>3. /\ Head(events).of = p /\ events[1].of = p
      /\ index \in [Instances -> SUBSET AnyLine] /\ recording \in SUBSET Instances
    BY <1>1, <1>2, InHandIs DEF TypeInv, Typed
<1>4. UNCHANGED <<files, lines, storageCounter, issued, up, maxIndex>>
    BY DEF FinalizeRecording, FinalizeTakes, WriteIndex, WriteIndexThrows
<1>5. recording' = {} /\ workerPc' # "starting"
    <2>1. CASE FinalizeRecording
        BY <1>3, <2>1 DEF FinalizeRecording, FinalizeTakes
    <2>2. CASE WriteIndex \/ WriteIndexThrows
        <3>1. p \notin recording
            BY <1>1, <1>2, <1>3, <2>2 DEF WriteIndex, WriteIndexThrows, TypeInv, Repos
        <3> QED
            BY <1>3, <2>2, <3>1 DEF WriteIndex, WriteIndexThrows
    <2> QED
        BY <2>1, <2>2
<1>6. /\ index'[p] \in {index[p], lines[p], {}}
      /\ Described(p, index'[p], files[p], torn')
      /\ workerPc' = "finalizing" => Described(p, lines[p], files[p], torn' \cup Writing')
    <2>1. CASE FinalizeRecording
        <3>1. /\ index' = index \/ index' = [index EXCEPT ![p] = {}]
              /\ workerPc' = "finalizing" => p \in recording
              /\ torn' = torn /\ Writing' = Writing
            BY <1>3, <2>1 DEF FinalizeRecording, FinalizeTakes, Orphan, Writing
        <3>2. index'[p] \in {index[p], {}}
            BY <1>3, <3>1
        <3> QED
            BY <1>2, <3>1, <3>2 DEF IdsInv, Describes, Described
    <2>2. CASE WriteIndex
        <3>1. workerPc = "finalizing" /\ workerPc' = "idle" /\ index' = [index EXCEPT ![p] = lines[p]]
            BY <1>3, <2>2 DEF WriteIndex
        <3>2. index'[p] = lines[p]
            BY <1>3, <3>1
        <3>3. torn' = torn \cup Writing
            <4>1. execPc = "writing" => Head(pending) = pending[1] /\ Head(pending).of = p
                BY <1>1, PendingIs DEF TypeInv, Typed
            <4> QED
                BY <1>3, <2>2, <4>1 DEF WriteIndex, Writing
        <3> QED
            BY <1>2, <3>1, <3>2, <3>3 DEF IdsInv, Describes
    <2>3. CASE WriteIndexThrows
        <3>1. UNCHANGED <<index, torn>> /\ workerPc' = "idle"
            BY <2>3 DEF WriteIndexThrows
        <3> QED
            BY <3>1 DEF IdsInv, Describes
    <2> QED
        BY <2>1, <2>2, <2>3
<1>7. Counter'
    BY <1>1, <1>2, <1>4, <1>5 DEF IdsInv, Counter, UniqueProgressiveIds
<1>8. SameCall'
    BY <1>1, <1>2, <1>4, <1>6 DEF IdsInv, SameCall
<1>9. Describes'
    BY <1>4, <1>5, <1>6 DEF Describes
<1> QED
    BY <1>7, <1>8, <1>9

LEMMA IdsStep ==
    ASSUME IdsInv, ~Hasty, NEW p, Instances = {p}, [Next]_vars
    PROVE  IdsInv'
<1> USE DEF disk, repos, plugins, worker, executor, quitter, bounds
<1>0. TypeInv /\ TypeInv'
    BY TypeStep DEF IdsInv
<1>1. CASE UNCHANGED vars
    <2>1. InPlay' = InPlay /\ Numbered' /\ Writing' = Writing
        BY <1>1 DEF vars, InPlay, IdsInv, Numbered, Writing
    <2> QED
        BY <1>0, <1>1, <2>1, IdsKept DEF vars, IdsInv
<1>2. ASSUME InPlay' \subseteq InPlay, Numbered',
             \/ \E q \in Instances : Activate(q) \/ Activated(q) \/ ActivationTimesOut(q) \/ Deactivate(q)
             \/ \E c \in Callers : PostCall(c) \/ SendLine(c)
             \/ RecordInteraction \/ StopWaited \/ SendTerminate
             \/ \E q \in Instances : StopServer(q)
             \/ \E by \in Quits : Quit(by)
      PROVE  IdsInv'
    <2>1. UNCHANGED <<issued, storageCounter, index, lines, files, torn, recording, up, workerPc, maxIndex>>
        BY <1>2 DEF Activate, Activated, ActivationTimesOut, Deactivate, PostCall, SendLine, RecordInteraction,
                    StopWaited, SendTerminate, StopServer, Quit
    <2>2. Writing' = Writing
        <3>1. CASE RecordInteraction
            <4>1. pending \in Seq(AnyEvent) /\ pending' = Append(pending, events[1]) /\ execPc' = execPc
                BY <1>0, <3>1, InHandIs DEF RecordInteraction, TypeInv, Typed
            <4>2. pending # <<>> => pending'[1] = pending[1]
                BY <4>1
            <4>3. execPc = "writing" => pending # <<>>
                BY <1>0 DEF TypeInv, Typed
            <4> QED
                BY <4>1, <4>2, <4>3 DEF Writing
        <3>2. CASE ~RecordInteraction
            <4>1. UNCHANGED executor
                BY <1>2, <3>2 DEF Activate, Activated, ActivationTimesOut, Deactivate, PostCall, SendLine,
                    StopWaited, SendTerminate, StopServer, Quit
            <4> QED
                BY <4>1 DEF Writing
        <3> QED
            BY <3>1, <3>2
    <2> QED
        BY <1>0, <1>2, <2>1, <2>2, IdsKept DEF IdsInv
<1>3. ASSUME NEW c \in Callers, NEW q \in Instances, PreCall(c, q) \/ AsyncResponse(c, q)
      PROVE  IdsInv'
    <2>1. /\ q = p /\ up /\ p \in toStop
          /\ UNCHANGED <<index, lines, files, torn, recording, up, workerPc, maxIndex, events, executor>>
        BY <1>3 DEF PreCall, AsyncResponse
    <2> DEFINE k(pc) == [pc |-> pc, of |-> p, n |-> calls + 1, id |-> storageCounter + 1]
               k0 == [pc |-> "calling", of |-> p, n |-> 0, id |-> 0]
    <2>2. CASE isActive(p)
        <3>1. PICK pc \in {"calling", "saving"} : generateIndex /\ caller' = [caller EXCEPT ![c] = k(pc)]
            BY <1>3, <2>1, <2>2 DEF PreCall, AsyncResponse
        <3>2. k(pc).n = calls + 1 /\ k(pc).id = storageCounter + 1
            OBVIOUS
        <3> HIDE DEF k
        <3> QED
            BY <1>0, <2>1, <2>2, <3>1, <3>2, GenerateIsNew DEF IdsInv
    <2>3. CASE ~isActive(p)
        <3>1. caller' = [caller EXCEPT ![c] = k0] /\ UNCHANGED <<storageCounter, issued>>
            BY <1>3, <2>1, <2>3 DEF PreCall, AsyncResponse
        <3>2. k0.id = 0 /\ k0.pc = "calling" /\ caller \in [Callers -> AnyCall]
            BY <1>0 DEF TypeInv, Typed
        <3> HIDE DEF k0
        <3>3. \A d \in Callers : caller'[d] = caller[d] \/ (caller'[d].id = 0 /\ caller'[d].pc = "calling")
            BY <3>1, <3>2
        <3>4. ASSUME NEW x \in Play(caller', events', pending') PROVE x \in Play(caller, events, pending)
            BY <2>1, <3>3, PlayIs
        <3>5. InPlay' \subseteq InPlay /\ Numbered' /\ Writing' = Writing
            BY <2>1, <3>3, <3>4 DEF InPlay, IdsInv, Numbered, Writing
        <3> QED
            BY <1>0, <2>1, <3>1, <3>5, IdsKept DEF IdsInv
    <2> QED
        BY <2>2, <2>3
<1>4. CASE Executor \/ StartRecording \/ SetCounter \/ FinalizeRecording \/ WriteIndex \/ WriteIndexThrows
    <2>1. Numbered'
        BY <1>4, PlayShrinks DEF IdsInv, Worker
    <2> QED
        BY <1>0, <1>4, <2>1, ExecutorKeepsIds, StartKeepsIds, FinalizeKeepsIds DEF IdsInv
<1>5. CASE HandleTerminate \/ CleanAndExit \/ Crash
    <2>1. ~up' /\ UNCHANGED <<caller, index, files, torn, issued>>
        BY <1>5 DEF HandleTerminate, CleanAndExit, Crash
    <2> QED
        BY <1>0, <2>1 DEF IdsInv, Numbered, Counter, SameCall, Describes, Described, UniqueProgressiveIds
<1>6. CASE StartProcess
    <2>1. /\ issued' = <<>> /\ recording' = {} /\ workerPc' = "idle" /\ UNCHANGED <<index, files, torn>>
          /\ caller' = [c \in Callers |-> Idle] /\ events' = <<>> /\ pending' = <<>>
        BY <1>6 DEF StartProcess
    <2>2. \A c \in Callers : caller'[c].id = 0 /\ caller'[c].pc = "idle"
        BY <2>1, CallTypes
    <2>3. DOMAIN events' = {} /\ DOMAIN pending' = {} /\ DOMAIN issued' = {}
        BY <2>1
    <2>4. InPlay' = {}
        <3>1. \A x : x \notin Play(caller', events', pending')
            BY <2>2, <2>3, PlayIs
        <3> QED
            BY <3>1 DEF InPlay
    <2> QED
        BY <1>0, <2>1, <2>2, <2>3, <2>4
        DEF IdsInv, Numbered, Counter, SameCall, Describes, Described, UniqueProgressiveIds
<1> QED
    BY <1>0, <1>1, <1>2, <1>3, <1>4, <1>5, <1>6, PlayShrinks DEF Next, Worker, Quitting, IdsInv

LEMMA InitIds ==
    ASSUME Init
    PROVE  IdsInv
<1>1. PICK old \in SUBSET Instances :
          /\ index = [p \in Instances |-> IF p \in old THEN {Line(0, 1, TRUE)} ELSE {}]
          /\ files = [p \in Instances |-> IF p \in old THEN [id \in {1} |-> 0] ELSE << >>]
    BY DEF Init
<1>2. /\ issued = <<>> /\ recording = {} /\ workerPc = "idle"
      /\ caller = [c \in Callers |-> Idle] /\ events = <<>> /\ pending = <<>>
    BY DEF Init
<1>3. \A c \in Callers : caller[c].id = 0 /\ caller[c].pc = "idle"
    BY <1>2, CallTypes
<1>4. DOMAIN events = {} /\ DOMAIN pending = {} /\ DOMAIN issued = {}
    BY <1>2
<1>5. InPlay = {}
    <2>1. \A x : x \notin Play(caller, events, pending)
        BY <1>3, <1>4, PlayIs
    <2> QED
        BY <2>1 DEF InPlay
<1>6. \A p \in Instances : Described(p, index[p], files[p], torn)
    BY <1>1 DEF Described, Line
<1> QED
    BY <1>2, <1>3, <1>4, <1>5, <1>6, InitTyped
    DEF IdsInv, Numbered, Counter, SameCall, Describes, UniqueProgressiveIds

(***************************************************************************)
(* A protocol recorded by itself, unless recording is turned on hastily:   *)
(* each line of the index file describes what its item file holds, also    *)
(* after crashes, waits that were too short and exits by the console, but  *)
(* for a line that was written to the index before its file, and until     *)
(* that is written.                                                        *)
(***************************************************************************)
THEOREM IndexCorrect ==
    ASSUME ~Hasty, NEW p, Instances = {p}
    PROVE  Spec => []IndexDescribesFiles
<1>1. Init => IdsInv
    BY InitIds
<1>2. IdsInv /\ [Next]_vars => IdsInv'
    BY IdsStep
<1>3. IdsInv => IndexDescribesFiles
    BY DEF IdsInv, Describes, Described, IndexDescribesFiles
<1> QED
    BY <1>1, <1>2, <1>3, PTL DEF Spec

-----------------------------------------------------------------------------
(* The queue once an event was handled.                                    *)
LEMMA Shifted ==
    ASSUME NEW s \in Seq(AnyEvent), s # <<>>, NEW t, t = Tail(s)
    PROVE  /\ 1 \in DOMAIN s /\ Head(s) = s[1]
           /\ \A i \in DOMAIN t : i \in Nat /\ i >= 1 /\ i + 1 \in DOMAIN s /\ t[i] = s[i + 1]
           /\ \A i \in DOMAIN s : /\ i \in Nat /\ i >= 1
                                  /\ i = 1 \/ \E h \in DOMAIN t : i = h + 1 /\ t[h] = s[i]
<1>1. /\ Len(s) \in Nat /\ Len(s) >= 1 /\ DOMAIN s = 1..Len(s) /\ Head(s) = s[1]
    OBVIOUS
<1>2. /\ t \in Seq(AnyEvent) /\ Len(t) = Len(s) - 1
      /\ \A i \in 1..(Len(s) - 1) : t[i] = s[i + 1]
    BY HeadTailProperties
<1>3. DOMAIN t = 1..(Len(s) - 1)
    BY <1>1, <1>2
<1>4. ASSUME NEW i \in DOMAIN s, i # 1 PROVE \E h \in DOMAIN t : i = h + 1 /\ t[h] = s[i]
    <2>1. i - 1 \in DOMAIN t /\ i = (i - 1) + 1
        BY <1>1, <1>3, <1>4
    <2>2. t[i - 1] = s[i]
        BY <1>2, <1>3, <2>1
    <2> QED
        BY <2>1, <2>2
<1> QED
    BY <1>1, <1>2, <1>3, <1>4

(* A line under way stays so while events are sent ...                     *)
LEMMA UnderwaySent ==
    ASSUME TypeInv, NEW e \in AnyEvent, events' = Append(events, e), pending' = pending,
           NEW p, NEW l, Underway(p, l)
    PROVE  Underway(p, l)'
<1>1. events \in Seq(AnyEvent)
    BY DEF TypeInv, Typed
<1>2. \A i \in DOMAIN events : i \in Nat /\ i <= Len(events) /\ i \in DOMAIN events' /\ events'[i] = events[i]
    BY <1>1, Appended
<1>3. DOMAIN events = 1..Len(events) /\ Len(events) \in Nat
    BY <1>1
<1>4. CASE \E i \in DOMAIN pending : pending[i].of = p /\ pending[i].line = l
    BY <1>4 DEF Underway
<1>5. ASSUME NEW i \in DOMAIN events, Sent(i, "WriteItem", p), events[i].line = l,
             \A j \in 1..(i - 1) : ~Sent(j, "FinalizeWrite", p)
      PROVE  Underway(p, l)'
    <2>1. i \in DOMAIN events' /\ Sent(i, "WriteItem", p)' /\ events'[i].line = l
        BY <1>2, <1>5 DEF Sent
    <2>2. ASSUME NEW j \in 1..(i - 1) PROVE ~Sent(j, "FinalizeWrite", p)'
        <3>1. j \in DOMAIN events
            BY <1>2, <1>3
        <3> QED
            BY <1>2, <1>5, <3>1 DEF Sent
    <2> QED
        BY <2>1, <2>2 DEF Underway
<1> QED
    BY <1>4, <1>5 DEF Underway

(* ... and handled.                                                        *)
LEMMA UnderwayHandled ==
    ASSUME TypeInv, events # <<>>, events' = Tail(events), NEW p, NEW l, Underway(p, l),
           pending' = Append(pending, events[1]) \/ (pending' = pending /\ ~Sent(1, "WriteItem", p))
    PROVE  Underway(p, l)'
<1>1. events \in Seq(AnyEvent) /\ pending \in Seq(AnyEvent)
    BY DEF TypeInv, Typed
<1>2. /\ 1 \in DOMAIN events
      /\ \A i \in DOMAIN events' : i \in Nat /\ i >= 1 /\ i + 1 \in DOMAIN events /\ events'[i] = events[i + 1]
      /\ \A i \in DOMAIN events : /\ i \in Nat /\ i >= 1
                                  /\ i = 1 \/ \E h \in DOMAIN events' : i = h + 1 /\ events'[h] = events[i]
    BY <1>1, Shifted
<1>3. DOMAIN events = 1..Len(events) /\ Len(events) \in Nat /\ events[1] \in AnyEvent
    BY <1>1, <1>2
<1>4. /\ \A i \in DOMAIN pending : i \in DOMAIN pending' /\ pending'[i] = pending[i]
      /\ Sent(1, "WriteItem", p) => \E i \in DOMAIN pending' : pending'[i] = events[1]
    <2>1. CASE pending' = Append(pending, events[1])
        BY <1>1, <1>3, <2>1, Appended
    <2>2. CASE pending' = pending /\ ~Sent(1, "WriteItem", p)
        BY <2>2
    <2> QED
        BY <2>1, <2>2
<1>5. CASE \E i \in DOMAIN pending : pending[i].of = p /\ pending[i].line = l
    BY <1>4, <1>5 DEF Underway
<1>6. ASSUME NEW i \in DOMAIN events, Sent(i, "WriteItem", p), events[i].line = l,
             \A j \in 1..(i - 1) : ~Sent(j, "FinalizeWrite", p)
      PROVE  Underway(p, l)'
    <2>1. CASE i = 1
        BY <1>4, <1>6, <2>1 DEF Underway, Sent
    <2>2. CASE i # 1
        <3>1. PICK h \in DOMAIN events' : events'[h] = events[i] /\ h \in Nat /\ i = h + 1
            BY <1>2, <2>2
        <3>2. Sent(h, "WriteItem", p)' /\ events'[h].line = l
            BY <1>6, <3>1 DEF Sent
        <3>3. ASSUME NEW j \in 1..(h - 1) PROVE ~Sent(j, "FinalizeWrite", p)'
            <4>1. j + 1 \in 1..(i - 1) /\ j + 1 \in DOMAIN events /\ j + 1 # 1
                BY <1>2, <1>3, <3>1
            <4>2. PICK g \in DOMAIN events' : j + 1 = g + 1 /\ events'[g] = events[j + 1]
                BY <1>2, <4>1
            <4>3. g = j
                BY <1>2, <4>2
            <4> QED
                BY <1>6, <4>1, <4>2, <4>3 DEF Sent
        <3> QED
            BY <3>1, <3>2, <3>3 DEF Underway
    <2> QED
        BY <2>1, <2>2
<1> QED
    BY <1>5, <1>6 DEF Underway

(* What an end of the recordings to come needs is kept while calls are     *)
(* made and lines are sent and written ...                                 *)
LEMMA EndsWhileCalled ==
    ASSUME TypeInv, Ends, NEW e \in AnyEvent, e.type = "WriteItem",
           events' = Append(events, e) \/ events' = events,
           UNCHANGED <<recording, toStop, quitBy, quitPc>>,
           \A p \in Instances : /\ active[p] => active'[p]
                                /\ adminPc[p] = "waiting" => adminPc'[p] = "waiting" \/ (active'[p] /\ p \in toStop)
    PROVE  Ends'
<1>1. events \in Seq(AnyEvent)
    BY DEF TypeInv, Typed
<1>2. /\ \A i \in DOMAIN events : i \in DOMAIN events' /\ events'[i] = events[i]
      /\ \A i \in DOMAIN events' : (i \in DOMAIN events /\ events'[i] = events[i]) \/ events'[i] = e
    BY <1>1, Appended
<1>3. \A p \in Instances : EndComes(p)' <=> EndComes(p)
    BY <1>2 DEF EndComes, Sent
<1>4. \A p \in Instances : (\E i \in DOMAIN events' : Sent(i, "StartWrite", p)') => \E i \in DOMAIN events : Sent(i, "StartWrite", p)
    BY <1>2 DEF Sent
<1>5. ASSUME NEW i \in DOMAIN events', events'[i].type = "Terminate"
      PROVE  /\ toStop = {} /\ quitBy # "none" /\ quitPc = "none"
             /\ \A j \in DOMAIN events' : events'[j].type = "FinalizeWrite" => j < i
    BY <1>2, <1>5 DEF Ends
<1> QED
    BY <1>3, <1>4, <1>5 DEF Ends

(* ... and while the worker handles events.                                *)
LEMMA EndsWhileHandled ==
    ASSUME TypeInv, Ends, NEW type, InHand(type), events' = Tail(events),
           UNCHANGED <<active, adminPc, toStop, quitBy, quitPc>>,
           \A p \in Instances : p \in recording' => p \in recording \/ Sent(1, "StartWrite", p),
           \A p \in Instances : Sent(1, "FinalizeWrite", p) => p \notin recording'
    PROVE  Ends'
<1>1. events \in Seq(AnyEvent) /\ events # <<>>
    BY DEF TypeInv, Typed, InHand
<1>2. /\ 1 \in DOMAIN events
      /\ \A i \in DOMAIN events' : i \in Nat /\ i >= 1 /\ i + 1 \in DOMAIN events /\ events'[i] = events[i + 1]
      /\ \A i \in DOMAIN events : /\ i \in Nat /\ i >= 1
                                  /\ i = 1 \/ \E h \in DOMAIN events' : i = h + 1 /\ events'[h] = events[i]
    BY <1>1, Shifted
<1>3. \A p \in Instances : /\ EndComes(p)' => EndComes(p)
                           /\ EndComes(p) /\ ~Sent(1, "FinalizeWrite", p) => EndComes(p)'
    <2> TAKE p \in Instances
    <2>1. EndComes(p)' => EndComes(p)
        BY <1>2 DEF EndComes, Sent
    <2>2. ASSUME NEW i \in DOMAIN events, Sent(i, "FinalizeWrite", p), i # 1
          PROVE  EndComes(p)'
        <3>1. PICK h \in DOMAIN events' : events'[h] = events[i]
            BY <1>2, <2>2
        <3> QED
            BY <2>2, <3>1 DEF EndComes, Sent
    <2> QED
        BY <2>1, <2>2 DEF EndComes
<1>4. \A i \in DOMAIN events' : events'[i].type = "StartWrite" => events'[i].of # events[1].of
    BY HandledInOrder
<1>5. ASSUME NEW p \in Instances, p \in recording' \/ \E i \in DOMAIN events' : Sent(i, "StartWrite", p)'
      PROVE  (active[p] /\ p \in toStop) \/ adminPc[p] = "waiting" \/ EndComes(p)'
    <2>1. ~Sent(1, "FinalizeWrite", p)
        BY <1>4, <1>5 DEF Sent
    <2>2. p \in recording \/ \E i \in DOMAIN events : Sent(i, "StartWrite", p)
        BY <1>2, <1>5 DEF Sent
    <2> QED
        BY <1>3, <2>1, <2>2 DEF Ends
<1>6. ASSUME NEW i \in DOMAIN events', events'[i].type = "Terminate"
      PROVE  /\ toStop = {} /\ quitBy # "none" /\ quitPc = "none"
             /\ \A j \in DOMAIN events' : events'[j].type = "FinalizeWrite" => j < i
    <2>1. /\ i + 1 \in DOMAIN events /\ events[i + 1].type = "Terminate"
          /\ \A j \in DOMAIN events' : j + 1 \in DOMAIN events /\ events'[j] = events[j + 1] /\ j \in Nat
          /\ i \in Nat
        BY <1>2, <1>6
    <2>2. /\ toStop = {} /\ quitBy # "none" /\ quitPc = "none"
          /\ \A j \in DOMAIN events' : events[j + 1].type = "FinalizeWrite" => j + 1 < i + 1
        BY <2>1 DEF Ends
    <2> QED
        BY <2>1, <2>2
<1>7. quitPc = "stopping" => \A p \in Instances : EndComes(p)' => p \in toStop
    BY <1>3 DEF Ends
<1> QED
    BY <1>5, <1>6, <1>7 DEF Ends

-----------------------------------------------------------------------------
(* A recording is as it was after a step that leaves its lines under way.  *)
LEMMA KeptSame ==
    ASSUME NEW p, Kept(p),
           UNCHANGED <<up, recording, workerPc, lines, somethingWritten, index, files, inTime>>,
           up /\ workerPc = "finalizing" => events'[1].of = events[1].of,
           \A l : Underway(p, l) => Underway(p, l)'
    PROVE  Kept(p)'
<1>1. up => (Finalizing(p)' <=> Finalizing(p))
    BY DEF Finalizing
<1> QED
    BY <1>1 DEF Kept

LEMMA KeptWhileSent ==
    ASSUME TypeInv, Complete, NEW e \in AnyEvent, events' = Append(events, e) \/ events' = events,
           UNCHANGED <<up, recording, workerPc, lines, somethingWritten, index, files, inTime, pending>>
    PROVE  \A p \in Instances : Kept(p)'
<1> TAKE p \in Instances
<1>1. \A l : Underway(p, l) => Underway(p, l)'
    <2> SUFFICES ASSUME NEW l, Underway(p, l) PROVE Underway(p, l)'
        OBVIOUS
    <2>1. CASE events' = Append(events, e)
        BY <2>1, UnderwaySent
    <2>2. CASE events' = events
        BY <2>2 DEF Underway, Sent
    <2> QED
        BY <2>1, <2>2
<1>2. events # <<>> => events'[1] = events[1]
    <2>1. events \in Seq(AnyEvent)
        BY DEF TypeInv, Typed
    <2> QED
        BY <2>1
<1>3. up /\ workerPc = "finalizing" => events'[1].of = events[1].of
    BY <1>2 DEF TypeInv, Repos
<1> QED
    BY <1>1, <1>3, KeptSame DEF Complete

(* Recording is switched on or off: its end is in sight.                   *)
LEMMA SwitchComplete ==
    ASSUME TypeInv, Complete, NEW p \in Instances, Activate(p) \/ Deactivate(p)
    PROVE  Complete'
<1> USE DEF disk, repos, plugins, worker, executor, quitter, bounds
<1>1. /\ UNCHANGED <<up, recording, workerPc, lines, somethingWritten, index, files, inTime, pending, quitter>>
      /\ up /\ quitBy = "none"
    BY DEF Activate, Deactivate
<1>2. PICK e \in AnyEvent : /\ events' = Append(events, e) /\ e.of = p
                            /\ \/ e.type = "StartWrite" /\ Activate(p)
                               \/ e.type = "FinalizeWrite" /\ Deactivate(p)
    BY EventTypes DEF Activate, Deactivate
<1>3. Ends'
    <2>1. events \in Seq(AnyEvent)
        BY DEF TypeInv, Typed
    <2>2. /\ \A i \in DOMAIN events : i \in DOMAIN events' /\ events'[i] = events[i]
          /\ \A i \in DOMAIN events' : (i \in DOMAIN events /\ events'[i] = events[i]) \/ events'[i] = e
          /\ Len(events) + 1 \in DOMAIN events' /\ events'[Len(events) + 1] = e
        <3>1. events' = Append(events, e)
            BY <1>2
        <3> QED
            BY <2>1, <3>1, Appended
    <2>3. quitPc = "none"
        BY <1>1 DEF TypeInv, Switching
    <2>4. \A i \in DOMAIN events' : events'[i].type # "Terminate"
        BY <1>1, <1>2, <2>2 DEF Complete, Ends
    <2>5. \A q \in Instances : q # p =>
              /\ active'[q] = active[q] /\ adminPc'[q] = adminPc[q]
              /\ EndComes(q) => EndComes(q)'
              /\ \A i \in DOMAIN events' : Sent(i, "StartWrite", q)' => i \in DOMAIN events /\ Sent(i, "StartWrite", q)
        <3>1. \A q \in Instances : q # p => active'[q] = active[q] /\ adminPc'[q] = adminPc[q]
            BY <1>2 DEF Activate, Deactivate, TypeInv, Typed
        <3>2. \A q \in Instances : q # p =>
                  /\ EndComes(q) => EndComes(q)'
                  /\ \A i \in DOMAIN events' : Sent(i, "StartWrite", q)' => i \in DOMAIN events /\ Sent(i, "StartWrite", q)
            BY <1>2, <2>2 DEF EndComes, Sent
        <3> QED
            BY <3>1, <3>2
    <2>6. adminPc'[p] = "waiting" \/ EndComes(p)'
        <3>1. CASE Activate(p)
            BY <3>1 DEF Activate, TypeInv, Typed
        <3>2. CASE e.type = "FinalizeWrite"
            BY <1>2, <2>2, <3>2 DEF EndComes, Sent
        <3> QED
            BY <1>2, <3>1, <3>2
    <2>7. ASSUME NEW q \in Instances, q \in recording \/ \E i \in DOMAIN events' : Sent(i, "StartWrite", q)'
          PROVE  (active'[q] /\ q \in toStop) \/ adminPc'[q] = "waiting" \/ EndComes(q)'
        <3>1. CASE q = p
            BY <2>6, <3>1
        <3>2. CASE q # p
            BY <1>1, <2>5, <2>7, <3>2 DEF Complete, Ends
        <3> QED
            BY <3>1, <3>2
    <2> QED
        BY <1>1, <2>3, <2>4, <2>7 DEF Ends
<1>4. \A q \in Instances : Kept(q)'
    BY <1>1, <1>2, KeptWhileSent
<1> QED
    BY <1>3, <1>4 DEF Complete

(* The plugin is active, a call is made or answered.                       *)
LEMMA CallComplete ==
    ASSUME TypeInv, Complete,
           \/ \E p \in Instances : Activated(p)
           \/ \E c \in Callers : PostCall(c)
           \/ \E c \in Callers, p \in Instances : PreCall(c, p) \/ AsyncResponse(c, p)
           \/ UNCHANGED vars
    PROVE  Complete'
<1> USE DEF disk, repos, plugins, worker, executor, quitter, bounds
<1>1. /\ UNCHANGED <<up, recording, workerPc, lines, somethingWritten, index, files, inTime, pending, quitter, events>>
    BY DEF Activated, PostCall, PreCall, AsyncResponse, vars
<1>2. \A q \in Instances : /\ active[q] => active'[q]
                           /\ adminPc[q] = "waiting" => adminPc'[q] = "waiting" \/ (active'[q] /\ q \in toStop)
    <2>1. ASSUME NEW p \in Instances, Activated(p)
          PROVE  \A q \in Instances : /\ active[q] => active'[q]
                                      /\ adminPc[q] = "waiting" => adminPc'[q] = "waiting" \/ (active'[q] /\ q \in toStop)
        <3>1. p \in toStop
            BY <2>1 DEF Activated, TypeInv, Switching
        <3>2. active' = [active EXCEPT ![p] = TRUE] /\ adminPc' = [adminPc EXCEPT ![p] = "idle"]
            BY <2>1 DEF Activated
        <3>3. active \in [Instances -> BOOLEAN] /\ adminPc \in [Instances -> {"idle", "waiting"}]
            BY DEF TypeInv, Typed
        <3>4. \A q \in Instances : active[q] => active'[q]
            BY <3>2, <3>3, Zenon
        <3> QED
            BY <3>1, <3>2, <3>3, <3>4
    <2>2. CASE \/ \E c \in Callers : PostCall(c)
               \/ \E c \in Callers, p \in Instances : PreCall(c, p) \/ AsyncResponse(c, p)
               \/ UNCHANGED vars
        BY <2>2 DEF PostCall, PreCall, AsyncResponse, vars
    <2> QED
        BY <2>1, <2>2
<1>3. Terminate \in AnyEvent
    BY EventTypes
<1>4. up => Ends'
    BY <1>1, <1>2 DEF Complete, Ends, EndComes, Sent
<1>5. \A q \in Instances : Kept(q)'
    BY <1>1, <1>3, KeptWhileSent
<1> QED
    BY <1>1, <1>4, <1>5 DEF Complete

(* A line that is sent in time is under way: its recording runs, and its   *)
(* end was not sent.                                                       *)
LEMMA SendLineComplete ==
    ASSUME TypeInv, Complete, NEW c \in Callers, SendLine(c)
    PROVE  Complete'
<1> USE DEF disk, repos, plugins, worker, executor, quitter, bounds
<1>1. PICK p \in Instances : p = caller[c].of /\ up
    BY DEF SendLine, TypeInv, Owned
<1>2. PICK line \in {Line(caller[c].n, caller[c].id, stored) : stored \in BOOLEAN} :
          /\ events' = Append(events, Event("WriteItem", p, line))
          /\ inTime' = IF isActive(p) /\ p \in toStop /\ quitBy # "console"
                       THEN [inTime EXCEPT ![p] = @ \cup {line}] ELSE inTime
    BY <1>1 DEF SendLine
<1>3. PICK e \in AnyEvent : e = Event("WriteItem", p, line) /\ e.type = "WriteItem" /\ e.of = p /\ e.line = line
    <2>1. caller[c].n \in Nat /\ caller[c].id \in Nat
        BY DEF TypeInv, Typed, AnyCall
    <2>2. line \in AnyLine
        BY <1>2, <2>1, EventTypes
    <2> QED
        BY <1>1, <2>2, EventTypes
<1>4. /\ events' = Append(events, e)
      /\ inTime' = inTime \/ (active[p] /\ p \in toStop /\ inTime' = [inTime EXCEPT ![p] = inTime[p] \cup {line}])
    BY <1>2, <1>3 DEF isActive
<1>5. UNCHANGED <<up, recording, workerPc, lines, somethingWritten, index, files, pending, quitter, plugins>>
    BY DEF SendLine
<1>6. Ends'
    BY <1>1, <1>3, <1>4, <1>5, EndsWhileCalled DEF Complete
<1>7. /\ \A q \in Instances : q # p => inTime'[q] = inTime[q]
      /\ \/ inTime'[p] = inTime[p]
         \/ active[p] /\ p \in toStop /\ inTime'[p] = inTime[p] \cup {line}
    <2>1. inTime \in [Instances -> SUBSET AnyLine]
        BY DEF TypeInv, Typed
    <2> QED
        BY <1>1, <1>4, <2>1
<1>8. \A q, l : Underway(q, l) => Underway(q, l)'
    BY <1>3, <1>4, <1>5, UnderwaySent
<1>9. up /\ workerPc = "finalizing" => events'[1] = events[1] /\ 1 \in DOMAIN events /\ events[1].of \notin recording
    <2>1. events \in Seq(AnyEvent)
        BY DEF TypeInv, Typed
    <2>2. events # <<>> => events'[1] = events[1] /\ 1 \in DOMAIN events
        BY <1>4, <2>1
    <2> QED
        BY <2>2 DEF TypeInv, Repos
<1>10. \A q \in Instances : Finalizing(q)' <=> Finalizing(q)
    BY <1>1, <1>5, <1>9 DEF Finalizing
<1>11. CASE active[p] /\ p \in toStop /\ inTime'[p] = inTime[p] \cup {line}
    <2>1. p \in recording /\ ~Finalizing(p)
        BY <1>1, <1>9, <1>11 DEF TypeInv, Repos, Finalizing
    <2>2. Underway(p, line)'
        <3>1. events \in Seq(AnyEvent)
            BY DEF TypeInv, Typed
        <3>2. PICK n \in DOMAIN events' :
              /\ n = Len(events) + 1 /\ events'[n] = e /\ Len(events) \in Nat
              /\ \A j \in DOMAIN events : events'[j] = events[j]
              /\ DOMAIN events = 1..Len(events)
            BY <1>3, <1>4, <3>1, Appended
        <3>3. \A j \in DOMAIN events : ~Sent(j, "FinalizeWrite", p)
            BY <1>1, <1>11 DEF TypeInv, Queue
        <3>4. \A j \in 1..(n - 1) : ~Sent(j, "FinalizeWrite", p)'
            BY <3>2, <3>3 DEF Sent
        <3>5. Sent(n, "WriteItem", p)' /\ events'[n].line = line
            BY <1>3, <3>2 DEF Sent
        <3> QED
            BY <3>2, <3>4, <3>5 DEF Underway
    <2>3. Kept(p)'
        BY <1>1, <1>5, <1>8, <1>10, <1>11, <2>1, <2>2 DEF Complete, Kept
    <2>4. \A q \in Instances : q # p => Kept(q)'
        BY <1>1, <1>5, <1>7, <1>8, <1>10 DEF Complete, Kept
    <2> QED
        BY <1>5, <1>6, <2>3, <2>4 DEF Complete
<1>12. CASE inTime'[p] = inTime[p]
    <2>1. \A q \in Instances : inTime'[q] = inTime[q]
        BY <1>7, <1>12
    <2>2. \A q \in Instances : Kept(q)'
        BY <1>1, <1>5, <1>8, <1>10, <2>1 DEF Complete, Kept
    <2> QED
        BY <1>6, <2>2 DEF Complete
<1> QED
    BY <1>7, <1>11, <1>12

(* A recording starts with what the index file lists.                      *)
LEMMA StartComplete ==
    ASSUME TypeInv, Complete, StartRecording \/ SetCounter
    PROVE  Complete'
<1> USE DEF disk, repos, plugins, worker, executor, quitter, bounds
<1>1. InHand("StartWrite") /\ up /\ Ends
    BY DEF StartRecording, SetCounter, InHand, Complete
<1>2. PICK p \in Instances : /\ p = events[1].of /\ p = Head(events).of /\ events # <<>>
                             /\ events[1].type = "StartWrite"
    BY <1>1, InHandIs
<1>3. UNCHANGED <<up, index, files, inTime, pending, quitter, plugins>>
    BY DEF StartRecording, SetCounter
<1>4. workerPc # "finalizing" /\ workerPc' # "finalizing"
    BY DEF StartRecording, SetCounter
<1>5. CASE UNCHANGED <<repos, events>>
    <2>1. Ends'
        BY <1>1, <1>3, <1>5 DEF Ends, EndComes, Sent
    <2>2. \A q, l : Underway(q, l) => Underway(q, l)'
        BY <1>3, <1>5 DEF Underway, Sent
    <2>3. \A q \in Instances : Kept(q)'
        BY <1>1, <1>3, <1>4, <1>5, <2>2 DEF Complete, Kept, Finalizing
    <2> QED
        BY <2>1, <2>3 DEF Complete
<1>6. CASE /\ events' = Tail(events) /\ recording' = recording \cup {p}
           /\ \/ /\ p \in recording
                 /\ UNCHANGED <<lines, somethingWritten>>
              \/ /\ p \notin recording
                 /\ lines' = [lines EXCEPT ![p] = index[p]]
                 /\ somethingWritten' = somethingWritten \ {p}
    <2>1. Ends'
        BY <1>1, <1>2, <1>3, <1>6, EndsWhileHandled DEF Sent
    <2>2. \A q, l : Underway(q, l) => Underway(q, l)'
        <3> SUFFICES ASSUME NEW q, NEW l, Underway(q, l) PROVE Underway(q, l)'
            OBVIOUS
        <3>1. ~Sent(1, "WriteItem", q)
            BY <1>2 DEF Sent
        <3> QED
            BY <1>2, <1>3, <1>6, <3>1, UnderwayHandled
    <2>3. \A q \in Instances : q # p =>
              /\ lines'[q] = lines[q]
              /\ q \in recording' <=> q \in recording
              /\ q \in somethingWritten' <=> q \in somethingWritten
        <3>1. lines \in [Instances -> SUBSET AnyLine]
            BY DEF TypeInv, Typed
        <3> QED
            BY <1>6, <3>1
    <2>4. \A q \in Instances : q # p => Kept(q)'
        BY <1>1, <1>3, <1>4, <2>2, <2>3 DEF Complete, Kept, Finalizing
    <2>5. Kept(p)'
        <3>1. CASE p \in recording
            BY <1>1, <1>3, <1>4, <1>6, <2>2, <3>1 DEF Complete, Kept, Finalizing
        <3>2. CASE p \notin recording
            <4>1. inTime[p] \subseteq index[p] /\ DOMAIN files[p] \subseteq ItemIds(index[p])
                BY <1>4, <3>2 DEF Complete, Kept, Finalizing
            <4>2. lines'[p] = index[p]
                <5>1. lines \in [Instances -> SUBSET AnyLine]
                    BY DEF TypeInv, Typed
                <5> QED
                    BY <1>6, <3>2, <5>1
            <4> QED
                BY <1>1, <1>3, <1>4, <1>6, <4>1, <4>2 DEF Kept, Finalizing
        <3> QED
            BY <3>1, <3>2
    <2> QED
        BY <2>1, <2>4, <2>5 DEF Complete
<1>7. CASE StartRecording
    <2>1. CASE p \in recording
        <3>1. /\ events' = Tail(events) /\ recording' = recording \cup {p}
              /\ somethingWritten' = somethingWritten /\ lines' = [lines EXCEPT ![p] = lines[p]]
            BY <1>2, <1>7, <2>1 DEF StartRecording
        <3>2. lines' = lines
            BY <3>1 DEF TypeInv, Typed
        <3> QED
            BY <1>6, <2>1, <3>1, <3>2
    <2>2. CASE p \notin recording /\ index[p] = {}
        BY <1>2, <1>6, <1>7, <2>2 DEF StartRecording
    <2>3. CASE p \notin recording /\ index[p] # {}
        BY <1>2, <1>5, <1>7, <2>3 DEF StartRecording
    <2> QED
        BY <2>1, <2>2, <2>3
<1>8. CASE SetCounter
    <2>1. p \notin recording
        BY <1>1, <1>2, <1>8 DEF SetCounter, TypeInv, Repos
    <2> QED
        BY <1>2, <1>6, <1>8, <2>1 DEF SetCounter
<1> QED
    BY <1>7, <1>8

(* A line goes from the queue to the executor.                             *)
LEMMA RecordInteractionComplete ==
    ASSUME TypeInv, Complete, RecordInteraction
    PROVE  Complete'
<1> USE DEF disk, repos, plugins, worker, executor, quitter, bounds
<1>1. InHand("WriteItem") /\ up /\ Ends
    BY DEF RecordInteraction, InHand, Complete
<1>2. events # <<>> /\ Head(events) = events[1] /\ events[1].type = "WriteItem"
    BY <1>1, InHandIs
<1>3. /\ UNCHANGED <<up, recording, workerPc, lines, somethingWritten, index, files, inTime, quitter, plugins>>
      /\ events' = Tail(events) /\ pending' = Append(pending, events[1])
    BY <1>2 DEF RecordInteraction
<1>4. Ends'
    BY <1>1, <1>2, <1>3, EndsWhileHandled DEF Sent
<1>5. \A q, l : Underway(q, l) => Underway(q, l)'
    BY <1>2, <1>3, UnderwayHandled
<1>6. workerPc # "finalizing"
    BY <1>1, <1>2 DEF TypeInv, Repos
<1>7. \A q \in Instances : Kept(q)'
    BY <1>3, <1>5, <1>6, KeptSame DEF Complete
<1> QED
    BY <1>4, <1>7 DEF Complete

(* The executor adds a line and writes its file: it is no more under way.  *)
LEMMA ExecutorComplete ==
    ASSUME TypeInv, Complete, Busy, Executor
    PROVE  Complete'
<1> USE DEF disk, repos, plugins, worker, executor, quitter, bounds
<1>1. PICK p \in Instances, line \in AnyLine :
          /\ p = pending[1].of /\ line = pending[1].line /\ Head(pending) = pending[1]
          /\ pending # <<>> /\ up /\ pending' \in {pending, Tail(pending)}
          /\ UNCHANGED <<up, recording, workerPc, events, index, inTime, quitter, plugins>>
    BY ExecutorIs
<1>2. UNCHANGED <<up, recording, workerPc, events, index, inTime, quitter, plugins>> /\ up
    BY <1>1
<1>3. Ends'
    BY <1>2 DEF Complete, Ends, EndComes, Sent
<1>4. ASSUME NEW q, NEW l, Underway(q, l)
      PROVE  Underway(q, l)' \/ (q = p /\ l = line /\ pending' = Tail(pending))
    <2>1. pending \in Seq(AnyEvent)
        BY DEF TypeInv, Typed
    <2>2. CASE pending' = Tail(pending)
        <3>1. \A i \in DOMAIN pending : i = 1 \/ \E h \in DOMAIN pending' : pending'[h] = pending[i]
            BY <1>1, <2>1, <2>2, Shifted
        <3> QED
            BY <1>1, <1>4, <2>2, <3>1 DEF Underway, Sent
    <2>3. CASE pending' = pending
        BY <1>2, <1>4, <2>3 DEF Underway, Sent
    <2> QED
        BY <1>1, <2>2, <2>3
<1>5. ASSUME p \in recording, line \in lines'[p], lines[p] \subseteq lines'[p],
             p \in somethingWritten' \/ (lines' = lines /\ p \notin somethingWritten),
             \A q \in Instances : q # p => /\ lines'[q] = lines[q] /\ files'[q] = files[q]
                                           /\ q \in somethingWritten' <=> q \in somethingWritten,
             DOMAIN files'[p] \subseteq DOMAIN files[p] \cup {line.id}
      PROVE  Complete'
    <2>1. \A q \in Instances : q # p => Kept(q)'
        <3> SUFFICES ASSUME NEW q \in Instances, q # p PROVE Kept(q)'
            OBVIOUS
        <3>1. \A l : Underway(q, l) => Underway(q, l)'
            BY <1>4
        <3> QED
            BY <1>2, <1>5, <3>1 DEF Complete, Kept, Finalizing
    <2>2. Kept(p)'
        <3>1. /\ \A l \in inTime[p] : l \in lines[p] \/ Underway(p, l)
              /\ DOMAIN files[p] \subseteq ItemIds(lines[p])
              /\ p \notin somethingWritten => lines[p] = index[p]
            BY <1>2, <1>5 DEF Complete, Kept
        <3>2. ~Finalizing(p)'
            BY <1>2, <1>5 DEF Finalizing, TypeInv, Repos
        <3>3. DOMAIN files'[p] \subseteq ItemIds(lines'[p])
            BY <1>5, <3>1 DEF ItemIds
        <3>4. \A l \in inTime[p] : l \in lines'[p] \/ Underway(p, l)'
            BY <1>4, <1>5, <3>1
        <3>5. p \notin somethingWritten' => lines'[p] = index[p]
            BY <1>5, <3>1
        <3> QED
            BY <1>2, <1>5, <3>2, <3>3, <3>4, <3>5 DEF Kept
    <2> QED
        BY <1>3, <2>1, <2>2 DEF Complete
<1>6. CASE ExecutorTakes
    <2>1. /\ UNCHANGED <<lines, somethingWritten, files>>
          /\ p \in recording => pending' = pending
        BY <1>1, <1>6 DEF ExecutorTakes
    <2>2. \A q \in recording : \A l : Underway(q, l) => Underway(q, l)'
        BY <1>2, <1>4, <2>1 DEF Underway, Sent
    <2>3. \A q \in Instances : Kept(q)'
        BY <1>2, <2>1, <2>2 DEF Complete, Kept, Finalizing
    <2> QED
        BY <1>3, <2>3 DEF Complete
<1>7. CASE ExecutorAdds
    <2>1. /\ p \in recording /\ files' = files
          /\ lines' = [lines EXCEPT ![p] = lines[p] \cup {line}]
          /\ somethingWritten' = somethingWritten \cup {p}
        BY <1>1, <1>7 DEF ExecutorAdds, InHandOfExecutor, Busy
    <2>2. lines'[p] = lines[p] \cup {line} /\ \A q \in Instances : q # p => lines'[q] = lines[q]
        BY <2>1 DEF TypeInv, Typed
    <2> QED
        BY <1>5, <2>1, <2>2
<1>8. CASE ExecutorWrites
    <2>1. /\ p \in recording /\ line \in lines[p] /\ UNCHANGED <<lines, somethingWritten>>
          /\ files' = [files EXCEPT ![p] = WithItem(files[p], line)]
        BY <1>1, <1>8 DEF ExecutorWrites, InHandOfExecutor, Busy
    <2>2. /\ DOMAIN files'[p] \subseteq DOMAIN files[p] \cup {line.id}
          /\ \A q \in Instances : q # p => files'[q] = files[q]
        <3>1. DOMAIN WithItem(files[p], line) = DOMAIN files[p] \cup {line.id} /\ DOMAIN files = Instances
            BY DEF WithItem, TypeInv, Typed
        <3> QED
            BY <2>1, <3>1
    <2> QED
        BY <1>5, <2>1, <2>2
<1> QED
    BY <1>6, <1>7, <1>8 DEF Executor

(* The end of a recording: nothing of it is under way when the executor    *)
(* has nothing left to write.                                              *)
LEMMA FinalizeComplete ==
    ASSUME TypeInv, Complete, FinalizeRecording, ~timedOut'
    PROVE  Complete'
<1> USE DEF disk, repos, plugins, worker, executor, quitter, bounds
<1>1. InHand("FinalizeWrite") /\ up /\ Ends /\ workerPc = "idle" /\ pending = <<>>
    BY DEF FinalizeRecording, InHand, Complete
<1>2. PICK p \in Instances : /\ p = events[1].of /\ p = Head(events).of /\ events # <<>>
                             /\ events[1].type = "FinalizeWrite" /\ 1 \in DOMAIN events
    BY <1>1, InHandIs
<1>3. /\ UNCHANGED <<up, files, lines, somethingWritten, inTime, pending, quitter, plugins>>
      /\ recording' = recording \ {p}
    BY <1>2 DEF FinalizeRecording, FinalizeTakes
<1>4. p \in recording => inTime[p] \subseteq lines[p]
    <2> SUFFICES ASSUME p \in recording, NEW l \in inTime[p] PROVE l \in lines[p]
        OBVIOUS
    <2>1. events \in Seq(AnyEvent)
        BY DEF TypeInv, Typed
    <2>2. \A i \in DOMAIN events : i = 1 \/ 1 \in 1..(i - 1)
        BY <2>1
    <2>3. ~Underway(p, l)
        BY <1>1, <1>2, <2>2 DEF Underway, Sent
    <2> QED
        BY <1>1, <2>3 DEF Complete, Kept
<1>5. CASE p \in recording /\ p \in somethingWritten
    <2>1. index' = [index EXCEPT ![p] = {}] /\ workerPc' = "finalizing" /\ UNCHANGED events
        BY <1>2, <1>5 DEF FinalizeRecording, FinalizeTakes
    <2>2. \A q \in Instances : q # p => index'[q] = index[q]
        BY <2>1 DEF TypeInv, Typed
    <2>3. \A q, l : Underway(q, l) => Underway(q, l)'
        BY <1>3, <2>1 DEF Underway, Sent
    <2>4. Ends'
        BY <1>1, <1>3, <2>1 DEF Ends, EndComes, Sent
    <2>5. Finalizing(p)' /\ \A q \in Instances : q # p => ~Finalizing(q)' /\ ~Finalizing(q)
        BY <1>1, <1>2, <2>1 DEF Finalizing
    <2>6. Kept(p)'
        <3>1. DOMAIN files[p] \subseteq ItemIds(lines[p])
            BY <1>1, <1>5 DEF Complete, Kept
        <3> QED
            BY <1>1, <1>3, <1>4, <1>5, <2>5, <3>1 DEF Kept
    <2>7. \A q \in Instances : q # p => Kept(q)'
        BY <1>1, <1>3, <2>2, <2>3, <2>5 DEF Complete, Kept
    <2> QED
        BY <2>4, <2>6, <2>7 DEF Complete
<1>6. CASE ~(p \in recording /\ p \in somethingWritten)
    <2>1. UNCHANGED <<index, workerPc>> /\ events' = Tail(events)
        BY <1>2, <1>6 DEF FinalizeRecording, FinalizeTakes
    <2>2. \A q, l : Underway(q, l) => Underway(q, l)'
        <3> SUFFICES ASSUME NEW q, NEW l, Underway(q, l) PROVE Underway(q, l)'
            OBVIOUS
        <3>1. ~Sent(1, "WriteItem", q)
            BY <1>2 DEF Sent
        <3> QED
            BY <1>2, <1>3, <2>1, <3>1, UnderwayHandled
    <2>3. Ends'
        BY <1>1, <1>2, <1>3, <2>1, EndsWhileHandled DEF Sent
    <2>4. \A q \in Instances : ~Finalizing(q)' /\ ~Finalizing(q)
        BY <1>1, <2>1 DEF Finalizing
    <2>5. Kept(p)'
        <3>1. inTime[p] \subseteq index[p] /\ DOMAIN files[p] \subseteq ItemIds(index[p])
            BY <1>1, <1>4, <1>6, <2>4 DEF Complete, Kept
        <3> QED
            BY <1>3, <2>1, <2>4, <3>1 DEF Kept
    <2>6. \A q \in Instances : q # p => Kept(q)'
        BY <1>1, <1>3, <2>1, <2>2, <2>4 DEF Complete, Kept
    <2> QED
        BY <2>3, <2>5, <2>6 DEF Complete
<1> QED
    BY <1>5, <1>6

(* The index file gets every line of the recording.                        *)
LEMMA WriteIndexComplete ==
    ASSUME TypeInv, Complete, WriteIndex
    PROVE  Complete'
<1> USE DEF disk, repos, plugins, worker, executor, quitter, bounds
<1>1. InHand("FinalizeWrite") /\ up /\ Ends /\ workerPc = "finalizing" /\ workerPc' = "idle"
    BY DEF WriteIndex, InHand, Complete
<1>2. PICK p \in Instances : /\ p = events[1].of /\ p = Head(events).of /\ events # <<>>
                             /\ events[1].type = "FinalizeWrite"
    BY <1>1, InHandIs
<1>3. /\ UNCHANGED <<up, files, repos, inTime, pending, quitter, plugins>>
      /\ index' = [index EXCEPT ![p] = lines[p]] /\ events' = Tail(events)
    BY <1>2 DEF WriteIndex
<1>4. p \notin recording
    BY <1>1, <1>2 DEF TypeInv, Repos
<1>5. Finalizing(p) /\ \A q \in Instances : ~Finalizing(q)' /\ (q # p => ~Finalizing(q))
    BY <1>1, <1>2 DEF Finalizing
<1>6. index'[p] = lines[p] /\ \A q \in Instances : q # p => index'[q] = index[q]
    <2>1. index \in [Instances -> SUBSET AnyLine]
        BY DEF TypeInv, Typed
    <2> QED
        BY <1>3, <2>1
<1>7. \A q, l : Underway(q, l) => Underway(q, l)'
    <2> SUFFICES ASSUME NEW q, NEW l, Underway(q, l) PROVE Underway(q, l)'
        OBVIOUS
    <2>1. ~Sent(1, "WriteItem", q)
        BY <1>2 DEF Sent
    <2> QED
        BY <1>2, <1>3, <2>1, UnderwayHandled
<1>8. Ends'
    BY <1>1, <1>2, <1>3, <1>4, EndsWhileHandled DEF Sent
<1>9. Kept(p)'
    BY <1>1, <1>3, <1>4, <1>5, <1>6 DEF Complete, Kept
<1>10. \A q \in Instances : q # p => Kept(q)'
    BY <1>1, <1>3, <1>5, <1>6, <1>7 DEF Complete, Kept
<1> QED
    BY <1>8, <1>9, <1>10 DEF Complete

(* Quitting: each server that stops sends the end of its recording, once,  *)
(* and Terminate comes after the last of them.                             *)
LEMMA QuitComplete ==
    ASSUME TypeInv, Complete, NEW by \in Quits, Quit(by), "console" \notin Quits
    PROVE  Complete'
<1> USE DEF disk, repos, plugins, worker, executor, quitter, bounds
<1>1. /\ UNCHANGED <<up, recording, workerPc, lines, somethingWritten, index, files, inTime, pending, plugins, toStop, events>>
      /\ up /\ quitBy = "none"
    BY DEF Quit
<1>2. toStop = Instances /\ \A i \in DOMAIN events : events[i].type # "Terminate"
    BY <1>1 DEF TypeInv, Switching, Complete, Ends
<1>3. Ends'
    BY <1>1, <1>2 DEF Complete, Ends, EndComes, Sent
<1>4. Terminate \in AnyEvent
    BY EventTypes
<1>5. \A q \in Instances : Kept(q)'
    BY <1>1, <1>4, KeptWhileSent
<1> QED
    BY <1>3, <1>5 DEF Complete

LEMMA StopServerComplete ==
    ASSUME TypeInv, Complete, NEW p \in Instances, StopServer(p)
    PROVE  Complete'
<1> USE DEF disk, repos, plugins, worker, executor, quitter, bounds
<1>1. PICK e \in AnyEvent : e = Finalize(p) /\ e.type = "FinalizeWrite" /\ e.of = p
    BY EventTypes
<1>2. /\ UNCHANGED <<up, recording, workerPc, lines, somethingWritten, index, files, inTime, pending, plugins, quitBy>>
      /\ up /\ quitPc = "stopping" /\ quitPc' = "waiting" /\ p \in toStop /\ toStop' = toStop \ {p}
      /\ events' = IF isActive(p) THEN Append(events, e) ELSE events
    BY <1>1 DEF StopServer
<1>3. events' = Append(events, e) \/ events' = events
    BY <1>2
<1>4. /\ \A i \in DOMAIN events : i \in DOMAIN events' /\ events'[i] = events[i]
      /\ \A i \in DOMAIN events' : (i \in DOMAIN events /\ events'[i] = events[i]) \/ events'[i] = e
      /\ isActive(p) => \E i \in DOMAIN events' : events'[i] = e
    <2>1. events \in Seq(AnyEvent)
        BY DEF TypeInv, Typed
    <2> QED
        BY <1>2, <2>1, Appended
<1>5. \A q \in Instances : adminPc[q] # "waiting"
    BY <1>2 DEF TypeInv, Switching
<1>6. \A i \in DOMAIN events' : events'[i].type # "Terminate"
    BY <1>1, <1>2, <1>4 DEF Complete, Ends
<1>7. ASSUME NEW q \in Instances, q \in recording \/ \E i \in DOMAIN events' : Sent(i, "StartWrite", q)'
      PROVE  (active[q] /\ q \in toStop') \/ EndComes(q)'
    <2>1. q \in recording \/ \E i \in DOMAIN events : Sent(i, "StartWrite", q)
        BY <1>1, <1>4, <1>7 DEF Sent
    <2>2. (active[q] /\ q \in toStop) \/ EndComes(q)
        BY <1>2, <1>5, <2>1 DEF Complete, Ends
    <2>3. EndComes(q) => EndComes(q)'
        BY <1>4 DEF EndComes, Sent
    <2>4. active[p] => EndComes(p)'
        BY <1>1, <1>4 DEF EndComes, Sent, isActive, TypeInv, Switching
    <2> QED
        BY <1>2, <2>2, <2>3, <2>4
<1>8. Ends'
    BY <1>2, <1>6, <1>7 DEF Ends
<1>9. \A q \in Instances : Kept(q)'
    BY <1>2, <1>3, KeptWhileSent
<1> QED
    BY <1>8, <1>9 DEF Complete

LEMMA StopWaitedComplete ==
    ASSUME TypeInv, Complete, StopWaited, ~timedOut'
    PROVE  Complete'
<1> USE DEF disk, repos, plugins, worker, executor, quitter, bounds
<1>1. /\ UNCHANGED <<up, recording, workerPc, lines, somethingWritten, index, files, inTime, pending, plugins, toStop, events>>
      /\ up /\ events = <<>> /\ quitBy' = quitBy
    BY DEF StopWaited, isEmpty
<1>2. DOMAIN events = {}
    BY <1>1
<1>3. Ends'
    BY <1>1, <1>2 DEF Complete, Ends, EndComes, Sent
<1>4. Terminate \in AnyEvent
    BY EventTypes
<1>5. \A q \in Instances : Kept(q)'
    BY <1>1, <1>4, KeptWhileSent
<1> QED
    BY <1>3, <1>5 DEF Complete

LEMMA SendTerminateComplete ==
    ASSUME TypeInv, Complete, SendTerminate
    PROVE  Complete'
<1> USE DEF disk, repos, plugins, worker, executor, quitter, bounds
<1>1. PICK e \in AnyEvent : e = Terminate /\ e.type = "Terminate"
    BY EventTypes
<1>2. /\ UNCHANGED <<up, recording, workerPc, lines, somethingWritten, index, files, inTime, pending, plugins, quitBy, toStop>>
      /\ up /\ quitPc = "stopping" /\ quitPc' = "none" /\ toStop = {} /\ quitBy = "api"
      /\ events' = Append(events, e)
    BY <1>1 DEF SendTerminate
<1>3. PICK last : /\ last = Len(events) + 1
                  /\ \A i \in DOMAIN events : i \in DOMAIN events' /\ events'[i] = events[i] /\ i < last
                  /\ \A i \in DOMAIN events' : (i \in DOMAIN events /\ events'[i] = events[i]) \/ (i = last /\ events'[i] = e)
    <2>1. events \in Seq(AnyEvent)
        BY DEF TypeInv, Typed
    <2>2. /\ Len(events) \in Nat
          /\ \A i \in DOMAIN events : i \in DOMAIN events' /\ events'[i] = events[i] /\ i \in Nat /\ i <= Len(events)
          /\ \A i \in DOMAIN events' : (i \in DOMAIN events /\ events'[i] = events[i])
                                          \/ (i = Len(events) + 1 /\ events'[i] = e)
        BY <1>2, <2>1, Appended
    <2> QED
        BY <2>2
<1>4. \A i \in DOMAIN events : events[i].type # "Terminate"
    BY <1>2 DEF Complete, Ends
<1>5. ASSUME NEW i \in DOMAIN events', events'[i].type = "Terminate"
      PROVE  \A j \in DOMAIN events' : events'[j].type = "FinalizeWrite" => j < i
    BY <1>1, <1>3, <1>4, <1>5
<1>6. \A q \in Instances : /\ EndComes(q) => EndComes(q)'
                           /\ \A i \in DOMAIN events' : Sent(i, "StartWrite", q)' => i \in DOMAIN events /\ Sent(i, "StartWrite", q)
    BY <1>1, <1>3 DEF EndComes, Sent
<1>7. Ends'
    BY <1>2, <1>5, <1>6 DEF Complete, Ends
<1>8. \A q \in Instances : Kept(q)'
    BY <1>2, KeptWhileSent
<1> QED
    BY <1>7, <1>8 DEF Complete

(* When the process ends by itself every recording has ended.              *)
LEMMA ExitComplete ==
    ASSUME TypeInv, Complete, HandleTerminate \/ CleanAndExit
    PROVE  Complete'
<1> USE DEF disk, repos, plugins, worker, executor, quitter, bounds
<1>1. up /\ Ends /\ ~up' /\ UNCHANGED <<index, files, inTime>>
    BY DEF HandleTerminate, CleanAndExit, InHand, Complete
<1>2. events \in Seq(AnyEvent) /\ toStop \in SUBSET Instances
    BY DEF TypeInv, Typed
<1>3. toStop = {} /\ quitBy # "none" /\ \A p \in Instances : ~EndComes(p)
    <2>1. CASE CleanAndExit
        BY <1>1, <2>1 DEF CleanAndExit, Ends
    <2>2. CASE HandleTerminate
        <3>1. 1 \in DOMAIN events /\ events[1].type = "Terminate"
            BY <2>2, InHandIs DEF HandleTerminate
        <3>2. toStop = {} /\ quitBy # "none" /\ \A j \in DOMAIN events : events[j].type = "FinalizeWrite" => j < 1
            BY <1>1, <3>1 DEF Ends
        <3>3. \A j \in DOMAIN events : ~(j < 1)
            BY <1>2
        <3> QED
            BY <3>2, <3>3 DEF EndComes, Sent
    <2> QED
        BY <2>1, <2>2
<1>4. \A p \in Instances : p \notin recording
    BY <1>1, <1>3 DEF Ends, TypeInv, Switching
<1>5. \A p \in Instances : ~Finalizing(p)
    <2>1. workerPc = "finalizing" => 1 \in DOMAIN events /\ events[1].type = "FinalizeWrite"
        <3>1. workerPc = "finalizing" => events # <<>> /\ events[1].type = "FinalizeWrite"
            BY <1>1 DEF TypeInv, Repos
        <3> QED
            BY <1>2, <3>1
    <2> QED
        BY <1>3, <2>1 DEF Finalizing, EndComes, Sent
<1>6. \A p \in Instances : Kept(p)'
    BY <1>1, <1>4, <1>5 DEF Complete, Kept
<1> QED
    BY <1>1, <1>6 DEF Complete

LEMMA StartProcessComplete ==
    ASSUME TypeInv, Complete, StartProcess
    PROVE  Complete'
<1> USE DEF disk, repos, plugins, worker, executor, quitter, bounds
<1>1. /\ ~up /\ recording' = {} /\ workerPc' = "idle" /\ UNCHANGED <<index, files, inTime>>
      /\ events' = <<>> /\ DOMAIN events' = {} /\ quitPc' = "none"
    BY DEF StartProcess
<1>2. Ends'
    BY <1>1 DEF Ends
<1>3. \A p \in Instances : Kept(p)'
    BY <1>1 DEF Complete, Kept, Finalizing
<1> QED
    BY <1>2, <1>3 DEF Complete

-----------------------------------------------------------------------------
(* What is regular was.                                                    *)
LEMMA RegularBefore ==
    ASSUME CompleteInv, [Next]_vars
    PROVE  /\ crashes' \in Nat
           /\ Regular' => Regular /\ ~Crash /\ ~(\E p \in Instances : ActivationTimesOut(p))
<1> USE DEF disk, repos, plugins, worker, executor, quitter, bounds
<1>1. crashes \in Nat
    BY DEF CompleteInv
<1>2. crashes' = crashes \/ (Crash /\ crashes' = crashes + 1)
    BY DEF Next, Activate, Activated, ActivationTimesOut, Deactivate, PostCall, SendLine, PreCall, AsyncResponse,
        Executor, ExecutorTakes, ExecutorAdds, ExecutorWrites, Worker, StartRecording, SetCounter, RecordInteraction,
        FinalizeRecording, FinalizeTakes, WriteIndex, WriteIndexThrows, HandleTerminate, Quit, Quitting, StopWaited, SendTerminate, CleanAndExit, StopServer,
        Crash, StartProcess, vars
<1>3. Crash => crashes' = crashes + 1
    BY DEF Crash
<1>4. ASSUME FinalizeRecording \/ StopWaited PROVE timedOut => timedOut'
    BY <1>4 DEF FinalizeRecording, StopWaited
<1>5. ASSUME NEW p \in Instances, ActivationTimesOut(p) PROVE timedOut'
    BY <1>5 DEF ActivationTimesOut
<1>6. FinalizeRecording \/ StopWaited \/ (\E p \in Instances : ActivationTimesOut(p)) \/ timedOut' = timedOut
    BY DEF Next, Activate, Activated, Deactivate, PostCall, SendLine, PreCall, AsyncResponse,
        Executor, ExecutorTakes, ExecutorAdds, ExecutorWrites, Worker, StartRecording, SetCounter, RecordInteraction,
        WriteIndex, WriteIndexThrows, HandleTerminate, Quit, Quitting, SendTerminate, CleanAndExit, StopServer,
        Crash, StartProcess, vars
<1>7. timedOut => timedOut'
    BY <1>4, <1>5, <1>6
<1>8. crashes' \in Nat /\ (crashes' = 0 => crashes = 0 /\ ~Crash)
    BY <1>1, <1>2, <1>3
<1> QED
    BY <1>5, <1>7, <1>8 DEF Regular

(* When no wait was too short, the executor is done before a recording     *)
(* ends.                                                                   *)
LEMMA BusyStep ==
    ASSUME TypeInv, up => Busy, [Next]_vars, ~timedOut', up'
    PROVE  Busy'
<1> USE DEF disk, repos, plugins, worker, executor, quitter, bounds
<1>1. ASSUME up, UNCHANGED <<executor, recording, lines, workerPc>> PROVE Busy'
    BY <1>1 DEF Busy
<1>2. CASE \/ UNCHANGED vars
           \/ \E p \in Instances : Activate(p) \/ Activated(p) \/ ActivationTimesOut(p) \/ Deactivate(p)
           \/ \E c \in Callers : PostCall(c) \/ SendLine(c)
           \/ \E c \in Callers, p \in Instances : PreCall(c, p) \/ AsyncResponse(c, p)
           \/ \E by \in Quits : Quit(by)
           \/ StopWaited \/ SendTerminate \/ \E p \in Instances : StopServer(p)
    <2>1. up /\ UNCHANGED <<executor, recording, lines, workerPc>>
        BY <1>2 DEF vars, Activate, Activated, ActivationTimesOut, Deactivate, PostCall, SendLine, PreCall,
            AsyncResponse, Quit, StopWaited, SendTerminate, StopServer
    <2> QED
        BY <1>1, <2>1
<1>3. CASE Executor
    <2>1. PICK p \in Instances, line \in AnyLine :
              /\ p = pending[1].of /\ line = pending[1].line /\ Head(pending) = pending[1]
              /\ pending # <<>> /\ up /\ UNCHANGED <<recording, workerPc>>
              /\ execPc' # "idle" => pending' = pending
        BY <1>3, ExecutorIs
    <2>2. workerPc # "finalizing" /\ execPc # "orphaned" /\ (execPc # "idle" => p \in recording)
        BY <2>1 DEF Busy
    <2>3. CASE ExecutorTakes
        BY <2>1, <2>2, <2>3 DEF ExecutorTakes, InHandOfExecutor, Busy
    <2>4. CASE ExecutorAdds
        <3>1. execPc' \in {"idle", "writing"} /\ lines' = [lines EXCEPT ![p] = lines[p] \cup {line}]
            BY <2>1, <2>2, <2>4 DEF ExecutorAdds, InHandOfExecutor
        <3>2. line \in lines'[p] /\ p \in recording
            BY <2>2, <2>4, <3>1 DEF ExecutorAdds, InHandOfExecutor, TypeInv, Typed
        <3> QED
            BY <2>1, <2>2, <3>1, <3>2 DEF Busy
    <2>5. CASE ExecutorWrites
        BY <2>1, <2>2, <2>5 DEF ExecutorWrites, Busy
    <2> QED
        BY <1>3, <2>3, <2>4, <2>5 DEF Executor
<1>4. CASE StartRecording \/ SetCounter
    <2>1. InHand("StartWrite") /\ UNCHANGED executor /\ workerPc' # "finalizing"
        BY <1>4 DEF StartRecording, SetCounter
    <2>2. PICK p \in Instances : p = Head(events).of /\ p = events[1].of /\ up
        BY <2>1, InHandIs
    <2>3. /\ recording' = recording \/ recording' = recording \cup {p}
          /\ \/ lines' = lines
             \/ p \in recording /\ lines' = [lines EXCEPT ![p] = lines[p]]
             \/ p \notin recording /\ \E ls : lines' = [lines EXCEPT ![p] = ls]
        <3>1. SetCounter => p \notin recording
            BY <2>2 DEF SetCounter, TypeInv, Repos
        <3> QED
            BY <1>4, <2>2, <3>1 DEF StartRecording, SetCounter
    <2>4. \A q \in recording : q \in recording' /\ lines'[q] = lines[q]
        BY <2>3 DEF TypeInv, Typed
    <2> QED
        BY <2>1, <2>2, <2>4 DEF Busy
<1>5. CASE RecordInteraction
    <2>1. /\ up /\ events[1] \in AnyEvent /\ events[1].type = "WriteItem" /\ pending' = Append(pending, events[1])
          /\ UNCHANGED <<execPc, recording, lines, workerPc>>
        BY <1>5, InHandIs DEF RecordInteraction
    <2>2. workerPc # "finalizing"
        BY <2>1 DEF TypeInv, Repos
    <2>3. execPc # "idle" => pending'[1] = pending[1]
        <3>1. pending \in Seq(AnyEvent) /\ (execPc # "idle" => pending # <<>>)
            BY DEF TypeInv, Typed
        <3> QED
            BY <2>1, <3>1
    <2> QED
        BY <2>1, <2>2, <2>3 DEF Busy
<1>6. CASE FinalizeRecording
    <2>1. pending = <<>> /\ pending' = pending
        BY <1>6 DEF FinalizeRecording, FinalizeTakes
    <2>2. execPc = "idle"
        BY <2>1 DEF TypeInv, Typed
    <2>3. execPc' = "idle"
        BY <1>6, <2>2 DEF FinalizeRecording, FinalizeTakes, Orphan
    <2> QED
        BY <2>1, <2>3 DEF Busy
<1>7. CASE WriteIndex \/ WriteIndexThrows
    <2>1. up /\ workerPc = "finalizing" /\ workerPc' = "idle"
        BY <1>7 DEF WriteIndex, WriteIndexThrows, InHand
    <2>2. pending = <<>>
        BY <2>1 DEF Busy
    <2>3. execPc = "idle" /\ WriteIndex
        BY <1>7, <2>2 DEF WriteIndexThrows, InHandOfExecutor, TypeInv, Typed
    <2>4. execPc' = "idle"
        BY <2>3 DEF WriteIndex, Orphan
    <2> QED
        BY <2>1, <2>4 DEF Busy
<1>8. CASE HandleTerminate \/ CleanAndExit \/ Crash
    BY <1>8 DEF HandleTerminate, CleanAndExit, Crash
<1>9. CASE StartProcess
    BY <1>9 DEF StartProcess, Busy
<1> QED
    BY <1>2, <1>3, <1>4, <1>5, <1>6, <1>7, <1>8, <1>9 DEF Next, Worker, Quitting

LEMMA CompleteStep ==
    ASSUME CompleteInv, ~Hasty, "console" \notin Quits, [Next]_vars
    PROVE  CompleteInv'
<1>0. TypeInv /\ TypeInv' /\ crashes' \in Nat
    BY TypeStep, RegularBefore DEF CompleteInv
<1> SUFFICES ASSUME Regular' PROVE Complete' /\ (up' => Busy')
    BY <1>0 DEF CompleteInv
<1>1. ~timedOut'
    BY DEF Regular
<1>2. ~Crash /\ Regular /\ ~(\E p \in Instances : ActivationTimesOut(p))
    BY RegularBefore
<1>3. TypeInv /\ Complete /\ (up => Busy)
    BY <1>0, <1>2 DEF CompleteInv
<1> SUFFICES Complete'
    BY <1>1, <1>3, BusyStep
<1>4. CASE UNCHANGED vars
    BY <1>3, <1>4, CallComplete
<1>5. ASSUME NEW p \in Instances, Activate(p) \/ Activated(p) \/ ActivationTimesOut(p) \/ Deactivate(p)
      PROVE  Complete'
    BY <1>2, <1>3, <1>5, SwitchComplete, CallComplete
<1>6. ASSUME NEW c \in Callers, PostCall(c) \/ SendLine(c)
      PROVE  Complete'
    BY <1>3, <1>6, CallComplete, SendLineComplete
<1>7. ASSUME NEW c \in Callers, NEW p \in Instances, PreCall(c, p) \/ AsyncResponse(c, p)
      PROVE  Complete'
    BY <1>3, <1>7, CallComplete
<1>8. CASE Executor \/ Worker
    <2>1. up
        BY <1>8 DEF Executor, ExecutorTakes, ExecutorAdds, ExecutorWrites, InHandOfExecutor, Worker, StartRecording,
            SetCounter, RecordInteraction, FinalizeRecording, WriteIndex, WriteIndexThrows, HandleTerminate, InHand
    <2>2. ~WriteIndexThrows
        BY <1>3, <2>1 DEF WriteIndexThrows, InHandOfExecutor, Busy
    <2> QED
        BY <1>1, <1>3, <1>8, <2>1, <2>2, ExecutorComplete, StartComplete, RecordInteractionComplete,
            FinalizeComplete, WriteIndexComplete, ExitComplete DEF Worker
<1>9. CASE Quitting \/ Crash \/ StartProcess
    BY <1>1, <1>2, <1>3, <1>9, StopServerComplete, StopWaitedComplete, SendTerminateComplete, ExitComplete,
        StartProcessComplete DEF Quitting
<1>10. CASE \E by \in Quits : Quit(by)
    BY <1>3, <1>10, QuitComplete
<1> QED
    BY <1>4, <1>5, <1>6, <1>7, <1>8, <1>9, <1>10 DEF Next

LEMMA InitComplete ==
    ASSUME Init
    PROVE  CompleteInv
<1>1. /\ recording = {} /\ events = <<>> /\ workerPc = "idle" /\ quitPc = "none" /\ crashes = 0
      /\ DOMAIN events = {} /\ execPc = "idle"
    BY DEF Init
<1>2. ASSUME NEW p \in Instances
      PROVE  inTime[p] = {} /\ DOMAIN files[p] \subseteq ItemIds(index[p])
    <2>1. Line(0, 1, TRUE).id = 1
        BY DEF Line
    <2>2. \/ index[p] = {Line(0, 1, TRUE)} /\ files[p] = [id \in {1} |-> 0]
          \/ files[p] = << >>
        BY DEF Init
    <2>3. inTime[p] = {}
        BY DEF Init
    <2>4. CASE index[p] = {Line(0, 1, TRUE)} /\ files[p] = [id \in {1} |-> 0]
        <3>1. DOMAIN files[p] = {1} /\ 1 \in ItemIds(index[p])
            BY <2>1, <2>4 DEF ItemIds
        <3> QED
            BY <2>3, <3>1
    <2>5. CASE files[p] = << >>
        BY <2>3, <2>5
    <2> QED
        BY <2>2, <2>4, <2>5
<1>3. Ends
    BY <1>1 DEF Ends
<1>4. \A p \in Instances : Kept(p)
    BY <1>1, <1>2 DEF Kept, Finalizing
<1> QED
    BY <1>1, <1>3, <1>4, InitTyped DEF CompleteInv, Complete, Busy

(***************************************************************************)
(* For any instances, when the process quits by its API or is stopped by   *)
(* Main and recording is not turned on hastily: unless a wait was too      *)
(* short or the process was killed, a recording that has ended lists every *)
(* line that was sent in time and every item on the disk.                  *)
(***************************************************************************)
THEOREM RecordedAll ==
    ASSUME ~Hasty, "console" \notin Quits
    PROVE  Spec => []RecordingComplete
<1>1. Init => CompleteInv
    BY InitComplete
<1>2. CompleteInv /\ [Next]_vars => CompleteInv'
    BY CompleteStep
<1>3. CompleteInv => RecordingComplete
    <2> SUFFICES ASSUME CompleteInv, ~timedOut, crashes = 0, NEW p \in Instances, ~up \/ Between(p)
                 PROVE  inTime[p] \subseteq index[p] /\ DOMAIN files[p] \subseteq {l.id : l \in index[p]}
        BY DEF RecordingComplete
    <2>1. events \in Seq(AnyEvent) /\ (up /\ workerPc = "finalizing" => events # <<>>)
        BY DEF CompleteInv, TypeInv, Typed, Repos
    <2>2. up /\ workerPc = "finalizing" => Head(events) = events[1]
        BY <2>1
    <2>3. ~up \/ (p \notin recording /\ ~Finalizing(p))
        BY <2>2 DEF Between, Finalizing
    <2>4. Kept(p)
        BY DEF CompleteInv, Regular, Complete
    <2> QED
        BY <2>3, <2>4 DEF Kept, ItemIds
<1> QED
    BY <1>1, <1>2, <1>3, PTL DEF Spec

-----------------------------------------------------------------------------
(* An id that is taken has no item file: the files of a recording are of   *)
(* its lines, and the counter is past these.                               *)
LEMMA GenerateHasNoFile ==
    ASSUME KeptInv, Regular, NEW p, Instances = {p}, NEW c \in Callers, up, isActive(p), p \in toStop, generateIndex,
           NEW k, caller' = [caller EXCEPT ![c] = k], k.n = calls + 1, k.id = storageCounter + 1,
           UNCHANGED <<files, up, events, pending>>
    PROVE  FilesOfCalls'
<1>1. TypeInv /\ storageCounter \in Nat /\ caller \in [Callers -> AnyCall] /\ lines \in [Instances -> SUBSET AnyLine]
    BY DEF KeptInv, IdsInv, TypeInv, Typed
<1>2. p \in recording
    BY <1>1 DEF isActive, TypeInv, Repos
<1>3. \A l \in lines[p] : l.id \in Nat /\ l.id <= storageCounter
    <2>1. \A l \in lines[p] : l.id \in Nat
        BY <1>1 DEF AnyLine
    <2> QED
        BY <1>2, <2>1 DEF KeptInv, IdsInv, Counter
<1>4. DOMAIN files[p] \subseteq ItemIds(lines[p])
    BY <1>2 DEF KeptInv, CompleteInv, Complete, Kept
<1>5. storageCounter + 1 \notin DOMAIN files[p]
    BY <1>1, <1>3, <1>4 DEF ItemIds
<1> DEFINE new == <<storageCounter + 1, calls + 1>>
<1>6. \A x \in InPlay' : x \in InPlay \/ x = new
    <2>1. \A d \in Callers : caller'[d] = IF d = c THEN k ELSE caller[d]
        BY <1>1
    <2>2. ASSUME NEW cs, \A d \in Callers : cs[d] = IF d = c THEN k ELSE caller[d],
                 NEW x \in Play(cs, events, pending)
          PROVE  x \in Play(caller, events, pending) \/ x = new
        <3>1. \/ \E d \in Callers : cs[d].id # 0 /\ x = <<cs[d].id, cs[d].n>>
              \/ \E i \in DOMAIN events :
                    events[i].type = "WriteItem" /\ x = <<events[i].line.id, events[i].line.n>>
              \/ \E i \in DOMAIN pending : x = <<pending[i].line.id, pending[i].line.n>>
            BY <2>2, PlayIs
        <3>2. \/ \E d \in Callers : caller[d].id # 0 /\ x = <<caller[d].id, caller[d].n>>
              \/ \E i \in DOMAIN events :
                    events[i].type = "WriteItem" /\ x = <<events[i].line.id, events[i].line.n>>
              \/ \E i \in DOMAIN pending : x = <<pending[i].line.id, pending[i].line.n>>
              \/ x = new
            BY <2>2, <3>1
        <3> QED
            BY <3>2, PlayIs
    <2> QED
        BY <2>1, <2>2 DEF InPlay
<1>7. new[1] = storageCounter + 1
    OBVIOUS
<1> HIDE DEF new
<1> QED
    BY <1>5, <1>6, <1>7 DEF KeptInv, FilesOfCalls

(* What the executor does to the item files: it adds one, or writes again  *)
(* what is there.                                                          *)
LEMMA ItemWritten ==
    ASSUME KeptInv, Regular, NEW p, Instances = {p}, ExecutorWrites
    PROVE  /\ \A id \in DOMAIN files[p] : id \in DOMAIN files'[p] /\ files'[p][id] = files[p][id]
           /\ \A x \in InPlay : x[1] \in DOMAIN files'[p] => files'[p][x[1]] = x[2]
<1>1. TypeInv /\ DOMAIN files = Instances /\ up
    BY DEF KeptInv, IdsInv, TypeInv, Typed, ExecutorWrites, InHandOfExecutor
<1>2. PICK line \in AnyLine : /\ line = pending[1].line /\ Head(pending).line = line /\ Head(pending).of = p
                              /\ 1 \in DOMAIN pending
    BY <1>1, PendingIs DEF ExecutorWrites, InHandOfExecutor
<1> DEFINE new == <<line.id, line.n>>
<1>3. new \in InPlay /\ new[1] = line.id /\ new[2] = line.n
    <2>1. new \in Play(caller, events, pending)
        BY <1>2, PlayIs
    <2> QED
        BY <2>1 DEF InPlay
<1> HIDE DEF new
<1>4. /\ \A x \in InPlay : x[1] = line.id => x[2] = line.n
      /\ \A x \in InPlay : x[1] \in DOMAIN files[p] => files[p][x[1]] = x[2]
    BY <1>1, <1>3 DEF KeptInv, IdsInv, SameCall, FilesOfCalls
<1>5. files' = files \/ files' = [files EXCEPT ![p] = WithItem(files[p], line)]
    BY <1>2 DEF ExecutorWrites
<1>6. files'[p] = files[p] \/ files'[p] = WithItem(files[p], line)
    BY <1>1, <1>5
<1>7. CASE files'[p] = files[p]
    BY <1>4, <1>7
<1>8. CASE files'[p] = WithItem(files[p], line)
    <2>1. /\ DOMAIN files'[p] = DOMAIN files[p] \cup {line.id}
          /\ \A id \in DOMAIN files'[p] : files'[p][id] = IF id = line.id THEN line.n ELSE files[p][id]
        BY <1>8 DEF WithItem
    <2>2. line.id \in DOMAIN files[p] => files[p][line.id] = line.n
        BY <1>3, <1>4
    <2> QED
        BY <1>4, <2>1, <2>2
<1> QED
    BY <1>6, <1>7, <1>8

(* Only the executor changes the item files.                               *)
LEMMA FilesWrittenBy ==
    ASSUME [Next]_vars, ~ExecutorWrites
    PROVE  files' = files
BY DEF Next, Activate, Activated, ActivationTimesOut, Deactivate, PostCall, SendLine, PreCall, AsyncResponse,
    Executor, ExecutorTakes, ExecutorAdds, Worker, StartRecording, SetCounter, RecordInteraction, FinalizeRecording,
    FinalizeTakes, WriteIndex, WriteIndexThrows, HandleTerminate, Quit, Quitting, StopWaited, SendTerminate, CleanAndExit, StopServer,
    Crash, StartProcess, vars, disk, repos, plugins, worker, executor, quitter, bounds

LEMMA KeptStep ==
    ASSUME KeptInv, ~Hasty, "console" \notin Quits, NEW p, Instances = {p}, [Next]_vars
    PROVE  KeptInv'
<1> USE DEF disk, repos, plugins, worker, executor, quitter, bounds
<1>0. IdsInv /\ TypeInv /\ Numbered /\ IdsInv' /\ CompleteInv'
    BY IdsStep, CompleteStep DEF KeptInv, IdsInv
<1> SUFFICES ASSUME Regular', up' PROVE FilesOfCalls'
    BY <1>0 DEF KeptInv, FilesOfCalls
<1>1. Regular
    BY RegularBefore DEF KeptInv
<1>2. ASSUME InPlay' \subseteq InPlay, files' = files, up PROVE FilesOfCalls'
    BY <1>1, <1>2 DEF KeptInv, FilesOfCalls
<1>3. CASE UNCHANGED vars
    <2>1. InPlay' = InPlay /\ files' = files /\ up' = up
        BY <1>3 DEF vars, InPlay
    <2> QED
        BY <1>2, <2>1
<1>4. CASE \/ \E q \in Instances : Activate(q) \/ Activated(q) \/ ActivationTimesOut(q) \/ Deactivate(q)
           \/ \E c \in Callers : PostCall(c) \/ SendLine(c)
           \/ Worker \/ Quitting \/ \E by \in Quits : Quit(by)
    <2>1. InPlay' \subseteq InPlay
        BY <1>0, <1>4, PlayShrinks
    <2>2. up
        BY <1>4 DEF Activate, Activated, ActivationTimesOut, Deactivate, PostCall, SendLine, Worker, StartRecording,
            SetCounter, RecordInteraction, FinalizeRecording, WriteIndex, WriteIndexThrows, HandleTerminate, InHand,
            Quit, Quitting, StopWaited, SendTerminate, CleanAndExit, StopServer
    <2>3. files' = files
        BY <1>4 DEF Activate, Activated, ActivationTimesOut, Deactivate, PostCall, SendLine, Worker, StartRecording,
            SetCounter, RecordInteraction, FinalizeRecording, FinalizeTakes, WriteIndex, WriteIndexThrows,
            HandleTerminate, Quit, Quitting, StopWaited, SendTerminate, CleanAndExit, StopServer
    <2> QED
        BY <1>2, <2>1, <2>2, <2>3
<1>5. ASSUME NEW c \in Callers, NEW q \in Instances, PreCall(c, q) \/ AsyncResponse(c, q)
      PROVE  FilesOfCalls'
    <2>1. /\ q = p /\ up /\ p \in toStop
          /\ UNCHANGED <<files, up, events, pending>>
        BY <1>5 DEF PreCall, AsyncResponse
    <2> DEFINE k(pc) == [pc |-> pc, of |-> p, n |-> calls + 1, id |-> storageCounter + 1]
               k0 == [pc |-> "calling", of |-> p, n |-> 0, id |-> 0]
    <2>2. CASE isActive(p)
        <3>1. PICK pc \in {"calling", "saving"} : generateIndex /\ caller' = [caller EXCEPT ![c] = k(pc)]
            BY <1>5, <2>1, <2>2 DEF PreCall, AsyncResponse
        <3>2. k(pc).n = calls + 1 /\ k(pc).id = storageCounter + 1
            OBVIOUS
        <3> HIDE DEF k
        <3> QED
            BY <1>1, <2>1, <2>2, <3>1, <3>2, GenerateHasNoFile
    <2>3. CASE ~isActive(p)
        <3>1. caller' = [caller EXCEPT ![c] = k0]
            BY <1>5, <2>1, <2>3 DEF PreCall, AsyncResponse
        <3>2. k0.id = 0 /\ caller \in [Callers -> AnyCall]
            BY <1>0 DEF TypeInv, Typed
        <3> HIDE DEF k0
        <3>3. \A d \in Callers : caller'[d] = caller[d] \/ caller'[d].id = 0
            BY <3>1, <3>2
        <3>4. ASSUME NEW x \in Play(caller', events', pending') PROVE x \in Play(caller, events, pending)
            BY <2>1, <3>3, PlayIs
        <3>5. InPlay' \subseteq InPlay
            BY <3>4 DEF InPlay
        <3> QED
            BY <1>2, <2>1, <3>5
    <2> QED
        BY <2>2, <2>3
<1>6. CASE Executor
    <2>1. InPlay' \subseteq InPlay
        BY <1>0, <1>6, PlayShrinks
    <2>2. CASE ExecutorWrites
        <3>1. \A x \in InPlay : x[1] \in DOMAIN files'[p] => files'[p][x[1]] = x[2]
            BY <1>1, <2>2, ItemWritten
        <3> QED
            BY <2>1, <3>1 DEF FilesOfCalls
    <2>3. CASE ExecutorTakes \/ ExecutorAdds
        <3>1. files' = files /\ up
            BY <2>3 DEF ExecutorTakes, ExecutorAdds, InHandOfExecutor
        <3> QED
            BY <1>2, <2>1, <3>1
    <2> QED
        BY <1>6, <2>2, <2>3 DEF Executor
<1>7. CASE Crash
    BY <1>7 DEF Crash
<1>8. CASE StartProcess
    <2>1. caller' = [c \in Callers |-> Idle] /\ events' = <<>> /\ pending' = <<>>
        BY <1>8 DEF StartProcess
    <2>2. (\A c \in Callers : caller'[c].id = 0) /\ DOMAIN events' = {} /\ DOMAIN pending' = {}
        BY <2>1, CallTypes
    <2>3. \A x : x \notin Play(caller', events', pending')
        BY <2>2, PlayIs
    <2> QED
        BY <2>3 DEF InPlay, FilesOfCalls
<1> QED
    BY <1>3, <1>4, <1>5, <1>6, <1>7, <1>8 DEF Next

LEMMA InitKept == Init => KeptInv
<1> SUFFICES ASSUME Init PROVE KeptInv
    OBVIOUS
<1>1. (\A c \in Callers : caller[c].id = 0) /\ DOMAIN events = {} /\ DOMAIN pending = {}
    BY CallTypes DEF Init
<1>2. \A x : x \notin Play(caller, events, pending)
    BY <1>1, PlayIs
<1> QED
    BY <1>2, InitIds, InitComplete DEF KeptInv, FilesOfCalls, InPlay

(***************************************************************************)
(* A protocol recorded by itself, with no console and no hasty start:      *)
(* unless a wait was too short or the process was killed, no step changes  *)
(* or removes an item that was recorded, in whatever session or process.   *)
(***************************************************************************)
THEOREM ItemsKept ==
    ASSUME ~Hasty, "console" \notin Quits, NEW p, Instances = {p}
    PROVE  Spec => NothingOverwritten
<1>1. Init => KeptInv
    BY InitKept
<1>2. KeptInv /\ [Next]_vars => KeptInv'
    BY KeptStep
<1>3. KeptInv /\ [Next]_vars => ItemsStay
    <2> SUFFICES ASSUME KeptInv, [Next]_vars, ~timedOut, crashes = 0
                 PROVE  \A id \in DOMAIN files[p] : id \in DOMAIN files'[p] /\ files'[p][id] = files[p][id]
        BY DEF ItemsStay
    <2>1. CASE ExecutorWrites
        BY <2>1, ItemWritten DEF Regular
    <2>2. CASE ~ExecutorWrites
        BY <2>2, FilesWrittenBy
    <2> QED
        BY <2>1, <2>2
<1> QED
    BY <1>1, <1>2, <1>3, PTL DEF Spec, NothingOverwritten
=============================================================================
