---------------------------- MODULE EventsQueue ----------------------------
(***************************************************************************)
(* The process-wide event queue (org.kendar.events.EventsQueue).           *)
(*                                                                         *)
(* Threads call send: they count the event in the static size, read the    *)
(* current instance, and add the event to its items, three steps between   *)
(* which anything may happen.  One worker thread per instance polls the    *)
(* items and passes each to the handlers of its class.  clean, called by   *)
(* Main.stopInternal from any thread, the worker included (the handlers of *)
(* Terminate and Restart call it), empties the instance, zeroes the size   *)
(* and puts a new instance with a new worker in its place.                 *)
(*                                                                         *)
(* Instances are numbered 1, 2, ...: "instance" is the current one.        *)
(***************************************************************************)
EXTENDS Integers, Sequences, FiniteSets

CONSTANTS
    Senders,        \* threads that call send
    Handlers,       \* ids given to register
    Main,           \* the id whose handler of a quit event calls clean
    MaxEvents,      \* bound: events a sender sends
    MaxInstances    \* bound: instances made, the first included

ASSUME ConstantsAssumption ==
    /\ IsFiniteSet(Senders)
    /\ Main \in Handlers
    /\ MaxEvents \in Nat
    /\ MaxInstances \in Nat \ {0}

Instances == 1..MaxInstances
Quits == IF MaxInstances > 1 THEN BOOLEAN ELSE {FALSE}     \* quit events need an instance more
Event == [from : Senders, n : 1..MaxEvents, quit : BOOLEAN]

VARIABLES
    size,           \* the static counter
    instance,       \* the current instance
    items,          \* instance |-> the events waiting, oldest first
    running,        \* instance |-> its flag
    eventHandlers,  \* instance |-> the ids registered
    workerPc,       \* instance |-> where its worker thread is
    todo,           \* instance |-> handlers the event in hand is still to reach
    modified,       \* instance |-> the map changed while its worker iterates
    polled,         \* instance |-> the events its worker took, in order
    senderPc,       \* sender |-> where it is in send
    sent,           \* sender |-> calls of send begun
    quit,           \* sender |-> the event it sends is a quit event
    target,         \* sender |-> the instance send read
    cleanPc,        \* where the call of clean under way is
    cleanBy         \* the worker that makes it (0: another thread)

counters == <<size, instance>>
queues   == <<items, running, eventHandlers>>
workers  == <<workerPc, todo, modified, polled>>
senders  == <<senderPc, sent, quit, target>>
cleaner  == <<cleanPc, cleanBy>>
vars     == <<counters, queues, workers, senders, cleaner>>

SenderPcs  == {"idle", "counted", "aimed"}
WorkerPcs  == {"unborn", "outer", "inner", "handling", "counting", "dead"}
CleanerPcs == {"none", "items", "handlers", "size", "swap"}

Init ==
    /\ size = 0
    /\ instance = 1
    /\ items = [l \in Instances |-> <<>>]
    /\ running = [l \in Instances |-> TRUE]
    /\ eventHandlers = [l \in Instances |-> {}]
    /\ workerPc = [l \in Instances |-> IF l = 1 THEN "outer" ELSE "unborn"]
    /\ todo = [l \in Instances |-> {}]
    /\ modified = [l \in Instances |-> FALSE]
    /\ polled = [l \in Instances |-> <<>>]
    /\ senderPc = [s \in Senders |-> "idle"]
    /\ sent = [s \in Senders |-> 0]
    /\ quit = [s \in Senders |-> FALSE]
    /\ target = [s \in Senders |-> 1]
    /\ cleanPc = "none"
    /\ cleanBy = 0

-----------------------------------------------------------------------------
(* send: size.incrementAndGet()                                            *)
SendCounts(s) ==
    /\ senderPc[s] = "idle"
    /\ sent[s] < MaxEvents
    /\ size' = size + 1
    /\ senderPc' = [senderPc EXCEPT ![s] = "counted"]
    /\ sent' = [sent EXCEPT ![s] = @ + 1]
    /\ \E q \in Quits : quit' = [quit EXCEPT ![s] = q]
    /\ UNCHANGED <<instance, queues, workers, target, cleaner>>

(* send: getInstance()                                                     *)
SendAims(s) ==
    /\ senderPc[s] = "counted"
    /\ senderPc' = [senderPc EXCEPT ![s] = "aimed"]
    /\ target' = [target EXCEPT ![s] = instance]
    /\ UNCHANGED <<counters, queues, workers, sent, quit, cleaner>>

EventOf(s) == [from |-> s, n |-> sent[s], quit |-> quit[s]]

(* Mutant: the event is put in front of the ones that wait.                *)
AddsInFront(s) ==
    /\ senderPc[s] = "aimed"
    /\ items' = [items EXCEPT ![target[s]] = <<EventOf(s)>> \o @]
    /\ senderPc' = [senderPc EXCEPT ![s] = "idle"]
    /\ UNCHANGED <<counters, running, eventHandlers, workers, sent, quit, target, cleaner>>

(* Mutant: the event is dropped.                                           *)
AddsNothing(s) ==
    /\ senderPc[s] = "aimed"
    /\ senderPc' = [senderPc EXCEPT ![s] = "idle"]
    /\ UNCHANGED <<counters, queues, workers, sent, quit, target, cleaner>>

(* send: items.add(event)                                                  *)
SendAdds(s) ==
    /\ senderPc[s] = "aimed"
    /\ items' = [items EXCEPT ![target[s]] = Append(@, EventOf(s))]
    /\ senderPc' = [senderPc EXCEPT ![s] = "idle"]
    /\ UNCHANGED <<counters, running, eventHandlers, workers, sent, quit, target, cleaner>>

-----------------------------------------------------------------------------
(* register and unregister change the map of the current instance; a       *)
(* worker that iterates over it notices a key that came or went.           *)
ChangeHandlers(ids) ==
    /\ ids # eventHandlers[instance]
    /\ eventHandlers' = [eventHandlers EXCEPT ![instance] = ids]
    /\ modified' = [modified EXCEPT ![instance] = workerPc[instance] = "handling"]
    /\ UNCHANGED <<counters, items, running, workerPc, todo, polled, senders, cleaner>>

register(h)   == ChangeHandlers(eventHandlers[instance] \cup {h})
unregister(h) == ChangeHandlers(eventHandlers[instance] \ {h})

-----------------------------------------------------------------------------
(* Mutant: the event is counted down as soon as it is taken, too.          *)
CountDownWhenPolled(l) ==
    /\ workerPc[l] \in {"outer", "inner"}
    /\ items[l] # <<>>
    /\ items' = [items EXCEPT ![l] = Tail(@)]
    /\ polled' = [polled EXCEPT ![l] = Append(@, Head(items[l]))]
    /\ workerPc' = [workerPc EXCEPT ![l] = "handling"]
    /\ todo' = [todo EXCEPT ![l] = eventHandlers[l]]
    /\ modified' = [modified EXCEPT ![l] = FALSE]
    /\ size' = size - 1
    /\ UNCHANGED <<instance, running, eventHandlers, senders, cleaner>>

(***************************************************************************)
(* The worker.  The outer loop looks at running before each burst, the     *)
(* inner one polls until nothing is left.  running is not volatile: after  *)
(* another thread has cleared it the worker may go on seeing it set, so it *)
(* may poll whatever running says, and Exit only once running is cleared.  *)
(***************************************************************************)
Poll(l) ==
    /\ workerPc[l] \in {"outer", "inner"}
    /\ items[l] # <<>>
    /\ items' = [items EXCEPT ![l] = Tail(@)]
    /\ polled' = [polled EXCEPT ![l] = Append(@, Head(items[l]))]
    /\ workerPc' = [workerPc EXCEPT ![l] = "handling"]
    /\ todo' = [todo EXCEPT ![l] = eventHandlers[l]]
    /\ modified' = [modified EXCEPT ![l] = FALSE]
    /\ UNCHANGED <<counters, running, eventHandlers, senders, cleaner>>

NothingToPoll(l) ==
    /\ workerPc[l] = "inner"
    /\ items[l] = <<>>
    /\ workerPc' = [workerPc EXCEPT ![l] = "outer"]
    /\ UNCHANGED <<counters, queues, todo, modified, polled, senders, cleaner>>

Exit(l) ==
    /\ workerPc[l] = "outer"
    /\ ~running[l]
    /\ workerPc' = [workerPc EXCEPT ![l] = "dead"]
    /\ UNCHANGED <<counters, queues, todo, modified, polled, senders, cleaner>>

Cleaning(l) == cleanPc # "none" /\ cleanBy = l
InHand(l)   == polled[l][Len(polled[l])]

(* handle: the next handler is called.  The one of main, on a quit event,  *)
(* calls clean on the current instance and returns when it is done.        *)
CallHandler(l, h) ==
    /\ workerPc[l] = "handling"
    /\ ~Cleaning(l)
    /\ h \in todo[l]
    /\ todo' = [todo EXCEPT ![l] = @ \ {h}]
    /\ IF h = Main /\ InHand(l).quit
       THEN /\ cleanPc = "none"
            /\ instance < MaxInstances
            /\ cleanPc' = "items"
            /\ cleanBy' = l
       ELSE UNCHANGED cleaner
    /\ UNCHANGED <<counters, queues, workerPc, modified, polled, senders>>

(* Mutant: an event whose handling throws is not counted down.             *)
NotCountedOnThrow(l) ==
    /\ workerPc[l] = "handling"
    /\ ~Cleaning(l)
    /\ todo[l] = {} \/ modified[l]
    /\ workerPc' = [workerPc EXCEPT ![l] = IF todo[l] = {} THEN "counting" ELSE "inner"]
    /\ UNCHANGED <<counters, queues, todo, modified, polled, senders, cleaner>>

(* handle returns: no handler is left, or the iterator of a map that was   *)
(* modified throws, which the loop of the worker logs.                     *)
Handled(l) ==
    /\ workerPc[l] = "handling"
    /\ ~Cleaning(l)
    /\ todo[l] = {} \/ modified[l]
    /\ workerPc' = [workerPc EXCEPT ![l] = "counting"]
    /\ UNCHANGED <<counters, queues, todo, modified, polled, senders, cleaner>>

(* size.decrementAndGet()                                                  *)
CountDown(l) ==
    /\ workerPc[l] = "counting"
    /\ size' = size - 1
    /\ workerPc' = [workerPc EXCEPT ![l] = "inner"]
    /\ UNCHANGED <<instance, queues, todo, modified, polled, senders, cleaner>>

-----------------------------------------------------------------------------
(* clean, called by Main.stop on a thread of its own.                      *)
Stop ==
    /\ cleanPc = "none"
    /\ instance < MaxInstances
    /\ cleanPc' = "items"
    /\ cleanBy' = 0
    /\ UNCHANGED <<counters, queues, workers, senders>>

CleanItems ==
    /\ cleanPc = "items"
    /\ items' = [items EXCEPT ![instance] = <<>>]
    /\ cleanPc' = "handlers"
    /\ UNCHANGED <<counters, running, eventHandlers, workers, senders, cleanBy>>

(* The outer map is cleared: an iteration over an inner one goes on.       *)
CleanHandlers ==
    /\ cleanPc = "handlers"
    /\ eventHandlers' = [eventHandlers EXCEPT ![instance] = {}]
    /\ cleanPc' = "size"
    /\ UNCHANGED <<counters, items, running, workers, senders, cleanBy>>

CleanSize ==
    /\ cleanPc = "size"
    /\ size' = 0
    /\ cleanPc' = "swap"
    /\ UNCHANGED <<instance, queues, workers, senders, cleanBy>>

(* Mutant: the new queue is made and starts its worker, but is never put   *)
(* in the place of the old one.                                            *)
NeverPublished ==
    /\ cleanPc = "swap"
    /\ running' = [running EXCEPT ![instance] = FALSE]
    /\ workerPc' = [workerPc EXCEPT ![instance + 1] = "outer"]
    /\ cleanPc' = "none"
    /\ UNCHANGED <<size, instance, items, eventHandlers, todo, modified, polled, senders, cleanBy>>

(* Mutant: the event in hand is handed on to the new queue.                *)
HandsOn ==
    /\ cleanPc = "swap"
    /\ running' = [running EXCEPT ![instance] = FALSE]
    /\ instance' = instance + 1
    /\ items' = [items EXCEPT ![instance + 1] =
                    IF workerPc[instance] = "handling" THEN <<InHand(instance)>> ELSE <<>>]
    /\ workerPc' = [workerPc EXCEPT ![instance + 1] = "outer"]
    /\ cleanPc' = "none"
    /\ UNCHANGED <<size, eventHandlers, todo, modified, polled, senders, cleanBy>>

(* running = false; instance = new EventsQueue(), which starts its worker. *)
Swap ==
    /\ cleanPc = "swap"
    /\ running' = [running EXCEPT ![instance] = FALSE]
    /\ instance' = instance + 1
    /\ workerPc' = [workerPc EXCEPT ![instance + 1] = "outer"]
    /\ cleanPc' = "none"
    /\ UNCHANGED <<size, items, eventHandlers, todo, modified, polled, senders, cleanBy>>

-----------------------------------------------------------------------------
SenderStep(s) == SendCounts(s) \/ SendAims(s) \/ SendAdds(s)
WorkerStep(l) ==
    \/ Poll(l) \/ NothingToPoll(l) \/ Exit(l) \/ Handled(l) \/ CountDown(l)
    \/ \E h \in Handlers : CallHandler(l, h)
CleanStep == CleanItems \/ CleanHandlers \/ CleanSize \/ Swap

Next ==
    \/ \E s \in Senders : SenderStep(s)
    \/ \E l \in Instances : WorkerStep(l)
    \/ \E h \in Handlers : register(h) \/ unregister(h)
    \/ Stop
    \/ CleanStep

Spec == Init /\ [][Next]_vars

(* A thread that has begun send ends it and a worker thread keeps running. *)
FairSpec ==
    /\ Spec
    /\ \A s \in Senders : WF_vars(SendAims(s)) /\ WF_vars(SendAdds(s))
    /\ \A l \in Instances : WF_vars(WorkerStep(l))

-----------------------------------------------------------------------------
CountersOK ==
    /\ size \in Int
    /\ instance \in Instances

QueuesOK ==
    /\ items \in [Instances -> Seq(Event)]
    /\ running \in [Instances -> BOOLEAN]
    /\ eventHandlers \in [Instances -> SUBSET Handlers]

WorkersOK ==
    /\ workerPc \in [Instances -> WorkerPcs]
    /\ todo \in [Instances -> SUBSET Handlers]
    /\ modified \in [Instances -> BOOLEAN]
    /\ polled \in [Instances -> Seq(Event)]

SendersOK ==
    /\ senderPc \in [Senders -> SenderPcs]
    /\ sent \in [Senders -> 0..MaxEvents]
    /\ quit \in [Senders -> BOOLEAN]
    /\ target \in [Senders -> Instances]
    /\ \A s \in Senders : senderPc[s] # "idle" => sent[s] > 0

CleanerOK ==
    /\ cleanPc \in CleanerPcs
    /\ cleanBy \in {0} \cup Instances
    /\ cleanPc # "none" => instance < MaxInstances

(* A worker that was not started has nothing in hand, and a send aims at   *)
(* an instance that exists.                                                *)
OnlyInstancesMade ==
    /\ \A l \in Instances : l > instance => workerPc[l] = "unborn"
    /\ \A s \in Senders : target[s] <= instance

(* The types, and: a thread inside send has an event to send, only workers *)
(* of instances made so far exist, clean has an instance to go on to.      *)
TypeOK == CountersOK /\ QueuesOK /\ WorkersOK /\ SendersOK /\ CleanerOK /\ OnlyInstancesMade

(* Of two events of one thread, a was sent before b.                       *)
Before(a, b) == a.from = b.from => a.n < b.n

(***************************************************************************)
(* An instance handles the events of one thread in the order the thread    *)
(* sent them, each at most once: a recording is started before its items   *)
(* are written and finalized after them.                                   *)
(***************************************************************************)
HandledInOrder ==
    \A l \in Instances : \A i, j \in DOMAIN polled[l] :
        i < j => Before(polled[l][i], polled[l][j])

Busy(l) == workerPc[l] \in {"handling", "counting"}
Sending == {s \in Senders : senderPc[s] # "idle"}

(* No clean has been called.                                               *)
Pristine == instance = 1 /\ cleanPc = "none"

(***************************************************************************)
(* Until the first clean, isEmpty() answers true only when every event     *)
(* sent has been handled: nothing waits, no thread is inside send, and the *)
(* worker is between two events.                                           *)
(***************************************************************************)
IsEmptyMeansIdle ==
    Pristine /\ size = 0 => items[1] = <<>> /\ Sending = {} /\ ~Busy(1)

(***************************************************************************)
(* Until the first clean, isEmpty() answers true again after every send,   *)
(* though handlers come and go under the worker and the iterator of a      *)
(* changed map throws: the stop of a server, which waits for isEmpty(),    *)
(* does not wait for an event that was lost while it was handled.          *)
(***************************************************************************)
EmptyAgain == []<>(Pristine => size = 0)

(***************************************************************************)
(* The queue keeps what EventDelivery promises: across all instances no    *)
(* event is handled twice, though send, clean and two workers run side by  *)
(* side, and each instance keeps the order of every thread.                *)
(***************************************************************************)
Delivery == INSTANCE EventDelivery WITH handled <- polled

ImplementsDelivery == Delivery!Spec

(***************************************************************************)
(* An event that was sent is handled, unless the queue is cleaned.         *)
(***************************************************************************)
EventuallyHandled ==
    \A s \in Senders : \A k \in 1..MaxEvents :
        sent[s] = k ~> \/ ~Pristine
                       \/ \E i \in DOMAIN polled[1] :
                            polled[1][i].from = s /\ polled[1][i].n = k
=============================================================================
