------------------------- MODULE EventsQueueProofs -------------------------
(***************************************************************************)
(* Proofs about EventsQueue, for any number of threads, handlers, events   *)
(* and instances.                                                          *)
(***************************************************************************)
EXTENDS EventsQueue, FiniteSetTheorems, SequenceTheorems, TLAPS

(* What a thread inside send is about to add is an event.                  *)
LEMMA EventOfType ==
    ASSUME SendersOK, NEW s \in Senders, senderPc[s] # "idle"
    PROVE  EventOf(s) \in Event
  BY DEF SendersOK, EventOf, Event

(* Every value the queue, its workers, the senders and clean keep has its  *)
(* type, in every state of EventsQueue.                                    *)
THEOREM TypeCorrect == Spec => []TypeOK
<1>1. Init => TypeOK
  <2> SUFFICES ASSUME Init PROVE TypeOK
    OBVIOUS
  <2>1. CountersOK /\ CleanerOK
    BY ConstantsAssumption DEF Init, CountersOK, CleanerOK, Instances, CleanerPcs
  <2>2. QueuesOK /\ WorkersOK
    BY ConstantsAssumption DEF Init, QueuesOK, WorkersOK, WorkerPcs
  <2>3. SendersOK /\ OnlyInstancesMade
    BY ConstantsAssumption DEF Init, SendersOK, OnlyInstancesMade, Instances, SenderPcs
  <2> QED
    BY <2>1, <2>2, <2>3 DEF TypeOK
<1>2. TypeOK /\ [Next]_vars => TypeOK'
  <2> SUFFICES ASSUME TypeOK, [Next]_vars PROVE TypeOK'
    OBVIOUS
  <2> USE ConstantsAssumption DEF TypeOK, CountersOK, QueuesOK, WorkersOK, SendersOK, CleanerOK,
                               OnlyInstancesMade, counters, queues, workers, senders, cleaner
  <2>1. ASSUME NEW s \in Senders, SendCounts(s) PROVE TypeOK'
    <3>1. quit' \in [Senders -> BOOLEAN]
      BY <2>1 DEF SendCounts, Quits
    <3>2. SendersOK'
      BY <2>1, <3>1 DEF SendCounts, SenderPcs
    <3> QED
      BY <2>1, <3>2 DEF SendCounts
  <2>2. ASSUME NEW s \in Senders, SendAims(s) PROVE TypeOK'
    <3>1. SendersOK'
      BY <2>2 DEF SendAims, SenderPcs
    <3>2. OnlyInstancesMade'
      BY <2>2 DEF SendAims, Instances
    <3> QED
      BY <2>2, <3>1, <3>2 DEF SendAims
  <2>3. ASSUME NEW s \in Senders, SendAdds(s) PROVE TypeOK'
    <3>1. EventOf(s) \in Event
      BY <2>3, EventOfType DEF SendAdds
    <3>2. items' \in [Instances -> Seq(Event)]
      BY <2>3, <3>1 DEF SendAdds
    <3>3. SendersOK'
      BY <2>3 DEF SendAdds, SenderPcs
    <3> QED
      BY <2>3, <3>2, <3>3 DEF SendAdds
  <2>4. ASSUME NEW l \in Instances, Poll(l) PROVE TypeOK'
    <3>1. /\ items[l] \in Seq(Event) /\ items[l] # <<>>
          /\ Head(items[l]) \in Event /\ Tail(items[l]) \in Seq(Event)
      BY <2>4 DEF Poll
    <3>2. QueuesOK'
      BY <2>4, <3>1 DEF Poll
    <3>3. WorkersOK'
      BY <2>4, <3>1 DEF Poll, WorkerPcs
    <3>4. OnlyInstancesMade'
      BY <2>4 DEF Poll
    <3> QED
      BY <2>4, <3>2, <3>3, <3>4 DEF Poll
  <2>5. ASSUME NEW l \in Instances, NothingToPoll(l) PROVE TypeOK'
    BY <2>5 DEF NothingToPoll, WorkerPcs
  <2>6. ASSUME NEW l \in Instances, Exit(l) PROVE TypeOK'
    BY <2>6 DEF Exit, WorkerPcs
  <2>7. ASSUME NEW l \in Instances, Handled(l) PROVE TypeOK'
    BY <2>7 DEF Handled, WorkerPcs
  <2>8. ASSUME NEW l \in Instances, CountDown(l) PROVE TypeOK'
    BY <2>8 DEF CountDown, WorkerPcs
  <2>9. ASSUME NEW l \in Instances, NEW h \in Handlers, CallHandler(l, h) PROVE TypeOK'
    <3>1. WorkersOK'
      BY <2>9 DEF CallHandler
    <3>2. CleanerOK'
      BY <2>9 DEF CallHandler, CleanerPcs
    <3> QED
      BY <2>9, <3>1, <3>2 DEF CallHandler
  <2>10. ASSUME NEW h \in Handlers, register(h) \/ unregister(h) PROVE TypeOK'
    <3>1. PICK ids \in SUBSET Handlers : ChangeHandlers(ids)
      BY <2>10 DEF register, unregister
    <3>2. QueuesOK'
      BY <3>1 DEF ChangeHandlers
    <3>3. modified' \in [Instances -> BOOLEAN]
      BY <3>1 DEF ChangeHandlers
    <3> QED
      BY <3>1, <3>2, <3>3 DEF ChangeHandlers
  <2>11. CASE Stop
    BY <2>11 DEF Stop, CleanerPcs
  <2>12. CASE CleanItems
    <3>1. QueuesOK'
      BY <2>12 DEF CleanItems
    <3> QED
      BY <2>12, <3>1 DEF CleanItems, CleanerPcs
  <2>13. CASE CleanHandlers
    BY <2>13 DEF CleanHandlers, CleanerPcs
  <2>14. CASE CleanSize
    BY <2>14 DEF CleanSize, CleanerPcs
  <2>15. CASE Swap
    <3>1. instance + 1 \in Instances
      BY <2>15 DEF Swap, Instances
    <3>2. QueuesOK' /\ WorkersOK'
      BY <2>15, <3>1 DEF Swap, WorkerPcs
    <3>3. OnlyInstancesMade'
      BY <2>15, <3>1 DEF Swap, Instances
    <3> QED
      BY <2>15, <3>1, <3>2, <3>3 DEF Swap, CleanerPcs
  <2>16. CASE UNCHANGED vars
    BY <2>16 DEF vars
  <2> QED
    BY <2>1, <2>2, <2>3, <2>4, <2>5, <2>6, <2>7, <2>8, <2>9, <2>10, <2>11, <2>12, <2>13, <2>14, <2>15, <2>16
    DEF Next, SenderStep, WorkerStep, CleanStep
<1> QED
  BY <1>1, <1>2, PTL DEF Spec

-----------------------------------------------------------------------------
(* The events an instance was given and clean did not drop, oldest first.  *)
History(l) == polled[l] \o items[l]

(* The thread of e has begun another send since, or has ended this one.    *)
WasAdded(e) ==
    \/ e.n < sent[e.from]
    \/ e.n = sent[e.from] /\ senderPc[e.from] = "idle"

Ordered(seq) == \A i, j \in DOMAIN seq : i < j => Before(seq[i], seq[j])

(***************************************************************************)
(* HandledInOrder is not inductive: what is polled next must come after    *)
(* what was polled, and what a thread adds next after all it added.        *)
(***************************************************************************)
HistoryOK(l) ==
    /\ Ordered(History(l))
    /\ \A i \in DOMAIN History(l) : WasAdded(History(l)[i])

OrderInv == \A l \in Instances : HistoryOK(l)

(* Taking the oldest event moves it within the history.                   *)
LEMMA PollKeepsHistory ==
    \A p, q \in Seq(Event) : q # <<>> => Append(p, Head(q)) \o Tail(q) = p \o q
  OBVIOUS

(* Adding an event adds it to the history.                                 *)
LEMMA AddExtendsHistory ==
    \A p, q \in Seq(Event) : \A e \in Event : p \o Append(q, e) = Append(p \o q, e)
  OBVIOUS

(* What was polled begins the history.                                     *)
LEMMA PrefixOfHistory ==
    ASSUME NEW S, NEW p \in Seq(S), NEW q \in Seq(S), NEW i \in DOMAIN p
    PROVE  i \in DOMAIN (p \o q) /\ (p \o q)[i] = p[i]
<1>1. DOMAIN p = 1..Len(p) /\ Len(p) \in Nat /\ Len(q) \in Nat
  BY LenProperties
<1>2. DOMAIN (p \o q) = 1..(Len(p) + Len(q))
  BY ConcatProperties, LenProperties
<1> QED
  BY <1>1, <1>2, ConcatProperties

(* Appending an event that comes after all of them keeps an order.         *)
LEMMA AppendOrdered ==
    ASSUME NEW seq \in Seq(Event), NEW e \in Event, Ordered(seq),
           \A i \in DOMAIN seq : Before(seq[i], e)
    PROVE  Ordered(Append(seq, e))
  BY DEF Ordered

LEMMA OrderInvHolds == Spec => []OrderInv
<1>1. Init => OrderInv
  <2> SUFFICES ASSUME Init, NEW l \in Instances PROVE History(l) = <<>>
    BY DEF OrderInv, HistoryOK, Ordered
  <2> QED
    BY DEF Init, History
<1>2. TypeOK /\ TypeOK' /\ OrderInv /\ [Next]_vars => OrderInv'
  <2> SUFFICES ASSUME TypeOK, TypeOK', OrderInv, [Next]_vars,
                      NEW l \in Instances
               PROVE  HistoryOK(l)'
    BY DEF OrderInv, HistoryOK, Ordered
  <2>0. /\ polled[l] \in Seq(Event) /\ items[l] \in Seq(Event)
        /\ History(l) \in Seq(Event)
        /\ Ordered(History(l))
        /\ \A i \in DOMAIN History(l) : WasAdded(History(l)[i]) /\ History(l)[i] \in Event
    BY DEF TypeOK, QueuesOK, WorkersOK, History, OrderInv, HistoryOK
  (* Most steps leave the history, and what the senders have done, alone.  *)
  <2>1. ASSUME History(l)' = History(l), UNCHANGED <<sent, senderPc>>
        PROVE  HistoryOK(l)'
    BY <2>0, <2>1 DEF HistoryOK, WasAdded
  <2>2. ASSUME UNCHANGED <<items, polled, sent, senderPc>> PROVE History(l)' = History(l)
    BY <2>2 DEF History
  <2>3. ASSUME NEW s \in Senders, SendCounts(s)
        PROVE  HistoryOK(l)'
    <3>1. History(l)' = History(l)
      BY <2>3 DEF SendCounts, History, queues, workers
    <3>2. ASSUME NEW e \in Event, WasAdded(e) PROVE WasAdded(e)'
      BY <2>3, <3>2 DEF SendCounts, WasAdded, TypeOK, SendersOK, Event
    <3> QED
      BY <2>0, <3>1, <3>2 DEF HistoryOK
  <2>4. ASSUME NEW s \in Senders, SendAims(s)
        PROVE  HistoryOK(l)'
    <3>1. History(l)' = History(l)
      BY <2>4 DEF SendAims, History, queues, workers
    <3>2. ASSUME NEW e \in Event, WasAdded(e) PROVE WasAdded(e)'
      BY <2>4, <3>2 DEF SendAims, WasAdded, TypeOK, SendersOK, Event
    <3> QED
      BY <2>0, <3>1, <3>2 DEF HistoryOK
  <2>5. ASSUME NEW s \in Senders, SendAdds(s)
        PROVE  HistoryOK(l)'
    <3>1. EventOf(s) \in Event
      BY <2>5, EventOfType DEF SendAdds, TypeOK
    <3>2. ASSUME NEW e \in Event, WasAdded(e) PROVE WasAdded(e)' /\ Before(e, EventOf(s))
      BY <2>5, <3>2 DEF SendAdds, WasAdded, Before, EventOf, TypeOK, SendersOK, Event
    <3>3. \E e \in Event : e = EventOf(s) /\ WasAdded(e)'
      BY <2>5, <3>1 DEF SendAdds, WasAdded, EventOf, TypeOK, SendersOK
    <3>4. CASE l = target[s]
      <4>1. History(l)' = Append(History(l), EventOf(s))
        <5>1. items'[l] = Append(items[l], EventOf(s)) /\ polled'[l] = polled[l]
          BY <2>5, <3>4 DEF SendAdds, workers, TypeOK, QueuesOK
        <5>2. polled[l] \o Append(items[l], EventOf(s)) = Append(polled[l] \o items[l], EventOf(s))
          <6>1. polled[l] \in Seq(Event) /\ items[l] \in Seq(Event)
            BY <2>0
          <6>2. \A e \in Event : polled[l] \o Append(items[l], e) = Append(polled[l] \o items[l], e)
            BY <6>1, AddExtendsHistory, Zenon
          <6> QED
            BY <3>1, <6>2, Zenon
        <5> QED
          BY <5>1, <5>2, Zenon DEF History
      <4>2. Ordered(History(l))'
        BY <2>0, <3>1, <3>2, <4>1, AppendOrdered
      <4>3. (\A i \in DOMAIN History(l) : WasAdded(History(l)[i]))'
        <5>1. ASSUME NEW i \in DOMAIN History(l)'
              PROVE  \E e \in Event : e = History(l)'[i] /\ WasAdded(e)'
          <6>1. CASE i \in DOMAIN History(l)
            <7>1. History(l)'[i] = History(l)[i]
              BY <2>0, <3>1, <4>1, <6>1
            <7> QED
              BY <2>0, <3>2, <6>1, <7>1
          <6>2. CASE i = Len(History(l)) + 1
            <7>1. History(l)'[i] = EventOf(s)
              BY <2>0, <3>1, <4>1, <6>2
            <7> QED
              BY <3>1, <3>3, <7>1
          <6> QED
            BY <2>0, <3>1, <4>1, <5>1, <6>1, <6>2
        <5> QED
          BY <5>1
      <4> QED
        BY <4>2, <4>3 DEF HistoryOK
    <3>5. CASE l # target[s]
      <4>1. History(l)' = History(l)
        BY <2>5, <3>5 DEF SendAdds, History, workers, TypeOK, QueuesOK
      <4> QED
        BY <2>0, <3>2, <4>1 DEF HistoryOK
    <3> QED
      BY <3>4, <3>5
  <2>6. ASSUME NEW m \in Instances, Poll(m)
        PROVE  History(l)' = History(l) /\ UNCHANGED <<sent, senderPc>>
    <3>1. CASE l = m
      <4>1. items'[l] = Tail(items[l]) /\ polled'[l] = Append(polled[l], Head(items[l]))
        BY <2>6, <3>1 DEF Poll, TypeOK, QueuesOK, WorkersOK
      <4>2. items[l] # <<>> /\ UNCHANGED <<sent, senderPc>>
        BY <2>6, <3>1 DEF Poll, senders
      <4>3. Append(polled[l], Head(items[l])) \o Tail(items[l]) = polled[l] \o items[l]
        BY <2>0, <4>2, PollKeepsHistory, Zenon
      <4> QED
        BY <4>1, <4>2, <4>3 DEF History
    <3>2. CASE l # m
      BY <2>6, <3>2 DEF Poll, History, senders, TypeOK, QueuesOK, WorkersOK
    <3> QED
      BY <3>1, <3>2
  <2>7. CASE CleanItems
    <3>1. UNCHANGED <<sent, senderPc>>
      BY <2>7 DEF CleanItems, senders
    <3>2. CASE l = instance
      <4>1. History(l)' = polled[l]
        BY <2>0, <2>7, <3>2 DEF CleanItems, History, workers, TypeOK, QueuesOK
      <4>2. \A i \in DOMAIN polled[l] : i \in DOMAIN History(l) /\ polled[l][i] = History(l)[i]
        BY <2>0, PrefixOfHistory DEF History
      <4> QED
        BY <2>0, <3>1, <4>1, <4>2 DEF HistoryOK, Ordered, WasAdded
    <3>3. CASE l # instance
      <4>1. History(l)' = History(l)
        BY <2>7, <3>3 DEF CleanItems, History, workers, TypeOK, QueuesOK
      <4> QED
        BY <2>1, <3>1, <4>1
    <3> QED
      BY <3>2, <3>3
  <2>8. ASSUME NEW m \in Instances,
               NothingToPoll(m) \/ Exit(m) \/ Handled(m) \/ CountDown(m)
                 \/ \E h \in Handlers : CallHandler(m, h)
        PROVE  UNCHANGED <<items, polled, sent, senderPc>>
    BY <2>8 DEF NothingToPoll, Exit, Handled, CountDown, CallHandler, queues, senders, workers
  <2>9. ASSUME NEW h \in Handlers, register(h) \/ unregister(h)
        PROVE  UNCHANGED <<items, polled, sent, senderPc>>
    BY <2>9 DEF register, unregister, ChangeHandlers, senders
  <2>10. ASSUME Stop \/ CleanHandlers \/ CleanSize \/ Swap \/ UNCHANGED vars
         PROVE  UNCHANGED <<items, polled, sent, senderPc>>
    BY <2>10 DEF Stop, CleanHandlers, CleanSize, Swap, vars, queues, workers, senders
  <2> QED
    BY <2>1, <2>2, <2>3, <2>4, <2>5, <2>6, <2>7, <2>8, <2>9, <2>10
    DEF Next, SenderStep, WorkerStep, CleanStep
<1> QED
  BY <1>1, <1>2, TypeCorrect, PTL DEF Spec

(* The events of one thread are taken in the order the thread sent them,   *)
(* by whatever worker takes them and however often the queue is cleaned.   *)
THEOREM OrderCorrect == Spec => []HandledInOrder
<1>1. TypeOK /\ OrderInv => HandledInOrder
  <2> SUFFICES ASSUME TypeOK, OrderInv, NEW l \in Instances,
                      NEW i \in DOMAIN polled[l], NEW j \in DOMAIN polled[l], i < j
               PROVE  Before(polled[l][i], polled[l][j])
    BY DEF HandledInOrder
  <2>1. polled[l] \in Seq(Event) /\ items[l] \in Seq(Event)
    BY DEF TypeOK, QueuesOK, WorkersOK
  <2>2. /\ i \in DOMAIN History(l) /\ History(l)[i] = polled[l][i]
        /\ j \in DOMAIN History(l) /\ History(l)[j] = polled[l][j]
    BY <2>1, PrefixOfHistory DEF History
  <2> QED
    BY <2>2 DEF OrderInv, HistoryOK, Ordered
<1> QED
  BY <1>1, OrderInvHolds, TypeCorrect, PTL

-----------------------------------------------------------------------------
(***************************************************************************)
(* IsEmptyMeansIdle is not inductive: size must be known to count, one for *)
(* one, the events that wait, the threads inside send and the event in the *)
(* hands of the worker.                                                    *)
(***************************************************************************)
InTheWorker == IF Busy(1) THEN 1 ELSE 0

SizeCounts ==
    Pristine => size = Len(items[1]) + Cardinality(Sending) + InTheWorker

(* Until the first clean, a queue that says it is empty has handled every  *)
(* event that any thread has begun to send.                                *)
THEOREM SizeCorrect == Spec => []IsEmptyMeansIdle
<1>1. Init => SizeCounts
  <2> SUFFICES ASSUME Init PROVE size = Len(items[1]) + Cardinality(Sending) + InTheWorker
    BY DEF SizeCounts
  <2>1. Sending = {} /\ Cardinality(Sending) = 0
    BY FS_EmptySet DEF Init, Sending
  <2>2. 1 \in Instances
    BY ConstantsAssumption DEF Instances
  <2>3. items[1] = <<>> /\ InTheWorker = 0 /\ size = 0
    BY <2>2 DEF Init, InTheWorker, Busy
  <2> QED
    BY <2>1, <2>3
<1>2. TypeOK /\ TypeOK' /\ SizeCounts /\ [Next]_vars => SizeCounts'
  <2> DEFINE Total == Len(items[1]) + Cardinality(Sending) + InTheWorker
  <2> SUFFICES ASSUME TypeOK, TypeOK', SizeCounts, [Next]_vars, Pristine'
               PROVE  size' = Total'
    BY DEF SizeCounts
  <2>0. IsFiniteSet(Sending) /\ Cardinality(Sending) \in Nat /\ 1 \in Instances
    BY ConstantsAssumption, FS_Subset, FS_CardinalityType DEF Sending, Instances
  <2>1. /\ size \in Int /\ items[1] \in Seq(Event) /\ Len(items[1]) \in Nat
        /\ items \in [Instances -> Seq(Event)]
        /\ workerPc \in [Instances -> WorkerPcs]
        /\ senderPc \in [Senders -> SenderPcs]
        /\ InTheWorker \in {0, 1}
    BY <2>0 DEF TypeOK, CountersOK, QueuesOK, WorkersOK, SendersOK, InTheWorker
  (* While there is one instance, one worker runs and all sends aim at it. *)
  <2>2. ASSUME Pristine
        PROVE  /\ size = Total
               /\ \A l \in Instances : workerPc[l] # "unborn" => l = 1
               /\ \A s \in Senders : target[s] = 1
    BY <2>2 DEF SizeCounts, Pristine, TypeOK, OnlyInstancesMade, SendersOK, Instances
  <2>3. ASSUME Pristine, UNCHANGED <<size, items, senderPc>>, Busy(1)' = Busy(1) PROVE size' = Total'
    BY <2>2, <2>3 DEF InTheWorker, Sending
  <2>4. ASSUME NEW s \in Senders, SendCounts(s) PROVE size' = Total'
    <3>1. Pristine
      BY <2>4 DEF SendCounts, Pristine, cleaner
    <3>2. Sending' = Sending \cup {s} /\ s \notin Sending
      BY <2>1, <2>4 DEF SendCounts, Sending
    <3>3. Cardinality(Sending') = Cardinality(Sending) + 1
      BY <2>0, <3>2, FS_AddElement
    <3>4. InTheWorker' = InTheWorker /\ items' = items /\ size' = size + 1
      BY <2>4 DEF SendCounts, InTheWorker, Busy, queues, workers
    <3> QED
      BY <2>0, <2>1, <2>2, <3>1, <3>3, <3>4
  <2>5. ASSUME NEW s \in Senders, SendAims(s) PROVE size' = Total'
    <3>1. Pristine
      BY <2>5 DEF SendAims, Pristine, counters, cleaner
    <3>2. Sending' = Sending
      BY <2>1, <2>5 DEF SendAims, Sending
    <3>3. InTheWorker' = InTheWorker /\ items' = items /\ size' = size
      BY <2>5 DEF SendAims, InTheWorker, Busy, counters, queues, workers
    <3> QED
      BY <2>2, <3>1, <3>2, <3>3
  <2>6. ASSUME NEW s \in Senders, SendAdds(s) PROVE size' = Total'
    <3>1. Pristine
      BY <2>6 DEF SendAdds, Pristine, counters, cleaner
    <3>2. Sending' = Sending \ {s} /\ s \in Sending
      BY <2>1, <2>6 DEF SendAdds, Sending
    <3>3. Cardinality(Sending') = Cardinality(Sending) - 1
      BY <2>0, <3>2, FS_RemoveElement
    <3>4. EventOf(s) \in Event
      BY <2>6, EventOfType DEF SendAdds, TypeOK
    <3>5. items'[1] = Append(items[1], EventOf(s))
      BY <2>0, <2>1, <2>2, <2>6, <3>1 DEF SendAdds
    <3>6. Len(items'[1]) = Len(items[1]) + 1
      BY <2>1, <3>4, <3>5
    <3>7. InTheWorker' = InTheWorker /\ size' = size
      BY <2>6 DEF SendAdds, InTheWorker, Busy, counters, workers
    <3> QED
      BY <2>0, <2>1, <2>2, <3>1, <3>3, <3>6, <3>7
  <2>7. ASSUME NEW l \in Instances, Poll(l) PROVE size' = Total'
    <3>1. Pristine
      BY <2>7 DEF Poll, Pristine, counters, cleaner
    <3>2. l = 1
      BY <2>2, <2>7, <3>1 DEF Poll
    <3>3. items'[1] = Tail(items[1]) /\ items[1] # <<>>
      BY <2>0, <2>1, <2>7, <3>2 DEF Poll
    <3>4. Len(items'[1]) = Len(items[1]) - 1
      BY <2>1, <3>3
    <3>5. InTheWorker = 0 /\ InTheWorker' = 1
      BY <2>0, <2>1, <2>7, <3>2 DEF Poll, InTheWorker, Busy
    <3>6. Sending' = Sending /\ size' = size
      BY <2>7 DEF Poll, Sending, counters, senders
    <3> QED
      BY <2>0, <2>1, <2>2, <3>1, <3>4, <3>5, <3>6
  <2>8. ASSUME NEW l \in Instances, CountDown(l) PROVE size' = Total'
    <3>1. Pristine
      BY <2>8 DEF CountDown, Pristine, cleaner
    <3>2. l = 1
      BY <2>2, <2>8, <3>1 DEF CountDown
    <3>3. InTheWorker = 1 /\ InTheWorker' = 0
      BY <2>0, <2>1, <2>8, <3>2 DEF CountDown, InTheWorker, Busy
    <3>4. Sending' = Sending /\ size' = size - 1 /\ items' = items
      BY <2>8 DEF CountDown, Sending, queues, senders
    <3> QED
      BY <2>0, <2>1, <2>2, <3>1, <3>3, <3>4
  <2>9. ASSUME NEW l \in Instances, NothingToPoll(l) \/ Exit(l) \/ Handled(l) PROVE size' = Total'
    <3>1. Pristine /\ UNCHANGED <<size, items, senderPc>>
      BY <2>9 DEF NothingToPoll, Exit, Handled, Pristine, counters, queues, senders, cleaner
    <3>2. Busy(1)' = Busy(1)
      BY <2>0, <2>1, <2>9 DEF NothingToPoll, Exit, Handled, Busy
    <3> QED
      BY <2>3, <3>1, <3>2
  <2>10. ASSUME NEW l \in Instances, NEW h \in Handlers, CallHandler(l, h) PROVE size' = Total'
    BY <2>3, <2>10 DEF CallHandler, Pristine, Busy, counters, queues, senders, cleaner
  <2>11. ASSUME NEW h \in Handlers, register(h) \/ unregister(h) PROVE size' = Total'
    BY <2>3, <2>11 DEF register, unregister, ChangeHandlers, Pristine, Busy, counters, senders, cleaner
  <2>12. ASSUME Stop \/ CleanItems \/ CleanHandlers \/ CleanSize PROVE FALSE
    BY <2>12 DEF Stop, CleanItems, CleanHandlers, CleanSize, Pristine
  <2>13. ASSUME Swap PROVE FALSE
    BY <2>13 DEF Swap, Pristine, TypeOK, CountersOK, Instances
  <2>14. CASE UNCHANGED vars
    BY <2>3, <2>14 DEF vars, Pristine, Busy, counters, queues, workers, senders, cleaner
  <2> QED
    BY <2>4, <2>5, <2>6, <2>7, <2>8, <2>9, <2>10, <2>11, <2>12, <2>13, <2>14
    DEF Next, SenderStep, WorkerStep, CleanStep
<1>3. TypeOK /\ SizeCounts => IsEmptyMeansIdle
  <2> SUFFICES ASSUME TypeOK, SizeCounts, Pristine, size = 0
               PROVE  items[1] = <<>> /\ Sending = {} /\ ~Busy(1)
    BY DEF IsEmptyMeansIdle
  <2>0. IsFiniteSet(Sending) /\ Cardinality(Sending) \in Nat /\ 1 \in Instances
    BY ConstantsAssumption, FS_Subset, FS_CardinalityType DEF Sending, Instances
  <2>1. items[1] \in Seq(Event) /\ Len(items[1]) \in Nat
    BY <2>0 DEF TypeOK, QueuesOK
  <2>2. Len(items[1]) = 0 /\ Cardinality(Sending) = 0 /\ InTheWorker = 0
    BY <2>0, <2>1 DEF SizeCounts, InTheWorker
  <2> QED
    BY <2>0, <2>1, <2>2, FS_EmptySet DEF InTheWorker
<1> QED
  BY <1>1, <1>2, <1>3, TypeCorrect, PTL DEF Spec
=============================================================================
