------------------------ MODULE EventDeliveryProofs ------------------------
(***************************************************************************)
(* EventsQueue implements EventDelivery: every step of the queue is a step *)
(* of it or changes nothing it speaks of.                                  *)
(***************************************************************************)
EXTENDS EventsQueueProofs

(***************************************************************************)
(* That no event is handled twice, by one instance after the other, is not *)
(* inductive: what waits in one instance must not be in the history of     *)
(* another.  Within an instance the order tells events apart (OrderInv).   *)
(***************************************************************************)
Apart(k, l) ==
    \A i \in DOMAIN History(k) : \A j \in DOMAIN History(l) :
        ~Delivery!Same(History(k)[i], History(l)[j])

ApartInv == \A k, l \in Instances : k # l => Apart(k, l)

LEMMA HistoryType ==
    ASSUME TypeOK, NEW l \in Instances
    PROVE  /\ polled[l] \in Seq(Event) /\ items[l] \in Seq(Event) /\ History(l) \in Seq(Event)
           /\ \A i \in DOMAIN History(l) : History(l)[i] \in Event
  BY DEF TypeOK, QueuesOK, WorkersOK, History

(* What was polled is the beginning of a history; the first item follows.  *)
LEMMA PolledInHistory ==
    ASSUME TypeOK, NEW l \in Instances, NEW i \in DOMAIN polled[l]
    PROVE  i \in DOMAIN History(l) /\ History(l)[i] = polled[l][i] /\ polled[l][i] \in Event
<1>1. polled[l] \in Seq(Event) /\ items[l] \in Seq(Event)
  BY HistoryType
<1>2. i \in DOMAIN (polled[l] \o items[l]) /\ (polled[l] \o items[l])[i] = polled[l][i]
  BY <1>1, PrefixOfHistory
<1>3. polled[l][i] \in Event
  BY <1>1
<1> QED
  BY <1>2, <1>3, Zenon DEF History

LEMMA HeadFollows ==
    ASSUME NEW p \in Seq(Event), NEW q \in Seq(Event), q # <<>>
    PROVE  Len(p) + 1 \in DOMAIN (p \o q) /\ (p \o q)[Len(p) + 1] = Head(q)
<1>1. Len(p) \in Nat /\ Len(q) \in Nat /\ Len(q) >= 1 /\ Head(q) = q[1]
  BY LenProperties, EmptySeq, HeadTailProperties
<1>2. Len(p \o q) = Len(p) + Len(q) /\ DOMAIN (p \o q) = 1..(Len(p) + Len(q))
  BY ConcatProperties, LenProperties
<1>3. (p \o q)[Len(p) + 1] = q[Len(p) + 1 - Len(p)]
  BY <1>1, ConcatProperties
<1>4. Len(p) + 1 - Len(p) = 1 /\ Len(p) + 1 \in 1..(Len(p) + Len(q))
  BY <1>1
<1> QED
  BY <1>1, <1>2, <1>3, <1>4

(* The three steps that touch the queues, and what they do to a history.   *)
LEMMA PollHistory ==
    ASSUME TypeOK, NEW m \in Instances, Poll(m), NEW l \in Instances
    PROVE  History(l)' = History(l)
<1>1. CASE l = m
  <2>1. items'[l] = Tail(items[l]) /\ polled'[l] = Append(polled[l], Head(items[l]))
    BY <1>1 DEF Poll, TypeOK, QueuesOK, WorkersOK
  <2>2. items[l] # <<>>
    BY <1>1 DEF Poll
  <2>3. Append(polled[l], Head(items[l])) \o Tail(items[l]) = polled[l] \o items[l]
    BY <2>2, HistoryType, PollKeepsHistory, Zenon
  <2> QED
    BY <2>1, <2>3 DEF History
<1>2. CASE l # m
  BY <1>2 DEF Poll, History, TypeOK, QueuesOK, WorkersOK
<1> QED
  BY <1>1, <1>2

LEMMA CleanHistory ==
    ASSUME TypeOK, CleanItems, NEW l \in Instances
    PROVE  \A i \in DOMAIN History(l)' : i \in DOMAIN History(l) /\ History(l)'[i] = History(l)[i]
<1>1. CASE l = instance
  <2>1. History(l)' = polled[l]
    BY <1>1, HistoryType DEF CleanItems, History, workers, TypeOK, QueuesOK
  <2> QED
    BY <2>1, PolledInHistory
<1>2. CASE l # instance
  BY <1>2 DEF CleanItems, History, workers, TypeOK, QueuesOK
<1> QED
  BY <1>1, <1>2

LEMMA AddHistory ==
    ASSUME TypeOK, NEW s \in Senders, SendAdds(s), NEW l \in Instances
    PROVE  \A i \in DOMAIN History(l)' :
              \/ i \in DOMAIN History(l) /\ History(l)'[i] = History(l)[i]
              \/ l = target[s] /\ History(l)'[i] = EventOf(s)
<1>0. EventOf(s) \in Event
  BY EventOfType DEF SendAdds, TypeOK
<1>1. CASE l = target[s]
  <2>1. items'[l] = Append(items[l], EventOf(s)) /\ polled'[l] = polled[l]
    BY <1>1 DEF SendAdds, workers, TypeOK, QueuesOK
  <2>2. polled[l] \o Append(items[l], EventOf(s)) = Append(polled[l] \o items[l], EventOf(s))
    <3>1. polled[l] \in Seq(Event) /\ items[l] \in Seq(Event)
      BY HistoryType
    <3>2. \A e \in Event : polled[l] \o Append(items[l], e) = Append(polled[l] \o items[l], e)
      BY <3>1, AddExtendsHistory, Zenon
    <3> QED
      BY <1>0, <3>2, Zenon
  <2>3. History(l)' = Append(History(l), EventOf(s))
    BY <2>1, <2>2, Zenon DEF History
  <2> QED
    BY <1>0, <1>1, <2>3, HistoryType
<1>2. CASE l # target[s]
  BY <1>2 DEF SendAdds, History, workers, TypeOK, QueuesOK
<1> QED
  BY <1>1, <1>2

(* What a thread is about to add is in no history.                         *)
LEMMA AddIsNew ==
    ASSUME TypeOK, OrderInv, NEW s \in Senders, SendAdds(s), NEW l \in Instances
    PROVE  \A i \in DOMAIN History(l) : /\ ~Delivery!Same(History(l)[i], EventOf(s))
                                        /\ ~Delivery!Same(EventOf(s), History(l)[i])
<1>1. ASSUME NEW e \in Event, WasAdded(e)
      PROVE  ~Delivery!Same(e, EventOf(s)) /\ ~Delivery!Same(EventOf(s), e)
  BY <1>1 DEF SendAdds, WasAdded, EventOf, Delivery!Same, TypeOK, SendersOK, Event
<1> QED
  BY <1>1, HistoryType DEF OrderInv, HistoryOK

-----------------------------------------------------------------------------
LEMMA ApartInvHolds == Spec => []ApartInv
<1>1. Init => ApartInv
  <2> SUFFICES ASSUME Init, NEW l \in Instances PROVE History(l) = <<>>
    BY DEF ApartInv, Apart
  <2> QED
    BY DEF Init, History
<1>2. TypeOK /\ OrderInv /\ ApartInv /\ [Next]_vars => ApartInv'
  <2> SUFFICES ASSUME TypeOK, OrderInv, ApartInv, [Next]_vars,
                      NEW k \in Instances, NEW l \in Instances, k # l,
                      NEW i \in DOMAIN History(k)', NEW j \in DOMAIN History(l)'
               PROVE  ~Delivery!Same(History(k)'[i], History(l)'[j])
    BY DEF ApartInv, Apart, Delivery!Same
  (* Most steps leave the histories alone, or cut them.                    *)
  <2>1. ASSUME \A m \in Instances : \A n \in DOMAIN History(m)' :
                  n \in DOMAIN History(m) /\ History(m)'[n] = History(m)[n]
        PROVE  ~Delivery!Same(History(k)'[i], History(l)'[j])
    BY <2>1 DEF ApartInv, Apart
  <2>2. ASSUME UNCHANGED <<items, polled>>
        PROVE  ~Delivery!Same(History(k)'[i], History(l)'[j])
    BY <2>1, <2>2 DEF History
  <2>3. ASSUME NEW s \in Senders, SendCounts(s) \/ SendAims(s) PROVE UNCHANGED <<items, polled>>
    BY <2>3 DEF SendCounts, SendAims, queues, workers
  <2>4. ASSUME NEW s \in Senders, SendAdds(s)
        PROVE  ~Delivery!Same(History(k)'[i], History(l)'[j])
    <3>1. \/ i \in DOMAIN History(k) /\ History(k)'[i] = History(k)[i]
          \/ k = target[s] /\ History(k)'[i] = EventOf(s)
      BY <2>4, AddHistory
    <3>2. \/ j \in DOMAIN History(l) /\ History(l)'[j] = History(l)[j]
          \/ l = target[s] /\ History(l)'[j] = EventOf(s)
      BY <2>4, AddHistory
    <3> QED
      BY <2>4, <3>1, <3>2, AddIsNew DEF ApartInv, Apart
  <2>5. ASSUME NEW m \in Instances, Poll(m)
        PROVE  ~Delivery!Same(History(k)'[i], History(l)'[j])
    BY <2>1, <2>5, PollHistory
  <2>6. ASSUME CleanItems PROVE ~Delivery!Same(History(k)'[i], History(l)'[j])
    BY <2>1, <2>6, CleanHistory
  <2>7. ASSUME NEW m \in Instances,
               NothingToPoll(m) \/ Exit(m) \/ Handled(m) \/ CountDown(m)
                 \/ \E h \in Handlers : CallHandler(m, h)
        PROVE  UNCHANGED <<items, polled>>
    BY <2>7 DEF NothingToPoll, Exit, Handled, CountDown, CallHandler, queues, workers
  <2>8. ASSUME NEW h \in Handlers, register(h) \/ unregister(h) PROVE UNCHANGED <<items, polled>>
    BY <2>8 DEF register, unregister, ChangeHandlers
  <2>9. ASSUME Stop \/ CleanHandlers \/ CleanSize \/ Swap \/ UNCHANGED vars
        PROVE  UNCHANGED <<items, polled>>
    BY <2>9 DEF Stop, CleanHandlers, CleanSize, Swap, vars, queues, workers
  <2> QED
    BY <2>2, <2>3, <2>4, <2>5, <2>6, <2>7, <2>8, <2>9
    DEF Next, SenderStep, WorkerStep, CleanStep
<1> QED
  BY <1>1, <1>2, TypeCorrect, OrderInvHolds, PTL DEF Spec

-----------------------------------------------------------------------------
(* Taking an event from the items is handling it in EventDelivery: it was  *)
(* sent, no instance has handled it, and this one nothing later.           *)
LEMMA PollHandles ==
    ASSUME TypeOK, OrderInv, ApartInv, NEW l \in Instances, Poll(l)
    PROVE  Delivery!Next
<1> DEFINE e  == Head(items[l])
           at == Len(polled[l]) + 1
<1>1. /\ polled[l] \in Seq(Event) /\ items[l] \in Seq(Event) /\ items[l] # <<>>
      /\ e \in Event /\ Len(polled[l]) \in Nat /\ DOMAIN polled[l] = 1..Len(polled[l])
  BY HistoryType DEF Poll
<1>2. at \in DOMAIN History(l) /\ History(l)[at] = e
  BY <1>1, HeadFollows, Zenon DEF History
<1>3. WasAdded(e)
  BY <1>2 DEF OrderInv, HistoryOK
<1>4. e.from \in Senders /\ e.n \in 1..sent[e.from] /\ e.quit \in BOOLEAN
      /\ e = [from |-> e.from, n |-> e.n, quit |-> e.quit]
  BY <1>1, <1>3 DEF WasAdded, Event, TypeOK, SendersOK
<1>5. l <= instance
  BY DEF Poll, TypeOK, OnlyInstancesMade, CountersOK, Instances
<1>6. ASSUME NEW k \in Instances, NEW i \in DOMAIN polled[k]
      PROVE  i \in DOMAIN History(k) /\ History(k)[i] = polled[k][i] /\ polled[k][i] \in Event
  BY <1>6, PolledInHistory
<1>7. ASSUME NEW i \in DOMAIN polled[l] PROVE Delivery!Before(polled[l][i], e)
  <2>1. i < at
    BY <1>1
  <2>2. Before(polled[l][i], e)
    BY <1>2, <1>6, <2>1 DEF OrderInv, HistoryOK, Ordered
  <2> QED
    BY <2>2 DEF Before, Delivery!Before
<1>8. ASSUME NEW k \in Instances, NEW i \in DOMAIN polled[k] PROVE ~Delivery!Same(polled[k][i], e)
  <2>1. CASE k = l
    <3>1. Delivery!Before(polled[k][i], e)
      BY <1>7, <2>1
    <3>2. polled[k][i].n \in Int
      BY <1>6 DEF Event
    <3> QED
      BY <1>1, <3>1, <3>2 DEF Delivery!Before, Delivery!Same, Event
  <2>2. CASE k # l
    BY <1>2, <1>6, <2>2 DEF ApartInv, Apart
  <2> QED
    BY <2>1, <2>2
<1>9. polled' = [polled EXCEPT ![l] = Append(@, e)] /\ UNCHANGED <<sent, instance>>
  BY DEF Poll, counters, senders
<1> HIDE DEF e, at
<1>10. Delivery!Handle(l, e)
  BY <1>4, <1>5, <1>7, <1>8, <1>9 DEF Delivery!Handle
<1> QED
  BY <1>4, <1>10 DEF Delivery!Next

(* The queue delivers what EventDelivery promises, for any number of       *)
(* threads, events, handlers and cleans: each event is handled at most     *)
(* once by all the instances together, after it was sent, and each         *)
(* instance keeps the order of every thread.                               *)
THEOREM DeliveryImplemented == Spec => ImplementsDelivery
<1>1. Init => Delivery!Init
  BY DEF Init, Delivery!Init
<1>2. TypeOK /\ OrderInv /\ ApartInv /\ [Next]_vars => [Delivery!Next]_(Delivery!vars)
  <2> SUFFICES ASSUME TypeOK, OrderInv, ApartInv, [Next]_vars
               PROVE  Delivery!Next \/ UNCHANGED <<sent, instance, polled>>
    BY DEF Delivery!vars
  <2>1. ASSUME NEW s \in Senders, SendCounts(s) PROVE Delivery!Next
    <3>1. Delivery!Send(s)
      BY <2>1 DEF SendCounts, Delivery!Send, workers
    <3> QED
      BY <3>1 DEF Delivery!Next
  <2>2. ASSUME NEW s \in Senders, SendAims(s) \/ SendAdds(s)
        PROVE  UNCHANGED <<sent, instance, polled>>
    BY <2>2 DEF SendAims, SendAdds, counters, workers
  <2>3. ASSUME NEW l \in Instances, Poll(l) PROVE Delivery!Next
    BY <2>3, PollHandles
  <2>4. ASSUME NEW l \in Instances,
               NothingToPoll(l) \/ Exit(l) \/ Handled(l) \/ CountDown(l)
                 \/ \E h \in Handlers : CallHandler(l, h)
        PROVE  UNCHANGED <<sent, instance, polled>>
    BY <2>4 DEF NothingToPoll, Exit, Handled, CountDown, CallHandler, counters, workers, senders
  <2>5. ASSUME NEW h \in Handlers, register(h) \/ unregister(h)
        PROVE  UNCHANGED <<sent, instance, polled>>
    BY <2>5 DEF register, unregister, ChangeHandlers, counters, senders
  <2>6. ASSUME Swap PROVE Delivery!Next
    <3>1. instance + 1 \in Instances
      BY <2>6, ConstantsAssumption DEF Swap, TypeOK, CountersOK, CleanerOK, Instances
    <3>2. Delivery!Clean
      BY <2>6, <3>1 DEF Swap, Delivery!Clean, senders
    <3> QED
      BY <3>2 DEF Delivery!Next
  <2>7. ASSUME Stop \/ CleanItems \/ CleanHandlers \/ CleanSize \/ UNCHANGED vars
        PROVE  UNCHANGED <<sent, instance, polled>>
    BY <2>7 DEF Stop, CleanItems, CleanHandlers, CleanSize, vars, counters, workers, senders
  <2> QED
    BY <2>1, <2>2, <2>3, <2>4, <2>5, <2>6, <2>7
    DEF Next, SenderStep, WorkerStep, CleanStep
<1> QED
  BY <1>1, <1>2, TypeCorrect, OrderInvHolds, ApartInvHolds, PTL
  DEF Spec, ImplementsDelivery, Delivery!Spec
=============================================================================
