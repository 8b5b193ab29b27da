---------------------------- MODULE EventDelivery ----------------------------
(***************************************************************************)
(* What the event queue promises the threads that send, without saying how *)
(* it keeps events: each event is handled at most once, by one of the      *)
(* queues that succeed one another, and a queue handles the events of a    *)
(* thread in the order they were sent.  Cleaning may lose events, so an    *)
(* event need not be handled.                                              *)
(***************************************************************************)
EXTENDS Integers, Sequences

CONSTANTS
    Senders,        \* threads that send
    Instances       \* queues that may succeed one another: 1, 2, ...

VARIABLES
    sent,           \* sender |-> events it has sent or begun to send
    instance,       \* the current queue
    handled         \* queue |-> the events it handled, in order

vars == <<sent, instance, handled>>

Same(a, b)   == a.from = b.from /\ a.n = b.n
Before(a, b) == a.from = b.from => a.n < b.n

Init ==
    /\ sent = [s \in Senders |-> 0]
    /\ instance = 1
    /\ handled = [l \in Instances |-> <<>>]

Send(s) ==
    /\ sent' = [sent EXCEPT ![s] = @ + 1]
    /\ UNCHANGED <<instance, handled>>

Handle(l, e) ==
    /\ l <= instance
    /\ e.n <= sent[e.from]
    /\ \A k \in Instances : \A i \in DOMAIN handled[k] : ~Same(handled[k][i], e)
    /\ \A i \in DOMAIN handled[l] : Before(handled[l][i], e)
    /\ handled' = [handled EXCEPT ![l] = Append(@, e)]
    /\ UNCHANGED <<sent, instance>>

Clean ==
    /\ instance + 1 \in Instances
    /\ instance' = instance + 1
    /\ UNCHANGED <<sent, handled>>

Next ==
    \/ \E s \in Senders : Send(s)
    \/ \E l \in Instances : \E s \in Senders : \E n \in 1..sent[s] : \E q \in BOOLEAN :
        Handle(l, [from |-> s, n |-> n, quit |-> q])
    \/ Clean

Spec == Init /\ [][Next]_vars
=============================================================================
