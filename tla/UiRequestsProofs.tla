-------------------------- MODULE UiRequestsProofs --------------------------
(***************************************************************************)
(* Notifications and their timers, for any requests and any number of      *)
(* clicks.                                                                 *)
(***************************************************************************)
EXTENDS UiRequests, TLAPS

Requests == Calls \cup Loads

(* A request that has not ended has no notification: so a notification is  *)
(* shown at most once.                                                     *)
NotedOnce == \A n \in Notes : note[n] # "none" => request[n.of] \notin {"new", "sent"}

(* The timer that removes a notification runs only once it was closed.     *)
RemovedClosed == \A n \in Notes : removals[n] > 0 => note[n] \in {"fading", "gone"}

IInv == TypeOK /\ TimerForEveryNote /\ NotedOnce /\ RemovedClosed

-----------------------------------------------------------------------------
(* A notification is told by its request and its type.                     *)
LEMMA NoteInNotes ==
  ASSUME NEW r \in Requests, NEW type \in {"info", "error"}
  PROVE  Note(r, type) \in Notes /\ Note(r, type).of = r /\ Note(r, type).type = type
  BY DEF Note, Notes, Requests

LEMMA NoteOfRequest == \A n \in Notes : n.of \in Requests /\ n.type \in {"info", "error"}
  BY DEF Notes, Requests

LEMMA InitInv == Init => IInv
  <1> SUFFICES ASSUME Init PROVE IInv
    OBVIOUS
  <1>1. 0 \in 0..MaxClicks
    BY RequestsAssumption
  <1>2. TypeOK
    BY <1>1 DEF Init, TypeOK, Callbacks
  <1>3. TimerForEveryNote /\ NotedOnce /\ RemovedClosed
    BY DEF Init, TimerForEveryNote, NotedOnce, RemovedClosed
  <1> QED BY <1>2, <1>3 DEF IInv

-----------------------------------------------------------------------------
(* A notification is closed, by a click or its timer.                      *)
LEMMA CloseInv ==
  ASSUME NEW n \in Notes, IInv, note[n] \in {"shown", "fading"}, close(n),
         clicks' \in 0..MaxClicks, UNCHANGED <<ready, request, callback>>
  PROVE  IInv'
  <1>1. TypeOK'
    BY DEF IInv, TypeOK, close
  <1>2. TimerForEveryNote'
    BY DEF IInv, TypeOK, TimerForEveryNote, close
  <1>3. \A m \in Notes : note'[m] # "none" <=> note[m] # "none"
    BY DEF IInv, TypeOK, close
  <1>4. NotedOnce'
    BY <1>3 DEF IInv, NotedOnce
  <1>5. RemovedClosed'
    BY DEF IInv, TypeOK, RemovedClosed, close
  <1> QED BY <1>1, <1>2, <1>4, <1>5 DEF IInv

LEMMA RemoveInv == ASSUME NEW n \in Notes, IInv, Remove(n) PROVE IInv'
  <1>0. note[n] \in {"fading", "gone"}
    BY DEF IInv, RemovedClosed, Remove
  <1>1. TypeOK'
    BY DEF IInv, TypeOK, Remove
  <1>2. TimerForEveryNote'
    BY <1>0 DEF IInv, TypeOK, TimerForEveryNote, Remove
  <1>3. \A m \in Notes : note'[m] # "none" <=> note[m] # "none"
    BY <1>0 DEF IInv, TypeOK, Remove
  <1>4. NotedOnce'
    BY <1>3 DEF IInv, NotedOnce, Remove
  <1>5. RemovedClosed'
    BY DEF IInv, TypeOK, RemovedClosed, Remove
  <1> QED BY <1>1, <1>2, <1>4, <1>5 DEF IInv

(***************************************************************************)
(* The request r ends as "ended" and the task that ends it shows the       *)
(* notifications ns, on a page that is ready.                              *)
(***************************************************************************)
LEMMA EndInv ==
  ASSUME NEW r \in Requests, NEW ended \in {"ok", "missing", "failed"}, NEW ns \in SUBSET Notes,
         IInv, request[r] = "sent",
         request' = [request EXCEPT ![r] = ended],
         show(ns),
         \A n \in ns : n.of = r,
         ns # {} => ready,
         UNCHANGED <<ready, callback>>
  PROVE  IInv'
  <1>0. /\ \A n \in Notes : note'[n] = IF n \in ns THEN "shown" ELSE note[n]
        /\ closing' = closing \cup ns
        /\ UNCHANGED <<removals, clicks>>
        /\ \A n \in ns : note[n] = "none"
    BY DEF IInv, NotedOnce, show
  <1>a. \A x \in Requests : request'[x] = IF x = r THEN ended ELSE request[x]
    BY DEF IInv, TypeOK, Requests
  <1>1. TypeOK'
    <2>1. request' \in [Calls \cup Loads -> {"new", "sent", "ok", "missing", "failed", "lost"}]
      BY DEF IInv, TypeOK
    <2>2. note' \in [Notes -> {"none", "shown", "fading", "gone"}]
      BY DEF IInv, TypeOK, show
    <2> QED BY <1>0, <2>1, <2>2 DEF IInv, TypeOK
  <1>2. TimerForEveryNote'
    BY <1>0 DEF IInv, TimerForEveryNote
  <1>3. NotedOnce'
    BY <1>0, <1>a, NoteOfRequest DEF IInv, NotedOnce
  <1>4. RemovedClosed'
    BY <1>0 DEF IInv, RemovedClosed
  <1> QED BY <1>1, <1>2, <1>3, <1>4 DEF IInv

(* A request is made: it has not ended, before and after.                  *)
LEMMA SentInv ==
  ASSUME NEW r \in Requests, IInv, request[r] = "new", request' = [request EXCEPT ![r] = "sent"],
         callback' \in [Calls -> Callbacks], UNCHANGED <<ready, onpage>>
  PROVE  IInv'
  <1>1. TypeOK' /\ TimerForEveryNote' /\ RemovedClosed'
    BY DEF IInv, TypeOK, TimerForEveryNote, RemovedClosed, onpage
  <1>2. \A x \in Requests : request'[x] = IF x = r THEN "sent" ELSE request[x]
    BY DEF IInv, TypeOK, Requests
  <1>3. NotedOnce'
    BY <1>2, NoteOfRequest DEF IInv, NotedOnce, onpage
  <1> QED BY <1>1, <1>3 DEF IInv

(* The page is loaded again: its requests are lost, its notifications gone. *)
LEMMA ReloadInv == ASSUME NEW c \in Calls, IInv, locationReload(c) PROVE IInv'
  <1>1. \A x \in Requests : request'[x] = IF x = c THEN "ok"
                                         ELSE IF request[x] = "sent" THEN "lost" ELSE request[x]
    BY DEF IInv, TypeOK, Requests, locationReload
  <1>2. /\ \A n \in Notes : note'[n] = IF note[n] = "none" THEN "none" ELSE "gone"
        /\ closing' = {} /\ \A n \in Notes : removals'[n] = 0
        /\ request[c] = "sent"
    BY DEF locationReload
  <1>3. TypeOK'
    <2>1. request' \in [Calls \cup Loads -> {"new", "sent", "ok", "missing", "failed", "lost"}]
      BY DEF IInv, TypeOK, locationReload
    <2>2. note' \in [Notes -> {"none", "shown", "fading", "gone"}] /\ removals' \in [Notes -> Nat]
      BY DEF locationReload
    <2>3. \A n \in Notes : note'[n] \notin {"shown", "fading"}
      BY <1>2
    <2> QED BY <2>1, <2>2, <2>3 DEF IInv, TypeOK, locationReload
  <1>4. TimerForEveryNote' /\ RemovedClosed'
    BY <1>2 DEF TimerForEveryNote, RemovedClosed
  <1>5. NotedOnce'
    BY <1>1, <1>2, NoteOfRequest DEF IInv, NotedOnce
  <1> QED BY <1>3, <1>4, <1>5 DEF IInv

-----------------------------------------------------------------------------
LEMMA Inductive == IInv /\ [Next]_vars => IInv'
  <1> SUFFICES ASSUME IInv, [Next]_vars PROVE IInv'
    OBVIOUS
  <1>1. CASE init
    BY <1>1 DEF init, onpage, IInv, TypeOK, TimerForEveryNote, NotedOnce, RemovedClosed
  <1>2. ASSUME NEW n \in Notes, ClickClose(n) PROVE IInv'
    <2>1. clicks' \in 0..MaxClicks
      BY <1>2, RequestsAssumption DEF IInv, TypeOK, ClickClose
    <2> QED BY <1>2, <2>1, CloseInv DEF ClickClose
  <1>3. ASSUME NEW n \in Notes, AutoClose(n) PROVE IInv'
    <2>1. note[n] \in {"shown", "fading"} /\ clicks' \in 0..MaxClicks
      BY <1>3 DEF IInv, TypeOK, TimerForEveryNote, AutoClose
    <2> QED BY <1>3, <2>1, CloseInv DEF AutoClose
  <1>4. ASSUME NEW n \in Notes, Remove(n) PROVE IInv'
    BY <1>4, RemoveInv
  <1>5. ASSUME NEW c \in Calls, NEW f \in Callbacks, sendData(c, f) PROVE IInv'
    <2>1. c \in Requests /\ callback' \in [Calls -> Callbacks]
      BY <1>5 DEF sendData, IInv, TypeOK, Requests
    <2> QED BY <1>5, <2>1, SentInv DEF sendData
  <1>6. ASSUME NEW c \in Calls, Succeeds(c) PROVE IInv'
    <2> DEFINE ns == IF ready /\ callback[c] # "none" THEN {Note(c, "info")} ELSE {}
    <2>1. c \in Requests
      BY DEF Requests
    <2>2. ns \in SUBSET Notes /\ (\A n \in ns : n.of = c) /\ (ns # {} => ready)
      <3>1. Note(c, "info") \in Notes /\ Note(c, "info").of = c
        BY <2>1, NoteInNotes
      <3> QED BY <3>1
    <2>3. show(ns) /\ request[c] = "sent" /\ request' = [request EXCEPT ![c] = "ok"]
          /\ UNCHANGED <<ready, callback>>
      BY <1>6 DEF Succeeds
    <2> HIDE DEF ns
    <2> QED BY <2>1, <2>2, <2>3, EndInv
  <1>7. ASSUME NEW c \in Calls, locationReload(c) PROVE IInv'
    BY <1>7, ReloadInv
  <1>8. ASSUME NEW c \in Calls, Fails(c) PROVE IInv'
    <2> DEFINE ns == IF ~ready THEN {}
                     ELSE {Note(c, "error")} \cup IF callback[c] = "result" THEN {Note(c, "info")} ELSE {}
    <2>1. c \in Requests
      BY DEF Requests
    <2>2. ns \in SUBSET Notes /\ (\A n \in ns : n.of = c) /\ (ns # {} => ready)
      <3>1. /\ Note(c, "info") \in Notes /\ Note(c, "info").of = c
            /\ Note(c, "error") \in Notes /\ Note(c, "error").of = c
        BY <2>1, NoteInNotes
      <3> QED BY <3>1
    <2>3. show(ns) /\ request[c] = "sent" /\ request' = [request EXCEPT ![c] = "failed"]
          /\ UNCHANGED <<ready, callback>>
      BY <1>8 DEF Fails
    <2> HIDE DEF ns
    <2> QED BY <2>1, <2>2, <2>3, EndInv
  <1>9. ASSUME NEW l \in Loads, Load(l) PROVE IInv'
    <2>1. l \in Requests /\ callback' \in [Calls -> Callbacks]
      BY <1>9 DEF Load, IInv, TypeOK, Requests
    <2> QED BY <1>9, <2>1, SentInv DEF Load
  <1>10. ASSUME NEW l \in Loads, NEW ended \in {"ok", "missing", "failed"}, handleHtmxResults(l, ended)
         PROVE  IInv'
    <2> DEFINE ns == IF ready /\ ended # "ok" THEN {Note(l, "error")} ELSE {}
    <2>1. l \in Requests
      BY DEF Requests
    <2>2. ns \in SUBSET Notes /\ (\A n \in ns : n.of = l)
          /\ (ns # {} => ready)
      <3>1. Note(l, "error") \in Notes /\ Note(l, "error").of = l
        BY <2>1, NoteInNotes
      <3> QED BY <3>1
    <2>3. show(ns) /\ request[l] = "sent" /\ request' = [request EXCEPT ![l] = ended]
          /\ UNCHANGED <<ready, callback>>
      BY <1>10 DEF handleHtmxResults
    <2> HIDE DEF ns
    <2> QED BY <2>1, <2>2, <2>3, EndInv
  <1>11. CASE UNCHANGED vars
    BY <1>11 DEF vars, onpage, IInv, TypeOK, TimerForEveryNote, NotedOnce, RemovedClosed
  <1> QED BY <1>1, <1>2, <1>3, <1>4, <1>5, <1>6, <1>7, <1>8, <1>9, <1>10, <1>11 DEF Next

LEMMA InvHolds == Spec => []IInv
  BY InitInv, Inductive, PTL DEF Spec

(* The types of requests and notifications; notifications are on a page    *)
(* that has the container for them.                                        *)
THEOREM RequestTypes == Spec => []TypeOK
  <1>1. IInv => TypeOK
    BY DEF IInv
  <1> QED BY <1>1, InvHolds, PTL

(* NotificationSystem.close clears the timer of the notification it closes *)
(* and show starts one: exactly the notifications shown have one.          *)
THEOREM TimersCorrect == Spec => []TimerForEveryNote
  <1>1. IInv => TimerForEveryNote
    BY DEF IInv
  <1> QED BY <1>1, InvHolds, PTL
=============================================================================
