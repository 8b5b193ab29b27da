----------------------------- MODULE UiRequests -----------------------------
(***************************************************************************)
(* Requests and notifications of a page of the web UI (web/lib/utils.js,   *)
(* sendData, getData, NotificationSystem, handleHtmxResults).              *)
(*                                                                         *)
(* Buttons call the server with sendData or getData and give a callback.   *)
(* htmx makes requests of its own, the first as soon as the page loads.    *)
(* Notifications tell of what went wrong; they need the container that     *)
(* init makes, and the failures of htmx a listener: a timer of the footer  *)
(* makes both 500 ms after the page's script ran.  Until then              *)
(* show throws, which ends the task that called it.                        *)
(*                                                                         *)
(* A notification is closed by its own timer or by a click, fades out, and *)
(* is removed by a second timer.  Every request is made once: its name     *)
(* tells its notifications apart.                                          *)
(***************************************************************************)
EXTENDS Integers, FiniteSets

CONSTANTS
    Calls,          \* requests made by sendData and getData
    Loads,          \* requests made by htmx
    MaxClicks       \* bound: clicks on the close buttons of notifications

(* What the pages give as callback: nothing; a function without parameters *)
(* that shows an alert; one that shows the result, whatever the status;    *)
(* and one that reloads the page.                                          *)
Callbacks == {"none", "alert", "result", "reload"}
Notes     == [of : Calls \cup Loads, type : {"info", "error"}]

ASSUME RequestsAssumption ==
    /\ IsFiniteSet(Calls) /\ IsFiniteSet(Loads)
    /\ Calls \cap Loads = {}
    /\ MaxClicks \in Nat

VARIABLES
    ready,          \* the timer of the footer has fired
    request,        \* call or load |-> "new", "sent", or how it ended
    callback,       \* call |-> the callback it was given
    note,           \* notification |-> "none", "shown", "fading" or "gone"
    closing,        \* notifications whose own timer is running
    removals,       \* notification |-> timers that will remove it
    clicks          \* clicks on close buttons

onpage == <<note, closing, removals, clicks>>
vars   == <<ready, request, callback, onpage>>

Init ==
    /\ ready = FALSE
    /\ request = [r \in Calls \cup Loads |-> "new"]
    /\ callback = [c \in Calls |-> "none"]
    /\ note = [n \in Notes |-> "none"]
    /\ closing = {}
    /\ removals = [n \in Notes |-> 0]
    /\ clicks = 0

Note(r, type) == [of |-> r, type |-> type]

-----------------------------------------------------------------------------
(* NotificationSystem.init and handleHtmxResults, by the timer.            *)
init ==
    /\ ~ready
    /\ ready' = TRUE
    /\ UNCHANGED <<request, callback, onpage>>

(* show, for the notifications ns a task shows.                            *)
show(ns) ==
    /\ note' = [n \in Notes |-> IF n \in ns THEN "shown" ELSE note[n]]
    /\ closing' = closing \cup ns
    /\ UNCHANGED <<removals, clicks>>

(* Mutant: closing leaves the timer of the notification running.           *)
LeavesTimer(n) ==
    /\ note' = [note EXCEPT ![n] = "fading"]
    /\ removals' = [removals EXCEPT ![n] = @ + 1]
    /\ UNCHANGED closing

(* Mutant: a notification that fades is not removed.                       *)
FadesOnly(n) ==
    /\ closing' = closing \ {n}
    /\ note' = [note EXCEPT ![n] = "fading"]
    /\ UNCHANGED removals

(* close: the timer of the notification is cleared, it fades, and another  *)
(* timer will remove it.                                                   *)
close(n) ==
    /\ closing' = closing \ {n}
    /\ note' = [note EXCEPT ![n] = "fading"]
    /\ removals' = [removals EXCEPT ![n] = @ + 1]

ClickClose(n) ==
    /\ note[n] \in {"shown", "fading"}
    /\ clicks < MaxClicks
    /\ clicks' = clicks + 1
    /\ close(n)
    /\ UNCHANGED <<ready, request, callback>>

AutoClose(n) ==
    /\ n \in closing
    /\ close(n)
    /\ UNCHANGED <<ready, request, callback, clicks>>

(* The second timer: the notification is removed if it still has a parent. *)
Remove(n) ==
    /\ removals[n] > 0
    /\ removals' = [removals EXCEPT ![n] = @ - 1]
    /\ note' = [note EXCEPT ![n] = "gone"]
    /\ UNCHANGED <<ready, request, callback, closing, clicks>>

-----------------------------------------------------------------------------
(* sendData or getData.                                                    *)
sendData(c, f) ==
    /\ request[c] = "new"
    /\ request' = [request EXCEPT ![c] = "sent"]
    /\ callback' = [callback EXCEPT ![c] = f]
    /\ UNCHANGED <<ready, onpage>>

(* Status 200.  A reload of the page ends all its requests and timers.     *)
Succeeds(c) ==
    /\ request[c] = "sent"
    /\ callback[c] # "reload"
    /\ request' = [request EXCEPT ![c] = "ok"]
    /\ show(IF ready /\ callback[c] # "none" THEN {Note(c, "info")} ELSE {})
    /\ UNCHANGED <<ready, callback>>

locationReload(c) ==
    /\ request[c] = "sent"
    /\ callback[c] = "reload"
    /\ request' = [[r \in Calls \cup Loads |-> IF request[r] = "sent" THEN "lost" ELSE request[r]]
                      EXCEPT ![c] = "ok"]
    /\ ready' = FALSE
    /\ note' = [n \in Notes |-> IF note[n] = "none" THEN "none" ELSE "gone"]
    /\ closing' = {}
    /\ removals' = [n \in Notes |-> 0]
    /\ UNCHANGED <<callback, clicks>>

(* Mutant: the error is shown before there is a place for it.              *)
ShowsUnready(c) ==
    /\ request[c] = "sent"
    /\ request' = [request EXCEPT ![c] = "failed"]
    /\ show({Note(c, "error")})
    /\ UNCHANGED <<ready, callback>>

(* Any other status: a callback that takes the status is called, then the  *)
(* error is shown.                                                         *)
Fails(c) ==
    /\ request[c] = "sent"
    /\ request' = [request EXCEPT ![c] = "failed"]
    /\ show(IF ~ready THEN {}
            ELSE {Note(c, "error")} \cup IF callback[c] = "result" THEN {Note(c, "info")} ELSE {})
    /\ UNCHANGED <<ready, callback>>

-----------------------------------------------------------------------------
(* A request of htmx, and htmx:afterRequest.                               *)
Load(l) ==
    /\ request[l] = "new"
    /\ request' = [request EXCEPT ![l] = "sent"]
    /\ UNCHANGED <<ready, callback, onpage>>

handleHtmxResults(l, ended) ==
    /\ request[l] = "sent"
    /\ request' = [request EXCEPT ![l] = ended]
    /\ show(IF ready /\ ended # "ok" THEN {Note(l, "error")} ELSE {})
    /\ UNCHANGED <<ready, callback>>

-----------------------------------------------------------------------------
Next ==
    \/ init
    \/ \E n \in Notes : ClickClose(n) \/ AutoClose(n) \/ Remove(n)
    \/ \E c \in Calls :
        \/ \E f \in Callbacks : sendData(c, f)
        \/ Succeeds(c) \/ locationReload(c) \/ Fails(c)
    \/ \E l \in Loads :
        \/ Load(l)
        \/ \E ended \in {"ok", "missing", "failed"} : handleHtmxResults(l, ended)

Spec == Init /\ [][Next]_vars

(* Timers fire; requests may be left without an answer.                    *)
FairSpec ==
    /\ Spec
    /\ \A n \in Notes : WF_vars(AutoClose(n)) /\ WF_vars(Remove(n))

-----------------------------------------------------------------------------
(* The types, and: notifications are on a page that has the container for  *)
(* them.                                                                   *)
TypeOK ==
    /\ ready \in BOOLEAN
    /\ request \in [Calls \cup Loads -> {"new", "sent", "ok", "missing", "failed", "lost"}]
    /\ callback \in [Calls -> Callbacks]
    /\ note \in [Notes -> {"none", "shown", "fading", "gone"}]
    /\ closing \in SUBSET Notes
    /\ removals \in [Notes -> Nat]
    /\ clicks \in 0..MaxClicks
    /\ \A n \in Notes : note[n] \in {"shown", "fading"} => ready

(***************************************************************************)
(* The timer of a notification runs exactly as long as it is shown: it     *)
(* does not outlive it, whoever closes it and how often, and no            *)
(* notification is shown without one.                                      *)
(***************************************************************************)
TimerForEveryNote == closing = {n \in Notes : note[n] = "shown"}

(* A notification does not stay: it is removed in the end, closed by its   *)
(* timer or by clicks.                                                     *)
NotesVanish == \A n \in Notes : note[n] \in {"shown", "fading"} ~> note[n] = "gone"
=============================================================================
