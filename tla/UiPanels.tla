------------------------------ MODULE UiPanels ------------------------------
(***************************************************************************)
(* The panels of the plugins page (web/lib/utils.js, "accordion handling", *)
(* with the scripts of footer.jte, plugins.jte and plugins/*.jte that call *)
(* it), in any number of browser tabs.                                     *)
(*                                                                         *)
(* A panel arrives with the answer to its own first request, closed.  The  *)
(* page keeps which panels are open in localStorage, one item shared by    *)
(* all tabs that each tab reads and writes back in two steps.  Starting or *)
(* stopping a plugin reloads panels one after the other through htmx.ajax, *)
(* whose requests share one lock and a queue of one place: a request made  *)
(* while another is in flight takes the place, and its promise is resolved *)
(* at once.  A reload puts a panel in the place of the old one and, if     *)
(* that was open, opens it with a timer.  The new panel is closed, but     *)
(* htmx gives it the class list of the old one until it settles: 20 ms     *)
(* after the swap its own class list comes back, and closes it.            *)
(*                                                                         *)
(* A task of a tab runs to its end before another one begins: "pending" is *)
(* what the task under way still has to store.                             *)
(***************************************************************************)
EXTENDS Integers, Sequences, FiniteSets

CONSTANTS
    Tabs,           \* tabs that show the plugins page
    Protocols,      \* the panels of the protocols, in the order of the page
    Remembered,     \* bound: statuses an earlier visit may have stored
    MaxVisits,      \* bound: times a tab opens the page
    MaxActs,        \* bound: clicks on panel titles and commands together
    MaxCommands,    \* bound: plugins started or stopped
    MaxCleans       \* bound: times the stored status is cleaned

ProtocolPanels == {Protocols[i] : i \in DOMAIN Protocols}
Panels    == {"active", "wildcard"} \cup ProtocolPanels
PageOrder == <<"active", "wildcard">> \o Protocols
Statuses  == {"none", "open", "closed"}

ASSUME PanelsAssumption ==
    /\ Protocols \in Seq(STRING)
    /\ \A i, j \in DOMAIN Protocols : Protocols[i] = Protocols[j] => i = j
    /\ ProtocolPanels \cap {"none", "all", "active", "wildcard"} = {}
    /\ Remembered \subseteq Statuses
    /\ {MaxVisits, MaxActs, MaxCommands, MaxCleans} \subseteq Nat

(* Some of the panels, in the order of the page.                           *)
Place(p) == CHOOSE i \in DOMAIN PageOrder : PageOrder[i] = p
InPageOrder(ps) ==
    CHOOSE q \in [1..Cardinality(ps) -> ps] :
        \A i, j \in DOMAIN q : i < j => Place(q[i]) < Place(q[j])

(* The buttons: those of the active and the wildcard panel reload all, the *)
(* ones of a protocol's panel that panel, the wildcard and the active one. *)
Buttons == {"all"} \cup ProtocolPanels
Changed(b) == IF b = "all" THEN Panels ELSE {b, "wildcard", "active"}

VARIABLES
    store,          \* panel |-> its status in localStorage
    phase,          \* tab |-> "away", "loading" until the timer of the footer, "ready"
    dom,            \* tab |-> panel |-> "absent", or whether its class list has "in"
    pending,        \* tab |-> the calls of setAccordionStatus its task still makes
    item,           \* tab |-> what getItem returned, between getItem and setItem
    timers,         \* tab |-> panel |-> timers of openAccordion not fired yet
    settling,       \* tab |-> panels swapped by htmx that have not settled
    early,          \* tab |-> panel |-> timers left from before its last swap
    xhr,            \* tab |-> the request that holds the lock of htmx
    queued,         \* tab |-> the panel of the request in the queue of htmx
    calls,          \* tab |-> buttons whose call is not due
    version,        \* plugins started or stopped so far
    shown,          \* tab |-> panel |-> the version it shows
    done,           \* counts of visits, clicks, commands and cleans
    given,          \* history: panel |-> the status given to it last
    overlapped,     \* history: two tabs were between getItem and setItem at once
    disturbed,      \* history: tab |-> panels a reload or the page's load overtook
    due,            \* history: tab |-> panel |-> the version it is to show
    broken          \* history: tab |-> a reload was refused or failed

swap    == <<settling, early>>
page    == <<phase, dom, timers, swap>>
storage == <<store, pending, item, given, overlapped>>
htmx    == <<xhr, queued, broken>>
server  == <<calls, version, shown, due>>
vars    == <<page, storage, htmx, server, done, disturbed>>

NoItem    == [p \in Panels |-> "unread"]
NoRequest == [panel |-> "none", open |-> FALSE, next |-> <<>>, fan |-> FALSE, since |-> 0]
Request   == [panel : Panels, open : BOOLEAN, next : Seq(Panels), fan : BOOLEAN, since : Nat]
Write(p, status) == [panel |-> p, status |-> status]

Init ==
    /\ store \in [Panels -> Remembered]
    /\ phase = [t \in Tabs |-> "away"]
    /\ dom = [t \in Tabs |-> [p \in Panels |-> "absent"]]
    /\ pending = [t \in Tabs |-> <<>>]
    /\ item = [t \in Tabs |-> NoItem]
    /\ timers = [t \in Tabs |-> [p \in Panels |-> 0]]
    /\ settling = [t \in Tabs |-> {}]
    /\ early = [t \in Tabs |-> [p \in Panels |-> 0]]
    /\ xhr = [t \in Tabs |-> NoRequest]
    /\ queued = [t \in Tabs |-> "none"]
    /\ calls = [t \in Tabs |-> {}]
    /\ version = 0
    /\ shown = [t \in Tabs |-> [p \in Panels |-> 0]]
    /\ done = [visits |-> 0, clicks |-> 0, commands |-> 0, cleans |-> 0]
    /\ given = store
    /\ overlapped = FALSE
    /\ disturbed = [t \in Tabs |-> {}]
    /\ due = [t \in Tabs |-> [p \in Panels |-> 0]]
    /\ broken = [t \in Tabs |-> FALSE]

Idle(t) == phase[t] # "away" /\ pending[t] = <<>>
Present(t, p) == dom[t][p] # "absent"
isAccordionOpen(t, p) == dom[t][p] = "open"
Reloading(t, p) == xhr[t].panel = p \/ queued[t] = p

-----------------------------------------------------------------------------
(* The page is opened, and its panels arrive one by one.                   *)
Visit(t) ==
    /\ phase[t] = "away"
    /\ done.visits < MaxVisits
    /\ done' = [done EXCEPT !.visits = @ + 1]
    /\ phase' = [phase EXCEPT ![t] = "loading"]
    /\ UNCHANGED <<dom, timers, swap, storage, htmx, server, disturbed>>

Arrive(t, p) ==
    /\ Idle(t)
    /\ ~Present(t, p)
    /\ dom' = [dom EXCEPT ![t][p] = "closed"]
    /\ shown' = [shown EXCEPT ![t][p] = version]
    /\ disturbed' = IF phase[t] = "ready" THEN [disturbed EXCEPT ![t] = @ \cup {p}] ELSE disturbed
    /\ UNCHANGED <<phase, timers, swap, storage, htmx, calls, version, due, done>>

(* The tab goes to another page: what the page kept and awaited is lost.   *)
Leave(t) ==
    /\ Idle(t)
    /\ phase' = [phase EXCEPT ![t] = "away"]
    /\ dom' = [dom EXCEPT ![t] = [p \in Panels |-> "absent"]]
    /\ timers' = [timers EXCEPT ![t] = [p \in Panels |-> 0]]
    /\ settling' = [settling EXCEPT ![t] = {}]
    /\ early' = [early EXCEPT ![t] = [p \in Panels |-> 0]]
    /\ xhr' = [xhr EXCEPT ![t] = NoRequest]
    /\ queued' = [queued EXCEPT ![t] = "none"]
    /\ calls' = [calls EXCEPT ![t] = {}]
    /\ shown' = [shown EXCEPT ![t] = [p \in Panels |-> 0]]
    /\ due' = [due EXCEPT ![t] = [p \in Panels |-> 0]]
    /\ broken' = [broken EXCEPT ![t] = FALSE]
    /\ disturbed' = [disturbed EXCEPT ![t] = {}]
    /\ UNCHANGED <<storage, version, done>>

-----------------------------------------------------------------------------
(* setAccordionStatus: getAccordionStatus reads the whole item, setItem    *)
(* writes it back with the status of one panel changed.                    *)
getAccordionStatus(t) ==
    /\ pending[t] # <<>>
    /\ item[t] = NoItem
    /\ item' = [item EXCEPT ![t] = store]
    /\ UNCHANGED <<page, store, pending, given, overlapped, htmx, server, done, disturbed>>

(* Mutant: only the status of the panel itself is written back.            *)
SetsOneStatus(t) ==
    /\ item[t] # NoItem
    /\ LET w == Head(pending[t])
       IN /\ store' = [[p \in Panels |-> "none"] EXCEPT ![w.panel] = w.status]
          /\ given' = [given EXCEPT ![w.panel] = w.status]
    /\ overlapped' = (overlapped \/ \E u \in Tabs \ {t} : item[u] # NoItem)
    /\ item' = [item EXCEPT ![t] = NoItem]
    /\ pending' = [pending EXCEPT ![t] = Tail(@)]
    /\ UNCHANGED <<page, htmx, server, done, disturbed>>

setAccordionStatus(t) ==
    /\ item[t] # NoItem
    /\ LET w == Head(pending[t])
       IN /\ store' = [item[t] EXCEPT ![w.panel] = w.status]
          /\ given' = [given EXCEPT ![w.panel] = w.status]
    /\ overlapped' = (overlapped \/ \E u \in Tabs \ {t} : item[u] # NoItem)
    /\ item' = [item EXCEPT ![t] = NoItem]
    /\ pending' = [pending EXCEPT ![t] = Tail(@)]
    /\ UNCHANGED <<page, htmx, server, done, disturbed>>

(* cleanAccordionStatus, in a tab that shows the main page.                *)
cleanAccordionStatus ==
    /\ done.cleans < MaxCleans
    /\ done' = [done EXCEPT !.cleans = @ + 1]
    /\ store' = [p \in Panels |-> "none"]
    /\ given' = store'
    /\ overlapped' = (overlapped \/ \E u \in Tabs : item[u] # NoItem)
    /\ UNCHANGED <<page, pending, item, htmx, server, disturbed>>

-----------------------------------------------------------------------------
(* Opening a panel whose reload is under way or has not settled: settling  *)
(* will close it, so it is open again only if the reload found it open.    *)
OpenedUnder(t, p) == IF Reloading(t, p) \/ p \in settling[t] THEN {p} ELSE {}

(* Mutant: the status stored is the one before the click.                  *)
StoresTheStatusBefore(t, p) ==
    /\ Idle(t)
    /\ Present(t, p)
    /\ done.clicks + done.commands < MaxActs
    /\ done' = [done EXCEPT !.clicks = @ + 1]
    /\ dom' = [dom EXCEPT ![t][p] = IF @ = "open" THEN "closed" ELSE "open"]
    /\ pending' = [pending EXCEPT ![t] = <<Write(p, dom[t][p])>>]
    /\ disturbed' = [disturbed EXCEPT ![t] =
                       (@ \ {p}) \cup (IF isAccordionOpen(t, p) THEN {} ELSE OpenedUnder(t, p))]
    /\ UNCHANGED <<phase, timers, swap, store, item, given, overlapped, htmx, server>>

(* A click on the title of a panel.                                        *)
toggleAccordion(t, p) ==
    /\ Idle(t)
    /\ Present(t, p)
    /\ done.clicks + done.commands < MaxActs
    /\ done' = [done EXCEPT !.clicks = @ + 1]
    /\ LET opens == ~isAccordionOpen(t, p)
       IN /\ dom' = [dom EXCEPT ![t][p] = IF opens THEN "open" ELSE "closed"]
          /\ pending' = [pending EXCEPT ![t] = <<Write(p, IF opens THEN "open" ELSE "closed")>>]
          /\ disturbed' = [disturbed EXCEPT ![t] = (@ \ {p}) \cup (IF opens THEN OpenedUnder(t, p) ELSE {})]
    /\ UNCHANGED <<phase, timers, swap, store, item, given, overlapped, htmx, server>>

(* The timer of openAccordion, 250 ms after it was set: those set since    *)
(* the panel was swapped come after it has settled.                        *)
openAccordion(t, p) ==
    /\ Idle(t)
    /\ timers[t][p] > 0
    /\ p \in settling[t] => early[t][p] > 0
    /\ timers' = [timers EXCEPT ![t][p] = @ - 1]
    /\ early' = [early EXCEPT ![t][p] = IF @ > 0 THEN @ - 1 ELSE 0]
    /\ IF isAccordionOpen(t, p)
       THEN UNCHANGED <<dom, pending, disturbed>>
       ELSE /\ dom' = [dom EXCEPT ![t][p] = "open"]
            /\ pending' = [pending EXCEPT ![t] = <<Write(p, "open")>>]
            /\ disturbed' = [disturbed EXCEPT ![t] = @ \cup OpenedUnder(t, p)]
    /\ UNCHANGED <<phase, settling, store, item, given, overlapped, htmx, server, done>>

(* closeAccordion, for each of the panels ps: the ones that are open.      *)
closeAccordions(t, ps) ==
    LET shut == InPageOrder({p \in ps : isAccordionOpen(t, p)})
    IN /\ dom' = [dom EXCEPT ![t] = [p \in Panels |-> IF p \in ps /\ Present(t, p) THEN "closed" ELSE @[p]]]
       /\ pending' = [pending EXCEPT ![t] = [i \in DOMAIN shut |-> Write(shut[i], "closed")]]

(* Mutant: panels that are not there (yet) are opened, too.                *)
LoadsAbsent(t, named) ==
    LET open == {p \in Panels : store[p] = "open"}
        shut == {p \in Panels : store[p] = "closed"}
    IN /\ Idle(t)
       /\ phase[t] = "loading"
       /\ phase' = [phase EXCEPT ![t] = "ready"]
       /\ timers' = [timers EXCEPT ![t] = [p \in Panels |-> IF p \in open THEN @[p] + 1 ELSE @[p]]]
       /\ closeAccordions(t, shut)
       /\ UNCHANGED <<swap, store, item, given, overlapped, htmx, server, done, disturbed>>

(* loadPanels, 500 ms after the page's script ran: the panel the address   *)
(* names, if it is there, or else the ones that are there as stored.       *)
loadPanels(t, named) ==
    LET here == {p \in Panels : Present(t, p)}
        open == IF named \in here THEN {named} ELSE {p \in here : store[p] = "open"}
        shut == IF named \in here THEN {} ELSE {p \in here : store[p] = "closed"}
    IN /\ Idle(t)
       /\ phase[t] = "loading"
       /\ phase' = [phase EXCEPT ![t] = "ready"]
       /\ timers' = [timers EXCEPT ![t] = [p \in Panels |-> IF p \in open THEN @[p] + 1 ELSE @[p]]]
       /\ closeAccordions(t, shut)
       /\ disturbed' = [disturbed EXCEPT ![t] = @ \cup (here \ (open \cup shut))]
       /\ UNCHANGED <<swap, store, item, given, overlapped, htmx, server, done>>

-----------------------------------------------------------------------------
(* Panels asked for by one task: all of them if they are asked for side by *)
(* side or the lock is taken, otherwise the first.  A panel that has not   *)
(* arrived has no function to reload it: reloadAllPlugins looks for the    *)
(* function, the chain of a protocol's button ends where it is missing.    *)
Reachable(t, ps) ==
    SubSeq(ps, 1, CHOOSE n \in 0..Len(ps) :
        /\ \A i \in 1..n : Present(t, ps[i])
        /\ n < Len(ps) => ~Present(t, ps[n + 1]))

Asked(t, ps, fan, taken) ==
    IF fan THEN InPageOrder({p \in Panels : Present(t, p) /\ \E i \in DOMAIN ps : ps[i] = p})
    ELSE IF taken \/ Reachable(t, ps) = <<>> THEN Reachable(t, ps) ELSE <<ps[1]>>

(* The panels ps are reloaded, with "lock" the request in flight and       *)
(* "place" the one in the queue: the first takes the lock if it is free,   *)
(* the others the place, each from the one before, and are resolved at     *)
(* once, which sets the timer of the ones that are open.  "reopen" is the  *)
(* panel whose answer is being handled, if it was open.                    *)
Reload(t, ps, fan, thenFan, lock, place, reopen) ==
    LET taken  == lock # NoRequest
        asked  == Asked(t, ps, fan, taken)
        behind == IF taken \/ asked = <<>> THEN asked ELSE Tail(asked)
        behinds == {behind[i] : i \in DOMAIN behind}
        reopened == {p \in behinds : dom'[t][p] = "open"}
    IN /\ xhr' = [xhr EXCEPT ![t] =
                    IF taken \/ asked = <<>> THEN lock
                    ELSE [panel |-> asked[1], open |-> dom'[t][asked[1]] = "open",
                          next |-> IF fan THEN <<>> ELSE Tail(ps),
                          fan |-> thenFan, since |-> version']]
       /\ queued' = [queued EXCEPT ![t] = IF behind = <<>> THEN place ELSE behind[Len(behind)]]
       /\ timers' = [timers EXCEPT ![t] = [p \in Panels |->
                        @[p] + (IF p \in reopened THEN 1 ELSE 0) + (IF p \in reopen THEN 1 ELSE 0)]]
       /\ disturbed' = [disturbed EXCEPT ![t] =
                          @ \cup behinds \cup {p \in {asked[i] : i \in DOMAIN asked} : timers[t][p] > 0}]

(* A button of a plugin: getData asks the server to start or stop it.  The *)
(* server does so between the click and the answer; nothing looks at it in *)
(* between, so the step that answers counts it.                            *)
Command(t, b) ==
    /\ Idle(t)
    /\ done.commands < MaxCommands /\ done.clicks + done.commands < MaxActs
    /\ b \notin calls[t]
    /\ IF b = "all" THEN Present(t, "active") \/ Present(t, "wildcard") ELSE Present(t, b)
    /\ done' = [done EXCEPT !.commands = @ + 1]
    /\ calls' = [calls EXCEPT ![t] = @ \cup {b}]
    /\ UNCHANGED <<page, storage, htmx, version, shown, due, disturbed>>

(* Any status but 200: a callback without parameters is not called.        *)
getDataFails(t, b) ==
    /\ Idle(t)
    /\ b \in calls[t]
    /\ calls' = [calls EXCEPT ![t] = @ \ {b}]
    /\ UNCHANGED <<page, storage, htmx, version, shown, due, done, disturbed>>

(* Mutant: callbacks are called only if they take the status.              *)
NoCallback(t, b) ==
    /\ Idle(t)
    /\ b \in calls[t]
    /\ calls' = [calls EXCEPT ![t] = @ \ {b}]
    /\ version' = version + 1
    /\ due' = [due EXCEPT ![t] = [p \in Panels |-> IF p \in Changed(b) THEN version' ELSE @[p]]]
    /\ UNCHANGED <<page, storage, htmx, shown, done, disturbed>>

reloadAllPlugins(t) ==
    Reload(t, InPageOrder({p \in Panels : Present(t, p)}), FALSE, TRUE, xhr[t], queued[t], {})

reloadProtocol(t, p) ==
    Reload(t, <<p, "wildcard", "active">>, FALSE, FALSE, xhr[t], queued[t], {})

(* Status 200: the callback reloads.                                       *)
getData(t, b) ==
    /\ Idle(t)
    /\ b \in calls[t]
    /\ calls' = [calls EXCEPT ![t] = @ \ {b}]
    /\ version' = version + 1
    /\ due' = [due EXCEPT ![t] = [p \in Panels |-> IF p \in Changed(b) THEN version' ELSE @[p]]]
    /\ UNCHANGED <<phase, dom, swap, storage, broken, shown, done>>
    /\ IF b = "all" THEN reloadAllPlugins(t) ELSE reloadProtocol(t, b)

-----------------------------------------------------------------------------
(* The request in flight ends: the one in the queue, whose promise nobody  *)
(* holds any more, takes the lock.                                         *)
FromQueue(t) ==
    IF queued[t] = "none" THEN NoRequest
    ELSE [NoRequest EXCEPT !.panel = queued[t], !.since = version]

(* Mutant: the panel is reloaded, but left closed.                         *)
LeavesClosed(t) ==
    Reload(t, xhr[t].next, xhr[t].fan, FALSE, FromQueue(t), "none", {})

(* The promise is resolved: the panel is opened if it was, the reloads     *)
(* that waited for it go on.                                               *)
Resolve(t) ==
    Reload(t, xhr[t].next, xhr[t].fan, FALSE, FromQueue(t), "none",
           IF xhr[t].open THEN {xhr[t].panel} ELSE {})

(* The answer: the new panel takes the place and the class list of the old *)
(* one.  Settling an element that was replaced since changes nothing.      *)
AjaxAnswer(t) ==
    /\ Idle(t)
    /\ xhr[t] # NoRequest
    /\ settling' = [settling EXCEPT ![t] = @ \cup {xhr[t].panel}]
    /\ early' = [early EXCEPT ![t][xhr[t].panel] = timers[t][xhr[t].panel]]
    /\ \E v \in xhr[t].since..version : shown' = [shown EXCEPT ![t][xhr[t].panel] = v]
    /\ UNCHANGED <<phase, dom, storage, broken, calls, version, due, done>>
    /\ Resolve(t)

(* The panel gets back the class list it came with, whatever was done to   *)
(* it since the swap.                                                      *)
Settle(t, p) ==
    /\ Idle(t)
    /\ p \in settling[t]
    /\ settling' = [settling EXCEPT ![t] = @ \ {p}]
    /\ early' = [early EXCEPT ![t][p] = 0]
    /\ dom' = [dom EXCEPT ![t][p] = "closed"]
    /\ UNCHANGED <<phase, timers, storage, htmx, server, done, disturbed>>

(* A status of 400 or more: nothing is swapped, the promise is resolved.   *)
AjaxRefused(t) ==
    /\ Idle(t)
    /\ xhr[t] # NoRequest
    /\ broken' = [broken EXCEPT ![t] = TRUE]
    /\ UNCHANGED <<phase, dom, swap, storage, server, done>>
    /\ Resolve(t)

(* No answer: the promise is rejected, which ends the chain.               *)
AjaxFailed(t) ==
    /\ Idle(t)
    /\ xhr[t] # NoRequest
    /\ broken' = [broken EXCEPT ![t] = TRUE]
    /\ xhr' = [xhr EXCEPT ![t] = FromQueue(t)]
    /\ queued' = [queued EXCEPT ![t] = "none"]
    /\ UNCHANGED <<page, storage, server, done, disturbed>>

-----------------------------------------------------------------------------
Next ==
    \/ \E t \in Tabs :
        \/ Visit(t) \/ Leave(t)
        \/ getAccordionStatus(t) \/ setAccordionStatus(t)
        \/ AjaxAnswer(t) \/ AjaxRefused(t) \/ AjaxFailed(t)
        \/ \E named \in Panels \cup {"none"} : loadPanels(t, named)
        \/ \E p \in Panels : Arrive(t, p) \/ toggleAccordion(t, p) \/ openAccordion(t, p) \/ Settle(t, p)
        \/ \E b \in Buttons : Command(t, b) \/ getData(t, b) \/ getDataFails(t, b)
    \/ cleanAccordionStatus

Spec == Init /\ [][Next]_vars

-----------------------------------------------------------------------------
(* The types, and: what is between getItem and setItem has a status to     *)
(* store, only panels that are there have timers, and a request waits in   *)
(* the queue only behind another.                                          *)
TypeOK ==
    /\ store \in [Panels -> Statuses]
    /\ phase \in [Tabs -> {"away", "loading", "ready"}]
    /\ dom \in [Tabs -> [Panels -> {"absent", "closed", "open"}]]
    /\ \A t \in Tabs : \A i \in DOMAIN pending[t] : pending[t][i] \in [panel : Panels, status : Statuses]
    /\ item \in [Tabs -> [Panels -> Statuses] \cup {NoItem}]
    /\ \A t \in Tabs : item[t] # NoItem => pending[t] # <<>>
    /\ timers \in [Tabs -> [Panels -> Nat]]
    /\ \A t \in Tabs : \A p \in Panels : timers[t][p] > 0 => Present(t, p)
    /\ settling \in [Tabs -> SUBSET Panels]
    /\ early \in [Tabs -> [Panels -> Nat]]
    /\ \A t \in Tabs : \A p \in Panels : early[t][p] <= timers[t][p]
    /\ \A t \in Tabs : xhr[t] # NoRequest => xhr[t] \in Request
    /\ queued \in [Tabs -> Panels \cup {"none"}]
    /\ \A t \in Tabs : xhr[t] = NoRequest => queued[t] = "none"
    /\ calls \in [Tabs -> SUBSET Buttons]
    /\ version \in Nat
    /\ shown \in [Tabs -> [Panels -> 0..version]]
    /\ disturbed \in [Tabs -> SUBSET Panels]

(***************************************************************************)
(* With one tab, a panel that is shown open is stored as open, whoever     *)
(* opened it (a click, a reload, the load of the page), so that the next   *)
(* visit opens it again.                                                   *)
(***************************************************************************)
OpenIsStored ==
    \A t \in Tabs : \A p \in Panels :
        Idle(t) /\ isAccordionOpen(t, p) => store[p] = "open"

(* Nothing the tab waits for is under way.                                 *)
Quiet(t) ==
    /\ phase[t] = "ready"
    /\ Idle(t)
    /\ xhr[t] = NoRequest
    /\ settling[t] = {}
    /\ \A p \in Panels : timers[t][p] = 0

(***************************************************************************)
(* With one tab, once a page has come to rest its panels are as stored:    *)
(* the ones that were open when they were reloaded are open again.  Except *)
(* the ones something overtook: a panel that arrived after the stored      *)
(* status was applied, that was opened while its reload was under way or   *)
(* had not settled, or that was reloaded while another reload or its own   *)
(* timer was.                                                              *)
(***************************************************************************)
RestIsAsStored ==
    \A t \in Tabs : Quiet(t) =>
        \A p \in Panels \ disturbed[t] :
            Present(t, p) => (isAccordionOpen(t, p) <=> store[p] = "open")

(***************************************************************************)
(* Whatever tabs do, the status stored for each panel is the last one a    *)
(* tab gave it, unless two tabs were inside setAccordionStatus at once.    *)
(***************************************************************************)
LastStatusStored == ~overlapped => store = given

(* What the last callback run is about: every button changes this panel.   *)
Latest(t) == due[t]["active"]

(***************************************************************************)
(* When the callback of a plugin's button has run, what the button did is  *)
(* shown by some panel or will be by the request in flight or in the       *)
(* queue: most of the reloads it asks for may lose their place in the      *)
(* queue to later ones, the last one never does.  A reload that is refused *)
(* or fails is not tried again.                                            *)
(***************************************************************************)
ChangeIsComing ==
    \A t \in Tabs :
        \/ \E p \in Panels : shown[t][p] >= Latest(t)
        \/ xhr[t] # NoRequest /\ xhr[t].since >= Latest(t)
        \/ queued[t] # "none"
        \/ broken[t]

(***************************************************************************)
(* "See/start/stop/manage all plugins for a given protocol": once a page   *)
(* has come to rest, the panel of every protocol shows its plugins as the  *)
(* last command left them.                                                 *)
(***************************************************************************)
ProtocolPanelsFresh ==
    \A t \in Tabs : Quiet(t) /\ ~broken[t] =>
        \A p \in ProtocolPanels : Present(t, p) => shown[t][p] >= due[t][p]
=============================================================================
