--------------------------- MODULE UiPanelsProofs ---------------------------
(***************************************************************************)
(* The panels of the plugins page, for any protocols, any number of tabs   *)
(* (one where the property says so) and any number of visits, clicks and   *)
(* commands.                                                               *)
(***************************************************************************)
EXTENDS UiPanels, TLAPS, FiniteSetTheorems, SequenceTheorems, WellFoundedInduction

Writes == [panel : Panels, status : {"open", "closed"}]

(* The types of TypeOK, of every variable.                                 *)
Typed ==
    /\ store \in [Panels -> Statuses]
    /\ phase \in [Tabs -> {"away", "loading", "ready"}]
    /\ dom \in [Tabs -> [Panels -> {"absent", "closed", "open"}]]
    /\ pending \in [Tabs -> Seq(Writes)]
    /\ item \in [Tabs -> [Panels -> Statuses] \cup {NoItem}]
    /\ timers \in [Tabs -> [Panels -> Nat]]
    /\ settling \in [Tabs -> SUBSET Panels]
    /\ early \in [Tabs -> [Panels -> Nat]]
    /\ xhr \in [Tabs -> Request \cup {NoRequest}]
    /\ queued \in [Tabs -> Panels \cup {"none"}]
    /\ calls \in [Tabs -> SUBSET Buttons]
    /\ version \in Nat
    /\ shown \in [Tabs -> [Panels -> 0..version]]
    /\ due \in [Tabs -> [Panels -> 0..version]]
    /\ disturbed \in [Tabs -> SUBSET Panels]
    /\ broken \in [Tabs -> BOOLEAN]

(* A status is stored only by a task that has one to store; timers, panels *)
(* to settle and requests are of panels that are there.                    *)
Links(t) ==
    /\ item[t] # NoItem => pending[t] # <<>>
    /\ \A p \in Panels : timers[t][p] > 0 => Present(t, p)
    /\ \A p \in Panels : early[t][p] <= timers[t][p]
    /\ \A p \in Panels : p \in settling[t] => Present(t, p)
    /\ xhr[t] # NoRequest => Present(t, xhr[t].panel) /\ xhr[t].since <= version
    /\ queued[t] # "none" => Present(t, queued[t]) /\ xhr[t] # NoRequest

(* A panel that is open is stored so or will be by the task under way, and *)
(* that task stores what is shown; nobody changes the store between its    *)
(* getItem and its setItem.                                                *)
StoresAsShown(t) ==
    /\ \A p \in Panels : isAccordionOpen(t, p) =>
          store[p] = "open" \/ \E i \in DOMAIN pending[t] : pending[t][i] = Write(p, "open")
    /\ \A i \in DOMAIN pending[t] :
          pending[t][i].status = "open" <=> isAccordionOpen(t, pending[t][i].panel)
    /\ item[t] # NoItem => item[t] = store

(* A panel nothing overtook: it is not open while it is in the queue or    *)
(* reloaded by a request that found it closed, once the stored status was  *)
(* applied it is closed only if it is stored so, will be, or a timer is to *)
(* open it, and if it is open before it settles a timer is to open it that *)
(* was set since the swap.                                                 *)
Undisturbed(t) ==
    \A p \in Panels \ disturbed[t] :
        /\ queued[t] = p => ~isAccordionOpen(t, p)
        /\ xhr[t].panel = p /\ ~xhr[t].open => ~isAccordionOpen(t, p)
        /\ phase[t] = "ready" /\ dom[t][p] = "closed" =>
              \/ timers[t][p] > 0
              \/ store[p] # "open"
              \/ \E i \in DOMAIN pending[t] : pending[t][i] = Write(p, "closed")
        /\ phase[t] = "ready" /\ p \in settling[t] /\ isAccordionOpen(t, p) => timers[t][p] > early[t][p]

(* Where the last change is: behind a request in the queue, in the request *)
(* in flight or, when there is none, in some panel.  A button whose call   *)
(* is not due is in a panel that is there.                                 *)
ChangeOnItsWay(t) ==
    /\ \/ broken[t]
       \/ queued[t] # "none"
       \/ xhr[t] # NoRequest /\ xhr[t].since >= Latest(t)
       \/ xhr[t] = NoRequest /\ \E p \in Panels : shown[t][p] >= Latest(t)
    /\ "all" \in calls[t] => Present(t, "active") \/ Present(t, "wildcard")
    /\ \A p \in ProtocolPanels \cap calls[t] : Present(t, p)

TypeInv   == Typed /\ \A t \in Tabs : Links(t)
Counts    == done \in [visits : Nat, clicks : Nat, commands : Nat, cleans : Nat]
OneTabInv == TypeInv /\ Counts /\ \A t \in Tabs : StoresAsShown(t) /\ Undisturbed(t)
ChangeInv == TypeInv /\ \A t \in Tabs : ChangeOnItsWay(t)

(* No tab read the item and found it changed when it wrote it back.        *)
StoreInv ==
    /\ item = [t \in Tabs |-> item[t]]
    /\ overlapped \in BOOLEAN
    /\ ~overlapped => store = given /\ \A t \in Tabs : item[t] # NoItem => item[t] = store

-----------------------------------------------------------------------------
(* A set of naturals has a least element.                                  *)
LEMMA LeastNatural ==
  ASSUME NEW S \in SUBSET Nat, S # {}
  PROVE  \E x \in S : \A y \in S : x <= y
  <1>1. PICK x \in S : \A y \in S : ~ (<<y, x>> \in OpToRel(<, Nat))
    BY WFMin, NatLessThanWellFounded
  <1>2. \A y \in S : ~ (y < x)
    BY <1>1 DEF OpToRel
  <1> QED BY <1>2

-----------------------------------------------------------------------------
(* The panels of the page.                                                 *)
LEMMA PageOrderIs ==
  /\ Len(Protocols) \in Nat
  /\ DOMAIN Protocols = 1..Len(Protocols)
  /\ DOMAIN PageOrder = 1..(Len(Protocols) + 2)
  /\ \A p \in Panels : \E i \in DOMAIN PageOrder : PageOrder[i] = p
  <1>1. /\ Len(Protocols) \in Nat
        /\ DOMAIN Protocols = 1..Len(Protocols)
        /\ Protocols \in Seq(Panels)
    <2>1. Protocols \in [1..Len(Protocols) -> STRING] /\ Len(Protocols) \in Nat
      BY PanelsAssumption, LenProperties
    <2>2. Protocols \in [1..Len(Protocols) -> Panels]
      BY <2>1 DEF Panels, ProtocolPanels
    <2> QED BY <2>1, <2>2
  <1> DEFINE first == <<"active", "wildcard">>
  <1>a. first \in Seq(Panels) /\ Len(first) = 2 /\ first[1] = "active" /\ first[2] = "wildcard"
    BY DEF Panels
  <1> HIDE DEF first
  <1>2. /\ Len(PageOrder) = Len(Protocols) + 2
        /\ PageOrder \in Seq(Panels)
        /\ PageOrder[1] = "active" /\ PageOrder[2] = "wildcard"
        /\ \A i \in 1..Len(Protocols) : PageOrder[i + 2] = Protocols[i]
    <2>1. PageOrder = first \o Protocols
      BY DEF PageOrder, first
    <2>2. /\ PageOrder \in Seq(Panels)
          /\ Len(PageOrder) = Len(first) + Len(Protocols)
          /\ \A i \in 1..(Len(first) + Len(Protocols)) :
                PageOrder[i] = IF i <= Len(first) THEN first[i] ELSE Protocols[i - Len(first)]
      BY <1>1, <1>a, <2>1, ConcatProperties
    <2>3. Len(PageOrder) = Len(Protocols) + 2 /\ PageOrder[1] = "active" /\ PageOrder[2] = "wildcard"
      BY <1>1, <1>a, <2>2
    <2>4. ASSUME NEW i \in 1..Len(Protocols) PROVE PageOrder[i + 2] = Protocols[i]
      BY <1>1, <1>a, <2>2
    <2> QED BY <2>2, <2>3, <2>4
  <1>3. DOMAIN PageOrder = 1..(Len(Protocols) + 2)
    BY <1>1, <1>2
  <1>4. ASSUME NEW p \in Panels PROVE \E i \in DOMAIN PageOrder : PageOrder[i] = p
    <2>1. CASE p = "active"
      BY <1>1, <1>2, <1>3, <2>1
    <2>2. CASE p = "wildcard"
      BY <1>1, <1>2, <1>3, <2>2
    <2>3. CASE p \in ProtocolPanels
      <3>1. PICK i \in 1..Len(Protocols) : p = Protocols[i]
        BY <1>1, <2>3 DEF ProtocolPanels
      <3>2. i + 2 \in DOMAIN PageOrder /\ PageOrder[i + 2] = p
        BY <1>1, <1>2, <1>3, <3>1
      <3> QED BY <3>2
    <2> QED BY <2>1, <2>2, <2>3 DEF Panels
  <1> QED BY <1>1, <1>3, <1>4

LEMMA PlaceIs ==
  \A p \in Panels : Place(p) \in 1..(Len(Protocols) + 2) /\ PageOrder[Place(p)] = p
  BY PageOrderIs DEF Place

LEMMA PanelsFinite == IsFiniteSet(Panels)
  <1> DEFINE place == [p \in Panels |-> Place(p)]
  <1>1. place \in Injection(Panels, 1..(Len(Protocols) + 2))
    <2>1. place \in [Panels -> 1..(Len(Protocols) + 2)]
      BY PlaceIs
    <2>2. ASSUME NEW p \in Panels, NEW r \in Panels, place[p] = place[r] PROVE p = r
      BY <2>2, PlaceIs
    <2> QED BY <2>1, <2>2 DEF Injection, IsInjective
  <1>2. IsFiniteSet(1..(Len(Protocols) + 2))
    BY PageOrderIs, FS_Interval
  <1> QED BY <1>1, <1>2, FS_Injection

(* A listing of the panels ps, n of them, in the order of the page.        *)
Listings(ps, n) ==
    {q \in [1..n -> ps] : \A i, j \in 1..n : i < j => Place(q[i]) < Place(q[j])}

(* The last of some panels.                                                *)
LEMMA LastOnPage ==
  ASSUME NEW ps \in SUBSET Panels, ps # {}
  PROVE  \E m \in ps : \A p \in ps \ {m} : Place(p) < Place(m)
  <1> DEFINE n == Len(Protocols) + 2
             D == {d \in Nat : \E p \in ps : d = n - Place(p)}
  <1>1. n \in Nat /\ \A p \in ps : Place(p) \in 1..n /\ n - Place(p) \in Nat
    BY PageOrderIs, PlaceIs
  <1>2. D # {} /\ D \in SUBSET Nat
    BY <1>1
  <1>3. PICK d \in D : \A e \in D : d <= e
    BY <1>2, LeastNatural
  <1>4. PICK m \in ps : d = n - Place(m)
    BY <1>3
  <1>5. ASSUME NEW p \in ps \ {m} PROVE Place(p) < Place(m)
    <2>1. n - Place(m) <= n - Place(p)
      BY <1>1, <1>3, <1>4
    <2>2. Place(p) # Place(m)
      BY PlaceIs
    <2> QED BY <1>1, <2>1, <2>2
  <1> QED BY <1>4, <1>5

LEMMA ListingExists ==
  ASSUME NEW ps \in SUBSET Panels
  PROVE  Cardinality(ps) \in Nat /\ Listings(ps, Cardinality(ps)) # {}
  <1> DEFINE Bad == {n \in Nat : \E s \in SUBSET Panels : Cardinality(s) = n /\ Listings(s, n) = {}}
  <1>0. \A s \in SUBSET Panels : IsFiniteSet(s) /\ Cardinality(s) \in Nat
    BY PanelsFinite, FS_Subset, FS_CardinalityType
  <1>1. SUFFICES Bad = {}
    BY <1>0
  <1>2. SUFFICES ASSUME Bad # {} PROVE FALSE
    OBVIOUS
  <1>3. PICK n \in Bad : \A k \in Bad : n <= k
    <2>1. Bad \in SUBSET Nat
      OBVIOUS
    <2> QED BY <1>2, <2>1, LeastNatural
  <1>4. PICK s \in SUBSET Panels : Cardinality(s) = n /\ Listings(s, n) = {}
    BY <1>3
  <1>5. CASE s = {}
    <2>1. n = 0
      BY <1>4, <1>5, FS_EmptySet
    <2>2. << >> \in Listings(s, n)
      BY <1>5, <2>1 DEF Listings
    <2> QED BY <1>4, <2>2
  <1>6. CASE s # {}
    <2>1. PICK m \in s : \A p \in s \ {m} : Place(p) < Place(m)
      BY <1>6, LastOnPage
    <2>2. n \in Nat /\ n # 0 /\ Cardinality(s \ {m}) = n - 1
      BY <1>0, <1>3, <1>4, <2>1, <1>6, FS_RemoveElement, FS_EmptySet
    <2>3. n - 1 \notin Bad
      BY <1>3, <2>2
    <2>4. PICK q \in Listings(s \ {m}, n - 1) : TRUE
      BY <2>2, <2>3
    <2>5. /\ q \in [1..(n - 1) -> s \ {m}]
          /\ \A i, j \in 1..(n - 1) : i < j => Place(q[i]) < Place(q[j])
      BY <2>4 DEF Listings
    <2> DEFINE r == [i \in 1..n |-> IF i = n THEN m ELSE q[i]]
    <2>6. \A i \in 1..n : i # n => i \in 1..(n - 1)
      BY <2>2
    <2>7. r \in [1..n -> s]
      BY <2>1, <2>5, <2>6
    <2>8. ASSUME NEW i \in 1..n, NEW j \in 1..n, i < j PROVE Place(r[i]) < Place(r[j])
      <3>1. i # n /\ i \in 1..(n - 1) /\ r[i] = q[i] /\ q[i] \in s \ {m}
        BY <2>2, <2>5, <2>6, <2>8
      <3>2. CASE j = n
        BY <2>1, <3>1, <3>2
      <3>3. CASE j # n
        BY <2>5, <2>6, <2>8, <3>1, <3>3
      <3> QED BY <3>2, <3>3
    <2>9. r \in Listings(s, n)
      BY <2>7, <2>8 DEF Listings
    <2> QED BY <1>4, <2>9
  <1> QED BY <1>5, <1>6

(* What InPageOrder returns.                                               *)
LEMMA InPageOrderIs ==
  ASSUME NEW ps \in SUBSET Panels
  PROVE  /\ InPageOrder(ps) \in Seq(ps)
         /\ Len(InPageOrder(ps)) = Cardinality(ps)
         /\ ps # {} => InPageOrder(ps) # << >>
  <1> DEFINE n == Cardinality(ps)
  <1>1. n \in Nat /\ Listings(ps, n) # {}
    BY ListingExists
  <1>2. PICK r \in [1..n -> ps] : \A i, j \in 1..n : i < j => Place(r[i]) < Place(r[j])
    BY <1>1 DEF Listings
  <1>3. \A i, j \in DOMAIN r : i < j => Place(r[i]) < Place(r[j])
    BY <1>2
  <1>4. InPageOrder(ps) \in [1..n -> ps]
    BY <1>2, <1>3 DEF InPageOrder
  <1>5. ps # {} => n # 0
    BY PanelsFinite, FS_Subset, FS_EmptySet
  <1> HIDE DEF n
  <1>6. InPageOrder(ps) \in Seq(ps) /\ Len(InPageOrder(ps)) = n
    BY <1>1, <1>4
  <1>7. n # 0 => InPageOrder(ps) # << >>
    BY <1>6
  <1> QED BY <1>5, <1>6, <1>7 DEF n

-----------------------------------------------------------------------------
(* The status stored is the last one given.                                *)
LEMMA StoreInit == Init => StoreInv
  BY DEF Init, StoreInv

LEMMA StoreNext == StoreInv /\ [Next]_vars => StoreInv'
  <1> SUFFICES ASSUME StoreInv, [Next]_vars PROVE StoreInv'
    OBVIOUS
  <1> USE DEF StoreInv
  <1>1. CASE UNCHANGED <<store, item, given, overlapped>>
    BY <1>1
  <1>2. ASSUME NEW t \in Tabs, getAccordionStatus(t) PROVE StoreInv'
    <2>1. item' = [item EXCEPT ![t] = store] /\ UNCHANGED <<store, given, overlapped>>
      BY <1>2 DEF getAccordionStatus
    <2>2. item' = [u \in Tabs |-> item'[u]] /\ \A u \in Tabs : item'[u] = IF u = t THEN store ELSE item[u]
      BY <2>1
    <2> QED BY <2>1, <2>2
  <1>3. ASSUME NEW t \in Tabs, setAccordionStatus(t) PROVE StoreInv'
    <2> DEFINE w == Head(pending[t])
    <2>1. /\ item[t] # NoItem
          /\ store' = [item[t] EXCEPT ![w.panel] = w.status]
          /\ given' = [given EXCEPT ![w.panel] = w.status]
          /\ overlapped' = (overlapped \/ \E u \in Tabs \ {t} : item[u] # NoItem)
          /\ item' = [item EXCEPT ![t] = NoItem]
      BY <1>3 DEF setAccordionStatus
    <2> HIDE DEF w
    <2>2. item' = [u \in Tabs |-> item'[u]] /\ \A u \in Tabs : item'[u] = IF u = t THEN NoItem ELSE item[u]
      BY <2>1
    <2>3. overlapped' \in BOOLEAN
      BY <2>1
    <2>4. ASSUME ~overlapped' PROVE store' = given' /\ \A u \in Tabs : item'[u] # NoItem => item'[u] = store'
      <3>1. ~overlapped /\ \A u \in Tabs \ {t} : item[u] = NoItem
        BY <2>1, <2>4
      <3>2. store = given /\ item[t] = store
        BY <2>1, <3>1
      <3> QED BY <2>1, <2>2, <3>1, <3>2
    <2> QED BY <2>2, <2>3, <2>4
  <1>4. CASE cleanAccordionStatus
    <2>1. /\ store' = given'
          /\ overlapped' = (overlapped \/ \E u \in Tabs : item[u] # NoItem)
          /\ item' = item
      BY <1>4 DEF cleanAccordionStatus
    <2> QED BY <2>1
  <1> HIDE DEF StoreInv
  <1>5. ASSUME NEW t \in Tabs,
               Visit(t) \/ Leave(t) \/ AjaxAnswer(t) \/ AjaxRefused(t) \/ AjaxFailed(t)
        PROVE  StoreInv'
    <2>1. UNCHANGED storage
      BY <1>5 DEF Visit, Leave, AjaxAnswer, AjaxRefused, AjaxFailed
    <2> QED BY <1>1, <2>1 DEF storage
  <1>6. ASSUME NEW t \in Tabs, NEW named \in Panels \cup {"none"}, loadPanels(t, named) PROVE StoreInv'
    <2>1. UNCHANGED <<store, item, given, overlapped>>
      BY <1>6 DEF loadPanels
    <2> QED BY <1>1, <2>1
  <1>7. ASSUME NEW t \in Tabs, NEW p \in Panels,
               Arrive(t, p) \/ toggleAccordion(t, p) \/ openAccordion(t, p) \/ Settle(t, p)
        PROVE  StoreInv'
    <2>1. UNCHANGED <<store, item, given, overlapped>>
      BY <1>7 DEF Arrive, toggleAccordion, openAccordion, Settle, storage
    <2> QED BY <1>1, <2>1
  <1>8. ASSUME NEW t \in Tabs, NEW b \in Buttons, Command(t, b) \/ getData(t, b) \/ getDataFails(t, b)
        PROVE  StoreInv'
    <2>1. UNCHANGED storage
      BY <1>8 DEF Command, getData, getDataFails
    <2> QED BY <1>1, <2>1 DEF storage
  <1>9. CASE UNCHANGED vars
    BY <1>1, <1>9 DEF vars, storage
  <1> QED BY <1>2, <1>3, <1>4, <1>5, <1>6, <1>7, <1>8, <1>9 DEF Next

(***************************************************************************)
(* Whatever tabs do, the status stored for each panel is the last one a    *)
(* tab gave it, unless two tabs were inside setAccordionStatus at once.    *)
(***************************************************************************)
THEOREM StoredLast == Spec => []LastStatusStored
  <1>1. StoreInv => LastStatusStored
    BY DEF StoreInv, LastStatusStored
  <1> QED BY StoreInit, StoreNext, <1>1, PTL DEF Spec

-----------------------------------------------------------------------------
(* The panels a chain of reloads reaches, and the ones a task asks for.    *)
LEMMA ReachableIs ==
  ASSUME NEW t \in Tabs, NEW ps \in Seq(Panels)
  PROVE  /\ Reachable(t, ps) \in Seq({p \in Panels : Present(t, p)})
         /\ Reachable(t, ps) # <<>> => ps # <<>> /\ Present(t, ps[1])
         /\ ps # <<>> /\ Present(t, ps[1]) => Reachable(t, ps) # <<>>
  <1> DEFINE Ends(n) == /\ \A i \in 1..n : Present(t, ps[i])
                        /\ n < Len(ps) => ~Present(t, ps[n + 1])
             N == {n \in Nat : n <= Len(ps) /\ (n < Len(ps) => ~Present(t, ps[n + 1]))}
             m == CHOOSE n \in 0..Len(ps) : Ends(n)
             Here == {p \in Panels : Present(t, p)}
  <1>0. Len(ps) \in Nat /\ \A i \in 1..Len(ps) : ps[i] \in Panels
    OBVIOUS
  <1>1. \E n \in 0..Len(ps) : Ends(n)
    <2>1. Len(ps) \in N /\ N \in SUBSET Nat
      BY <1>0
    <2>2. PICK n \in N : \A k \in N : n <= k
      BY <2>1, LeastNatural
    <2>3. ASSUME NEW i \in 1..n PROVE Present(t, ps[i])
      <3>1. i - 1 \in Nat /\ i - 1 < n /\ i - 1 < Len(ps) /\ (i - 1) + 1 = i
        BY <1>0, <2>2
      <3>2. i - 1 \notin N
        BY <2>2, <3>1
      <3> QED BY <3>1, <3>2
    <2> QED BY <1>0, <2>2, <2>3
  <1>2. m \in 0..Len(ps) /\ Ends(m)
    BY <1>1
  <1>3. Reachable(t, ps) = SubSeq(ps, 1, m)
    BY DEF Reachable
  <1> HIDE DEF m
  <1>4. \A i \in 1..m : ps[i] \in Here
    BY <1>0, <1>2
  <1>5. Reachable(t, ps) \in Seq(Here) /\ Len(Reachable(t, ps)) = m
    <2>1. m \in Int /\ 1 \in Int /\ (IF 1 <= m THEN m - 1 + 1 ELSE 0) = m
      BY <1>0, <1>2
    <2> QED BY <1>3, <1>4, <2>1, SubSeqProperties
  <1>6. Reachable(t, ps) # <<>> <=> m # 0
    BY <1>5, EmptySeq
  <1>7. m # 0 => ps # <<>> /\ Present(t, ps[1])
    BY <1>0, <1>2
  <1>8. ps # <<>> /\ Present(t, ps[1]) => m # 0
    BY <1>0, <1>2
  <1> QED BY <1>5, <1>6, <1>7, <1>8

LEMMA AskedIs ==
  ASSUME NEW t \in Tabs, NEW ps \in Seq(Panels), NEW fan \in BOOLEAN, NEW taken \in BOOLEAN
  PROVE  /\ Asked(t, ps, fan, taken) \in Seq({p \in Panels : Present(t, p)})
         /\ Asked(t, ps, fan, taken) # <<>> => fan \/ ps # <<>>
         /\ ~fan /\ ps # <<>> /\ Present(t, ps[1]) => Asked(t, ps, fan, taken) # <<>>
  <1> DEFINE Here == {p \in Panels : Present(t, p)}
  <1>1. CASE fan
    <2> DEFINE some == {p \in Panels : Present(t, p) /\ \E i \in DOMAIN ps : ps[i] = p}
    <2>1. some \in SUBSET Panels /\ some \subseteq Here
      OBVIOUS
    <2>2. InPageOrder(some) \in Seq(some)
      BY <2>1, InPageOrderIs
    <2>3. InPageOrder(some) \in Seq(Here)
      BY <2>1, <2>2, SeqMonotonic
    <2> QED BY <1>1, <2>3 DEF Asked
  <1>2. CASE ~fan /\ (taken \/ Reachable(t, ps) = <<>>)
    BY <1>2, ReachableIs DEF Asked
  <1>3. CASE ~fan /\ ~(taken \/ Reachable(t, ps) = <<>>)
    <2>1. Asked(t, ps, fan, taken) = <<ps[1]>>
      BY <1>3 DEF Asked
    <2>2. ps # <<>> /\ Present(t, ps[1])
      BY <1>3, ReachableIs
    <2>3. ps[1] \in Here
      BY <2>2
    <2> QED BY <2>1, <2>2, <2>3
  <1> QED BY <1>1, <1>2, <1>3

(* A request is never the one that says that there is none.                *)
LEMMA RequestIsOne ==
  /\ "none" \notin Panels
  /\ NoRequest.panel = "none" /\ NoRequest \notin Request
  /\ \A r \in Request : r # NoRequest /\ r.panel \in Panels /\ r.open \in BOOLEAN
                          /\ r.next \in Seq(Panels) /\ r.fan \in BOOLEAN /\ r.since \in Nat
  <1>1. "none" \notin Panels
    BY PanelsAssumption DEF Panels
  <1> QED BY <1>1 DEF Request, NoRequest

(***************************************************************************)
(* What Reload does in tab t.  The lock stays as it is or goes to a panel  *)
(* that is there, with what it shows when it is asked for; the queue keeps *)
(* its place or has a panel that counts as disturbed; no timer is lost and *)
(* the panel to be opened again gets one.                                  *)
(***************************************************************************)
Reloaded(t, ps, fan, lock, place, reopen) ==
    /\ xhr' \in [Tabs -> Request \cup {NoRequest}]
    /\ queued' \in [Tabs -> Panels \cup {"none"}]
    /\ timers' \in [Tabs -> [Panels -> Nat]]
    /\ disturbed' \in [Tabs -> SUBSET Panels]
    /\ \A u \in Tabs \ {t} : /\ xhr'[u] = xhr[u] /\ queued'[u] = queued[u]
                             /\ timers'[u] = timers[u] /\ disturbed'[u] = disturbed[u]
    /\ \/ xhr'[t] = lock
       \/ /\ lock = NoRequest /\ xhr'[t] \in Request
          /\ Present(t, xhr'[t].panel)
          /\ xhr'[t].since = version'
          /\ xhr'[t].open <=> dom'[t][xhr'[t].panel] = "open"
          /\ timers[t][xhr'[t].panel] > 0 => xhr'[t].panel \in disturbed'[t]
    /\ \/ queued'[t] = place
       \/ queued'[t] \in Panels /\ Present(t, queued'[t]) /\ queued'[t] \in disturbed'[t]
          /\ xhr'[t] # NoRequest
    /\ \A p \in Panels : /\ timers'[t][p] >= timers[t][p]
                         /\ p \in reopen => timers'[t][p] > timers[t][p]
                         /\ timers'[t][p] > 0 => timers[t][p] > 0 \/ p \in reopen \/ dom'[t][p] = "open"
    /\ disturbed[t] \subseteq disturbed'[t]
    /\ ~fan /\ ps # <<>> /\ Present(t, ps[1]) =>
         queued'[t] # "none" \/ (xhr'[t] # NoRequest /\ xhr'[t].since = version')

LEMMA ReloadIs ==
  ASSUME NEW t \in Tabs, NEW ps \in Seq(Panels), NEW fan \in BOOLEAN, NEW thenFan \in BOOLEAN,
         NEW lock \in Request \cup {NoRequest}, NEW place \in Panels \cup {"none"},
         NEW reopen \in SUBSET Panels,
         Typed, version' \in Nat,
         dom' \in [Tabs -> [Panels -> {"absent", "closed", "open"}]],
         Reload(t, ps, fan, thenFan, lock, place, reopen)
  PROVE  Reloaded(t, ps, fan, lock, place, reopen)
  <1> DEFINE taken  == lock # NoRequest
             asked  == Asked(t, ps, fan, taken)
             behind == IF taken \/ asked = <<>> THEN asked ELSE Tail(asked)
             behinds == {behind[i] : i \in DOMAIN behind}
             askeds == {asked[i] : i \in DOMAIN asked}
             reopened == {p \in behinds : dom'[t][p] = "open"}
             new == [panel |-> asked[1], open |-> dom'[t][asked[1]] = "open",
                     next |-> IF fan THEN <<>> ELSE Tail(ps), fan |-> thenFan, since |-> version']
             Here == {p \in Panels : Present(t, p)}
  <1>1. /\ xhr' = [xhr EXCEPT ![t] = IF taken \/ asked = <<>> THEN lock ELSE new]
        /\ queued' = [queued EXCEPT ![t] = IF behind = <<>> THEN place ELSE behind[Len(behind)]]
        /\ timers' = [timers EXCEPT ![t] = [p \in Panels |->
                        @[p] + (IF p \in reopened THEN 1 ELSE 0) + (IF p \in reopen THEN 1 ELSE 0)]]
        /\ disturbed' = [disturbed EXCEPT ![t] =
                          @ \cup behinds \cup {p \in askeds : timers[t][p] > 0}]
    BY DEF Reload
  <1>2. /\ asked \in Seq(Here) /\ (asked # <<>> => fan \/ ps # <<>>)
        /\ ~fan /\ ps # <<>> /\ Present(t, ps[1]) => asked # <<>>
    BY AskedIs
  <1> HIDE DEF asked
  <1>3. behind \in Seq(Here) /\ askeds \subseteq Here
    BY <1>2
  <1> HIDE DEF behind, askeds
  <1>4. behinds \subseteq Here /\ reopened \subseteq Panels
    BY <1>3
  <1>5. behind # <<>> => behind[Len(behind)] \in behinds
    BY <1>3
  <1>6. asked # <<>> => asked[1] \in askeds /\ asked[1] \in Here
    BY <1>2, <1>3 DEF askeds
  <1>7. asked # <<>> => new \in Request
    <2>1. asked # <<>> => (IF fan THEN <<>> ELSE Tail(ps)) \in Seq(Panels)
      BY <1>2
    <2>2. asked # <<>> => asked[1] \in Panels
      BY <1>6
    <2>3. (dom'[t][asked[1]] = "open") \in BOOLEAN
      OBVIOUS
    <2> QED BY <2>1, <2>2, <2>3 DEF Request
  <1>8. new.panel = asked[1] /\ (new.open <=> dom'[t][asked[1]] = "open") /\ new.since = version'
    OBVIOUS
  <1> HIDE DEF new, reopened, behinds
  <1>a. /\ xhr' \in [Tabs -> Request \cup {NoRequest}]
        /\ queued' \in [Tabs -> Panels \cup {"none"}]
        /\ disturbed' \in [Tabs -> SUBSET Panels]
    <2>1. (IF taken \/ asked = <<>> THEN lock ELSE new) \in Request \cup {NoRequest}
      BY <1>7
    <2>2. (IF behind = <<>> THEN place ELSE behind[Len(behind)]) \in Panels \cup {"none"}
      BY <1>4, <1>5
    <2>3. (disturbed[t] \cup behinds \cup {p \in askeds : timers[t][p] > 0}) \in SUBSET Panels
      BY <1>3, <1>4 DEF Typed
    <2> QED BY <1>1, <2>1, <2>2, <2>3 DEF Typed
  <1>b. timers' \in [Tabs -> [Panels -> Nat]]
    <2>1. [p \in Panels |-> timers[t][p] + (IF p \in reopened THEN 1 ELSE 0)
                               + (IF p \in reopen THEN 1 ELSE 0)] \in [Panels -> Nat]
      BY DEF Typed
    <2> QED BY <1>1, <2>1 DEF Typed
  <1>c. \A u \in Tabs \ {t} : /\ xhr'[u] = xhr[u] /\ queued'[u] = queued[u]
                              /\ timers'[u] = timers[u] /\ disturbed'[u] = disturbed[u]
    BY <1>1 DEF Typed
  <1>d. /\ xhr'[t] = (IF taken \/ asked = <<>> THEN lock ELSE new)
        /\ queued'[t] = (IF behind = <<>> THEN place ELSE behind[Len(behind)])
        /\ disturbed'[t] = disturbed[t] \cup behinds \cup {p \in askeds : timers[t][p] > 0}
        /\ \A p \in Panels : timers'[t][p] = timers[t][p] + (IF p \in reopened THEN 1 ELSE 0)
                                                           + (IF p \in reopen THEN 1 ELSE 0)
    BY <1>1 DEF Typed
  <1>e. \/ xhr'[t] = lock
        \/ /\ lock = NoRequest /\ xhr'[t] \in Request
           /\ Present(t, xhr'[t].panel)
           /\ xhr'[t].since = version'
           /\ xhr'[t].open <=> dom'[t][xhr'[t].panel] = "open"
           /\ timers[t][xhr'[t].panel] > 0 => xhr'[t].panel \in disturbed'[t]
    <2>1. CASE taken \/ asked = <<>>
      BY <1>d, <2>1
    <2>2. CASE ~(taken \/ asked = <<>>)
      <3>1. xhr'[t] = new
        BY <1>d, <2>2
      <3> QED BY <1>6, <1>7, <1>8, <1>d, <2>2, <3>1
    <2> QED BY <2>1, <2>2
  <1>f. behind # <<>> => xhr'[t] # NoRequest
    <2>1. behind # <<>> => asked # <<>>
      BY DEF behind
    <2> QED BY <1>7, <1>d, <2>1, RequestIsOne
  <1>g. \/ queued'[t] = place
        \/ queued'[t] \in Panels /\ Present(t, queued'[t]) /\ queued'[t] \in disturbed'[t]
           /\ xhr'[t] # NoRequest
    BY <1>4, <1>5, <1>d, <1>f
  <1>h. \A p \in Panels : /\ timers'[t][p] >= timers[t][p]
                          /\ p \in reopen => timers'[t][p] > timers[t][p]
                          /\ timers'[t][p] > 0 => timers[t][p] > 0 \/ p \in reopen \/ dom'[t][p] = "open"
    <2> TAKE p \in Panels
    <2>1. timers[t][p] \in Nat /\ (p \in reopened => dom'[t][p] = "open")
      BY DEF Typed, reopened
    <2> QED BY <1>d, <2>1
  <1>i. disturbed[t] \subseteq disturbed'[t]
    BY <1>d
  <1>j. ~fan /\ ps # <<>> /\ Present(t, ps[1]) =>
          queued'[t] # "none" \/ (xhr'[t] # NoRequest /\ xhr'[t].since = version')
    <2> SUFFICES ASSUME asked # <<>>
                 PROVE  queued'[t] # "none" \/ (xhr'[t] # NoRequest /\ xhr'[t].since = version')
      BY <1>2
    <2>1. CASE taken
      <3>1. behind # <<>>
        BY <2>1 DEF behind
      <3> QED BY <1>4, <1>5, <1>d, <3>1, RequestIsOne
    <2>2. CASE ~taken
      <3>1. xhr'[t] = new
        BY <1>d, <2>2
      <3> QED BY <1>7, <1>8, <3>1, RequestIsOne
    <2> QED BY <2>1, <2>2
  <1> QED BY <1>a, <1>b, <1>c, <1>e, <1>g, <1>h, <1>i, <1>j DEF Reloaded

(* The request in the queue, when it takes the lock.                       *)
LEMMA FromQueueIs ==
  ASSUME NEW t \in Tabs, Typed
  PROVE  /\ FromQueue(t) \in Request \cup {NoRequest}
         /\ queued[t] = "none" => FromQueue(t) = NoRequest
         /\ queued[t] # "none" =>
              /\ FromQueue(t) \in Request
              /\ FromQueue(t).panel = queued[t]
              /\ FromQueue(t).open = FALSE
              /\ FromQueue(t).since = version
  <1>1. CASE queued[t] = "none"
    BY <1>1 DEF FromQueue
  <1>2. CASE queued[t] # "none"
    <2>1. queued[t] \in Panels /\ version \in Nat /\ << >> \in Seq(Panels)
      BY <1>2 DEF Typed
    <2>2. FromQueue(t) = [panel |-> queued[t], open |-> FALSE, next |-> <<>>, fan |-> FALSE, since |-> version]
      BY <1>2 DEF FromQueue, NoRequest
    <2> QED BY <1>2, <2>1, <2>2 DEF Request
  <1> QED BY <1>1, <1>2

(* The reloads the buttons ask for.                                        *)
LEMMA ButtonsReload ==
  /\ \A t \in Tabs : InPageOrder({p \in Panels : Present(t, p)}) \in Seq(Panels)
  /\ \A b \in Buttons \ {"all"} : b \in ProtocolPanels /\ <<b, "wildcard", "active">> \in Seq(Panels)
  <1>1. ASSUME NEW t \in Tabs PROVE InPageOrder({p \in Panels : Present(t, p)}) \in Seq(Panels)
    <2> DEFINE here == {p \in Panels : Present(t, p)}
    <2>1. here \in SUBSET Panels
      OBVIOUS
    <2>2. InPageOrder(here) \in Seq(here)
      BY <2>1, InPageOrderIs
    <2> QED BY <2>1, <2>2, SeqMonotonic
  <1>2. ASSUME NEW b \in Buttons \ {"all"}
        PROVE  b \in ProtocolPanels /\ <<b, "wildcard", "active">> \in Seq(Panels)
    BY DEF Buttons, Panels
  <1> QED BY <1>1, <1>2

-----------------------------------------------------------------------------
(* What a step leaves alone keeps its links.                               *)
LEMMA LinksKept ==
  ASSUME NEW u \in Tabs, Links(u), Typed, version' \in Nat, version' >= version,
         dom'[u] = dom[u], pending'[u] = pending[u], item'[u] = item[u], timers'[u] = timers[u],
         settling'[u] = settling[u], early'[u] = early[u], xhr'[u] = xhr[u], queued'[u] = queued[u]
  PROVE  Links(u)'
  <1>1. xhr[u] # NoRequest => xhr[u].since \in Nat
    BY RequestIsOne DEF Typed
  <1> QED BY <1>1 DEF Links, Present, Typed

(* Panels are swapped in tab t only.                                       *)
SwapOf(t) ==
    /\ early' \in [Tabs -> [Panels -> Nat]]
    /\ \A u \in Tabs \ {t} : settling'[u] = settling[u] /\ early'[u] = early[u]
    /\ \A p \in Panels : p \in settling'[t] => Present(t, p)
    /\ \A p \in Panels : early'[t][p] <= timers[t][p]

(* A step that reloads: no panel comes or goes.                            *)
LEMMA ReloadLinks ==
  ASSUME TypeInv,
         NEW t \in Tabs, NEW ps \in Seq(Panels), NEW fan \in BOOLEAN, NEW thenFan \in BOOLEAN,
         NEW lock \in Request \cup {NoRequest}, NEW place \in Panels \cup {"none"},
         NEW reopen \in SUBSET Panels,
         version' \in Nat, version' >= version,
         dom' \in [Tabs -> [Panels -> {"absent", "closed", "open"}]],
         \A u \in Tabs \ {t} : dom'[u] = dom[u],
         \A p \in Panels : dom'[t][p] = "absent" <=> dom[t][p] = "absent",
         pending' = pending, item' = item,
         SwapOf(t),
         Reload(t, ps, fan, thenFan, lock, place, reopen),
         \A p \in reopen : Present(t, p),
         lock # NoRequest => Present(t, lock.panel) /\ lock.since <= version',
         place # "none" => Present(t, place) /\ lock # NoRequest
  PROVE  /\ xhr' \in [Tabs -> Request \cup {NoRequest}]
         /\ queued' \in [Tabs -> Panels \cup {"none"}]
         /\ timers' \in [Tabs -> [Panels -> Nat]]
         /\ disturbed' \in [Tabs -> SUBSET Panels]
         /\ \A u \in Tabs : Links(u)'
  <1>1. Typed /\ Links(t)
    BY DEF TypeInv
  <1>r. Reloaded(t, ps, fan, lock, place, reopen)
    BY <1>1, ReloadIs
  <1>2. /\ xhr' \in [Tabs -> Request \cup {NoRequest}]
        /\ queued' \in [Tabs -> Panels \cup {"none"}]
        /\ timers' \in [Tabs -> [Panels -> Nat]]
        /\ disturbed' \in [Tabs -> SUBSET Panels]
        /\ \A u \in Tabs \ {t} : /\ xhr'[u] = xhr[u] /\ queued'[u] = queued[u]
                                  /\ timers'[u] = timers[u] /\ disturbed'[u] = disturbed[u]
    BY <1>r DEF Reloaded
  <1>3. \/ xhr'[t] = lock
        \/ lock = NoRequest /\ xhr'[t] \in Request /\ Present(t, xhr'[t].panel) /\ xhr'[t].since = version'
    BY <1>r DEF Reloaded
  <1>4. \/ queued'[t] = place
        \/ queued'[t] \in Panels /\ Present(t, queued'[t]) /\ xhr'[t] # NoRequest
    BY <1>r DEF Reloaded
  <1>5. \A p \in Panels : timers'[t][p] > 0 => timers[t][p] > 0 \/ p \in reopen \/ dom'[t][p] = "open"
    BY <1>r DEF Reloaded
  <1>6. \A p \in Panels : Present(t, p)' <=> Present(t, p)
    BY DEF Present
  <1>e. \A p \in Panels : early'[t][p] <= timers'[t][p]
    <2> TAKE p \in Panels
    <2>1. timers'[t][p] >= timers[t][p] /\ early'[t][p] <= timers[t][p]
      BY <1>r DEF Reloaded, SwapOf
    <2>2. timers'[t][p] \in Nat /\ timers[t][p] \in Nat /\ early'[t][p] \in Nat
      BY <1>1, <1>2 DEF Typed, SwapOf
    <2> QED BY <2>1, <2>2
  <1>7. Links(t)'
    <2>1. item'[t] # NoItem => pending'[t] # <<>>
      BY <1>1 DEF Links
    <2>2. \A p \in Panels : timers'[t][p] > 0 => Present(t, p)'
      <3> TAKE p \in Panels
      <3>1. timers[t][p] > 0 => Present(t, p)
        BY <1>1 DEF Links
      <3>2. dom'[t][p] = "open" => Present(t, p)'
        BY DEF Present
      <3> QED BY <1>5, <1>6, <3>1, <3>2
    <2>3. xhr'[t] # NoRequest => dom'[t][xhr'[t].panel] # "absent" /\ xhr'[t].since <= version'
      <3>1. CASE xhr'[t] = lock
        <4>1. lock # NoRequest => lock.panel \in Panels
          BY RequestIsOne
        <4> QED BY <1>6, <3>1, <4>1 DEF Present
      <3>2. CASE xhr'[t] \in Request /\ Present(t, xhr'[t].panel) /\ xhr'[t].since = version'
        <4>1. xhr'[t].panel \in Panels
          BY <3>2, RequestIsOne
        <4> QED BY <1>6, <3>2, <4>1 DEF Present
      <3> QED BY <1>3, <3>1, <3>2
    <2>4. queued'[t] # "none" => dom'[t][queued'[t]] # "absent" /\ xhr'[t] # NoRequest
      <3>1. CASE queued'[t] = place
        <4>1. lock # NoRequest => xhr'[t] # NoRequest
          BY <1>3
        <4> QED BY <1>6, <3>1, <4>1 DEF Present
      <3>2. CASE queued'[t] \in Panels /\ Present(t, queued'[t]) /\ xhr'[t] # NoRequest
        BY <1>6, <3>2 DEF Present
      <3> QED BY <1>4, <3>1, <3>2
    <2>5. \A p \in Panels : p \in settling'[t] => Present(t, p)'
      BY <1>6 DEF SwapOf
    <2> QED BY <1>e, <2>1, <2>2, <2>3, <2>4, <2>5 DEF Links, Present
  <1>8. ASSUME NEW u \in Tabs \ {t} PROVE Links(u)'
    BY <1>1, <1>2, LinksKept DEF TypeInv, SwapOf
  <1> QED BY <1>2, <1>7, <1>8

-----------------------------------------------------------------------------
(* Type correctness.                                                       *)
LEMMA TypeInit == Init => TypeInv
  <1> SUFFICES ASSUME Init PROVE TypeInv
    OBVIOUS
  <1>1. store \in [Panels -> Statuses]
    BY PanelsAssumption DEF Init
  <1>2. << >> \in Seq(Writes)
    OBVIOUS
  <1>3. Typed
    BY <1>1, <1>2 DEF Init, Typed
  <1>4. ASSUME NEW t \in Tabs PROVE Links(t)
    BY DEF Init, Links
  <1> QED BY <1>3, <1>4 DEF TypeInv

(* The steps that store a status.                                          *)
LEMMA TypeStorage ==
  ASSUME TypeInv,
         cleanAccordionStatus \/ \E t \in Tabs : getAccordionStatus(t) \/ setAccordionStatus(t)
  PROVE  TypeInv'
  <1>1. Typed /\ \A t \in Tabs : Links(t)
    BY DEF TypeInv
  <1>2. ASSUME NEW t \in Tabs, getAccordionStatus(t) PROVE TypeInv'
    <2>1. /\ pending[t] # <<>> /\ item' = [item EXCEPT ![t] = store]
          /\ UNCHANGED <<page, store, pending, htmx, server, disturbed>>
      BY <1>2 DEF getAccordionStatus
    <2>2. Typed'
      BY <1>1, <2>1 DEF Typed, page, swap, htmx, server
    <2>3. ASSUME NEW u \in Tabs PROVE Links(u)'
      BY <1>1, <2>1 DEF Typed, Links, Present, page, swap, htmx, server
    <2> QED BY <2>2, <2>3 DEF TypeInv
  <1>3. ASSUME NEW t \in Tabs, setAccordionStatus(t) PROVE TypeInv'
    <2> DEFINE w == Head(pending[t])
    <2>1. /\ item[t] # NoItem
          /\ store' = [item[t] EXCEPT ![w.panel] = w.status]
          /\ item' = [item EXCEPT ![t] = NoItem]
          /\ pending' = [pending EXCEPT ![t] = Tail(@)]
          /\ UNCHANGED <<page, htmx, server, disturbed>>
      BY <1>3 DEF setAccordionStatus
    <2>2. pending[t] \in Seq(Writes) /\ pending[t] # <<>> /\ item[t] \in [Panels -> Statuses]
      BY <1>1, <2>1 DEF Typed, Links
    <2>3. w \in Writes /\ Tail(pending[t]) \in Seq(Writes)
      BY <2>2
    <2>4. w.panel \in Panels /\ w.status \in Statuses
      BY <2>3 DEF Writes, Statuses
    <2> HIDE DEF w
    <2>5. store' \in [Panels -> Statuses]
      BY <2>1, <2>2, <2>4
    <2>6. Typed'
      BY <1>1, <2>1, <2>3, <2>5 DEF Typed, page, swap, htmx, server
    <2>7. ASSUME NEW u \in Tabs PROVE Links(u)'
      <3>1. CASE u = t
        BY <1>1, <2>1, <3>1 DEF Typed, Links, Present, page, swap, htmx, server
      <3>2. CASE u # t
        BY <1>1, <2>1, <3>2 DEF Typed, Links, Present, page, swap, htmx, server
      <3> QED BY <3>1, <3>2
    <2> QED BY <2>6, <2>7 DEF TypeInv
  <1>4. CASE cleanAccordionStatus
    <2>1. /\ store' = [p \in Panels |-> "none"]
          /\ UNCHANGED <<page, pending, item, htmx, server, disturbed>>
      BY <1>4 DEF cleanAccordionStatus
    <2>2. Typed'
      BY <1>1, <2>1 DEF Typed, Statuses, page, swap, htmx, server
    <2>3. ASSUME NEW u \in Tabs PROVE Links(u)'
      BY <1>1, <2>1 DEF Links, Present, page, swap, htmx, server
    <2> QED BY <2>2, <2>3 DEF TypeInv
  <1> QED BY <1>2, <1>3, <1>4

(* The steps of a tab that ask for no reload.                              *)
LEMMA TypeVisit == ASSUME TypeInv, NEW t \in Tabs, Visit(t) PROVE TypeInv'
  BY DEF TypeInv, Typed, Links, Present, Visit, swap, storage, htmx, server

LEMMA TypeArrive == ASSUME TypeInv, NEW t \in Tabs, NEW p \in Panels, Arrive(t, p) PROVE TypeInv'
  <1>1. Typed /\ \A u \in Tabs : Links(u)
    BY DEF TypeInv
  <1>2. /\ dom' = [dom EXCEPT ![t][p] = "closed"]
        /\ shown' = [shown EXCEPT ![t][p] = version]
        /\ disturbed' = IF phase[t] = "ready" THEN [disturbed EXCEPT ![t] = @ \cup {p}] ELSE disturbed
        /\ UNCHANGED <<phase, timers, settling, early, storage, htmx, calls, version, due>>
    BY DEF Arrive, swap
  <1>3. dom' \in [Tabs -> [Panels -> {"absent", "closed", "open"}]]
    BY <1>1, <1>2 DEF Typed
  <1>4. shown' \in [Tabs -> [Panels -> 0..version]] /\ disturbed' \in [Tabs -> SUBSET Panels]
    BY <1>1, <1>2 DEF Typed
  <1>5. Typed'
    BY <1>1, <1>2, <1>3, <1>4 DEF Typed, storage, htmx
  <1>6. \A u \in Tabs : \A r \in Panels : Present(u, r) => Present(u, r)'
    BY <1>1, <1>2 DEF Typed, Present
  <1>7. ASSUME NEW u \in Tabs PROVE Links(u)'
    <2>1. xhr[u] # NoRequest => xhr[u].panel \in Panels
      BY <1>1, RequestIsOne DEF Typed
    <2>2. queued[u] # "none" => queued[u] \in Panels
      BY <1>1 DEF Typed
    <2>3. UNCHANGED <<timers, settling, early, pending, item, xhr, queued, version>>
      BY <1>2 DEF storage, htmx
    <2> QED BY <1>1, <1>6, <2>1, <2>2, <2>3 DEF Links, Present
  <1> QED BY <1>5, <1>7 DEF TypeInv

LEMMA TypeLeave == ASSUME TypeInv, NEW t \in Tabs, Leave(t) PROVE TypeInv'
  <1>1. Typed /\ \A u \in Tabs : Links(u)
    BY DEF TypeInv
  <1>2. /\ phase' = [phase EXCEPT ![t] = "away"]
        /\ dom' = [dom EXCEPT ![t] = [p \in Panels |-> "absent"]]
        /\ timers' = [timers EXCEPT ![t] = [p \in Panels |-> 0]]
        /\ settling' = [settling EXCEPT ![t] = {}]
        /\ early' = [early EXCEPT ![t] = [p \in Panels |-> 0]]
        /\ xhr' = [xhr EXCEPT ![t] = NoRequest]
        /\ queued' = [queued EXCEPT ![t] = "none"]
        /\ calls' = [calls EXCEPT ![t] = {}]
        /\ shown' = [shown EXCEPT ![t] = [p \in Panels |-> 0]]
        /\ due' = [due EXCEPT ![t] = [p \in Panels |-> 0]]
        /\ broken' = [broken EXCEPT ![t] = FALSE]
        /\ disturbed' = [disturbed EXCEPT ![t] = {}]
        /\ UNCHANGED <<store, pending, item, version>>
    BY DEF Leave, storage
  <1>3. [p \in Panels |-> 0] \in [Panels -> 0..version] /\ [p \in Panels |-> 0] \in [Panels -> Nat]
    BY <1>1 DEF Typed
  <1>4. Typed'
    BY <1>1, <1>2, <1>3 DEF Typed
  <1>5. ASSUME NEW u \in Tabs PROVE Links(u)'
    <2>1. CASE u = t
      BY <1>1, <1>2, <2>1 DEF Typed, Links
    <2>2. CASE u # t
      BY <1>1, <1>2, <2>2 DEF Typed, Links, Present
    <2> QED BY <2>1, <2>2
  <1> QED BY <1>4, <1>5 DEF TypeInv

LEMMA TypeToggle ==
  ASSUME TypeInv, NEW t \in Tabs, NEW p \in Panels, toggleAccordion(t, p) \/ openAccordion(t, p)
  PROVE  TypeInv'
  <1>1. Typed /\ \A u \in Tabs : Links(u)
    BY DEF TypeInv
  <1>2. /\ Idle(t) /\ Present(t, p)
        /\ \E shows \in {"open", "closed"} : dom' = [dom EXCEPT ![t][p] = shows]
        /\ \E writes \in Seq(Writes) : pending' = [pending EXCEPT ![t] = writes]
        /\ \E d \in SUBSET Panels : disturbed' = [disturbed EXCEPT ![t] = d]
        /\ \/ timers' = timers /\ early' = early
           \/ /\ timers[t][p] > 0
              /\ timers' = [timers EXCEPT ![t][p] = @ - 1]
              /\ early' = [early EXCEPT ![t][p] = IF @ > 0 THEN @ - 1 ELSE 0]
        /\ UNCHANGED <<phase, settling, store, item, given, overlapped, htmx, server>>
    <2>0. \A status \in {"open", "closed"} : <<Write(p, status)>> \in Seq(Writes)
      BY DEF Write, Writes
    <2>1. OpenedUnder(t, p) \in SUBSET Panels
      BY DEF OpenedUnder
    <2>2. disturbed[t] \in SUBSET Panels /\ disturbed = [disturbed EXCEPT ![t] = disturbed[t]]
      BY <1>1 DEF Typed
    <2>3. CASE toggleAccordion(t, p)
      BY <2>0, <2>1, <2>2, <2>3 DEF toggleAccordion, swap
    <2>4. CASE openAccordion(t, p)
      <3>1. Present(t, p) /\ Idle(t)
        BY <1>1, <2>4 DEF openAccordion, Links
      <3>2. CASE isAccordionOpen(t, p)
        <4>1. UNCHANGED <<dom, pending, disturbed>> /\ pending[t] = <<>> /\ dom[t][p] = "open"
          BY <2>4, <3>2 DEF openAccordion, Idle, isAccordionOpen
        <4>2. dom = [dom EXCEPT ![t][p] = "open"] /\ pending = [pending EXCEPT ![t] = <<>>]
          BY <1>1, <4>1 DEF Typed
        <4>3. << >> \in Seq(Writes)
          OBVIOUS
        <4> QED BY <2>2, <2>4, <3>1, <4>1, <4>2, <4>3 DEF openAccordion
      <3>3. CASE ~isAccordionOpen(t, p)
        BY <2>0, <2>1, <2>2, <2>4, <3>1, <3>3 DEF openAccordion
      <3> QED BY <3>2, <3>3
    <2> QED BY <2>3, <2>4
  <1>3. dom' \in [Tabs -> [Panels -> {"absent", "closed", "open"}]]
    BY <1>1, <1>2 DEF Typed
  <1>4. /\ timers' \in [Tabs -> [Panels -> Nat]]
        /\ early' \in [Tabs -> [Panels -> Nat]]
        /\ \A u \in Tabs : \A r \in Panels : timers'[u][r] > 0 => timers[u][r] > 0
        /\ \A u \in Tabs : \A r \in Panels : early'[u][r] <= timers'[u][r]
    <2>0. /\ timers \in [Tabs -> [Panels -> Nat]]
          /\ early \in [Tabs -> [Panels -> Nat]]
          /\ \A u \in Tabs : \A r \in Panels : early[u][r] <= timers[u][r]
      BY <1>1 DEF Typed, Links
    <2>1. CASE timers' = timers /\ early' = early
      BY <2>0, <2>1
    <2>2. CASE /\ timers[t][p] > 0
               /\ timers' = [timers EXCEPT ![t][p] = @ - 1]
               /\ early' = [early EXCEPT ![t][p] = IF @ > 0 THEN @ - 1 ELSE 0]
      <3> DEFINE left == IF early[t][p] > 0 THEN early[t][p] - 1 ELSE 0
      <3>1. timers[t][p] - 1 \in Nat /\ left \in Nat /\ left <= timers[t][p] - 1
        BY <2>0, <2>2
      <3>a. early' = [early EXCEPT ![t][p] = left]
        BY <2>2
      <3> HIDE DEF left
      <3>2. timers' \in [Tabs -> [Panels -> Nat]] /\ early' \in [Tabs -> [Panels -> Nat]]
        BY <2>0, <2>2, <3>1, <3>a
      <3>3. \A u \in Tabs : \A r \in Panels : timers'[u][r] = timers[u][r] \/ timers[u][r] > 0
        BY <2>0, <2>2
      <3>4. ASSUME NEW u \in Tabs, NEW r \in Panels PROVE early'[u][r] <= timers'[u][r]
        <4>1. CASE u = t /\ r = p
          <5>1. early'[u][r] = left /\ timers'[u][r] = timers[t][p] - 1
            BY <2>0, <2>2, <3>a, <4>1
          <5> QED BY <3>1, <5>1
        <4>2. CASE ~(u = t /\ r = p)
          <5>1. early'[u][r] = early[u][r] /\ timers'[u][r] = timers[u][r]
            BY <2>0, <2>2, <3>a, <4>2
          <5> QED BY <2>0, <5>1
        <4> QED BY <4>1, <4>2
      <3> QED BY <3>2, <3>3, <3>4
    <2> QED BY <1>2, <2>1, <2>2
  <1>5. pending' \in [Tabs -> Seq(Writes)] /\ disturbed' \in [Tabs -> SUBSET Panels]
    BY <1>1, <1>2 DEF Typed
  <1>6. Typed'
    BY <1>1, <1>2, <1>3, <1>4, <1>5 DEF Typed, htmx, server
  <1>7. \A u \in Tabs : \A r \in Panels : Present(u, r) <=> Present(u, r)'
    <2>1. PICK shows \in {"open", "closed"} : dom' = [dom EXCEPT ![t][p] = shows]
      BY <1>2
    <2>2. dom \in [Tabs -> [Panels -> {"absent", "closed", "open"}]] /\ dom[t][p] # "absent"
      BY <1>1, <1>2 DEF Typed, Present
    <2> QED BY <2>1, <2>2 DEF Present
  <1>9. \A u \in Tabs : item[u] # NoItem => pending'[u] # <<>>
    <2>1. item[t] = NoItem
      BY <1>1, <1>2 DEF Idle, Links
    <2>2. \A u \in Tabs : u # t => pending'[u] = pending[u]
      BY <1>1, <1>2 DEF Typed
    <2> QED BY <1>1, <2>1, <2>2 DEF Links
  <1>10. ASSUME NEW u \in Tabs PROVE Links(u)'
    <2>1. xhr[u] # NoRequest => xhr[u].panel \in Panels
      BY <1>1, RequestIsOne DEF Typed
    <2>2. queued[u] # "none" => queued[u] \in Panels
      BY <1>1 DEF Typed
    <2>3. UNCHANGED <<settling, item, xhr, queued, version>>
      BY <1>2 DEF htmx, server
    <2> QED BY <1>1, <1>4, <1>7, <1>9, <2>1, <2>2, <2>3 DEF Links, Present
  <1> QED BY <1>6, <1>10 DEF TypeInv

LEMMA TypeSettle == ASSUME TypeInv, NEW t \in Tabs, NEW p \in Panels, Settle(t, p) PROVE TypeInv'
  <1>1. Typed /\ \A u \in Tabs : Links(u)
    BY DEF TypeInv
  <1>2. /\ p \in settling[t]
        /\ settling' = [settling EXCEPT ![t] = @ \ {p}]
        /\ early' = [early EXCEPT ![t][p] = 0]
        /\ dom' = [dom EXCEPT ![t][p] = "closed"]
        /\ UNCHANGED <<phase, timers, storage, htmx, server, disturbed>>
    BY DEF Settle
  <1>3. /\ dom' \in [Tabs -> [Panels -> {"absent", "closed", "open"}]]
        /\ settling' \in [Tabs -> SUBSET Panels]
        /\ early' \in [Tabs -> [Panels -> Nat]]
    BY <1>1, <1>2 DEF Typed
  <1>4. Typed'
    BY <1>1, <1>2, <1>3 DEF Typed, storage, htmx, server
  <1>5. /\ \A u \in Tabs : \A r \in Panels : Present(u, r) => Present(u, r)'
        /\ \A u \in Tabs : \A r \in Panels : r \in settling'[u] => r \in settling[u]
    BY <1>1, <1>2 DEF Typed, Present
  <1>6. \A u \in Tabs : \A r \in Panels : early'[u][r] <= timers[u][r]
    <2> TAKE u \in Tabs
    <2> TAKE r \in Panels
    <2>1. early'[u][r] = early[u][r] \/ early'[u][r] = 0
      BY <1>1, <1>2 DEF Typed
    <2>2. timers[u][r] \in Nat /\ early[u][r] <= timers[u][r]
      BY <1>1 DEF Typed, Links
    <2> QED BY <2>1, <2>2
  <1>7. ASSUME NEW u \in Tabs PROVE Links(u)'
    <2>1. xhr[u] # NoRequest => xhr[u].panel \in Panels
      BY <1>1, RequestIsOne DEF Typed
    <2>2. queued[u] # "none" => queued[u] \in Panels
      BY <1>1 DEF Typed
    <2>3. UNCHANGED <<timers, pending, item, xhr, queued, version>>
      BY <1>2 DEF storage, htmx, server
    <2> QED BY <1>1, <1>5, <1>6, <2>1, <2>2, <2>3 DEF Links, Present
  <1> QED BY <1>4, <1>7 DEF TypeInv

(* The panels loadPanels closes: what is stored for them is of their type. *)
LEMMA CloseIs ==
  ASSUME NEW t \in Tabs, NEW ps \in SUBSET Panels, Typed, closeAccordions(t, ps)
  PROVE  /\ dom' \in [Tabs -> [Panels -> {"absent", "closed", "open"}]]
         /\ \A p \in Panels : dom'[t][p] = IF p \in ps /\ Present(t, p) THEN "closed" ELSE dom[t][p]
         /\ pending' \in [Tabs -> Seq(Writes)]
         /\ \A i \in DOMAIN pending'[t] : pending'[t][i].panel \in ps /\ pending'[t][i].status = "closed"
         /\ \A u \in Tabs \ {t} : dom'[u] = dom[u] /\ pending'[u] = pending[u]
  <1> DEFINE open == {p \in ps : isAccordionOpen(t, p)}
             shut == InPageOrder(open)
             writes == [i \in DOMAIN shut |-> Write(shut[i], "closed")]
  <1>1. /\ dom' = [dom EXCEPT ![t] = [p \in Panels |-> IF p \in ps /\ Present(t, p) THEN "closed" ELSE @[p]]]
        /\ pending' = [pending EXCEPT ![t] = writes]
    BY DEF closeAccordions
  <1>2. open \in SUBSET Panels
    OBVIOUS
  <1>3. shut \in Seq(open)
    BY <1>2, InPageOrderIs
  <1> HIDE DEF shut
  <1>4. Len(shut) \in Nat /\ DOMAIN shut = 1..Len(shut) /\ \A i \in 1..Len(shut) : shut[i] \in open
    BY <1>3
  <1>5. \A i \in 1..Len(shut) : /\ Write(shut[i], "closed") \in Writes
                                /\ Write(shut[i], "closed").panel \in ps
                                /\ Write(shut[i], "closed").status = "closed"
    BY <1>4 DEF Write, Writes
  <1>6. writes \in Seq(Writes) /\ DOMAIN writes = 1..Len(shut)
    BY <1>4, <1>5
  <1>7. \A i \in DOMAIN writes : writes[i].panel \in ps /\ writes[i].status = "closed"
    BY <1>4, <1>5, <1>6
  <1> HIDE DEF writes, open
  <1>8. pending' \in [Tabs -> Seq(Writes)] /\ pending'[t] = writes
    BY <1>1, <1>6 DEF Typed
  <1>9. [p \in Panels |-> IF p \in ps /\ Present(t, p) THEN "closed" ELSE dom[t][p]]
            \in [Panels -> {"absent", "closed", "open"}]
    BY DEF Typed
  <1>10. /\ dom' \in [Tabs -> [Panels -> {"absent", "closed", "open"}]]
         /\ \A p \in Panels : dom'[t][p] = IF p \in ps /\ Present(t, p) THEN "closed" ELSE dom[t][p]
         /\ \A u \in Tabs \ {t} : dom'[u] = dom[u] /\ pending'[u] = pending[u]
    BY <1>1, <1>9 DEF Typed
  <1> QED BY <1>7, <1>8, <1>10

LEMMA TypeLoad ==
  ASSUME TypeInv, NEW t \in Tabs, NEW named \in Panels \cup {"none"}, loadPanels(t, named)
  PROVE  TypeInv'
  <1> DEFINE here == {p \in Panels : Present(t, p)}
             open == IF named \in here THEN {named} ELSE {p \in here : store[p] = "open"}
             shut == IF named \in here THEN {} ELSE {p \in here : store[p] = "closed"}
             opening == [p \in Panels |-> IF p \in open THEN timers[t][p] + 1 ELSE timers[t][p]]
  <1>1. Typed /\ \A u \in Tabs : Links(u)
    BY DEF TypeInv
  <1>2. /\ Idle(t)
        /\ phase' = [phase EXCEPT ![t] = "ready"]
        /\ timers' = [timers EXCEPT ![t] = [p \in Panels |-> IF p \in open THEN @[p] + 1 ELSE @[p]]]
        /\ closeAccordions(t, shut)
        /\ disturbed' = [disturbed EXCEPT ![t] = @ \cup (here \ (open \cup shut))]
        /\ UNCHANGED <<settling, early, store, item, given, overlapped, htmx, server>>
    BY DEF loadPanels, swap
  <1>3. open \subseteq here /\ shut \in SUBSET Panels
    OBVIOUS
  <1> HIDE DEF open, shut
  <1>4. /\ dom' \in [Tabs -> [Panels -> {"absent", "closed", "open"}]]
        /\ \A p \in Panels : dom'[t][p] = IF p \in shut /\ Present(t, p) THEN "closed" ELSE dom[t][p]
        /\ pending' \in [Tabs -> Seq(Writes)]
        /\ \A u \in Tabs \ {t} : dom'[u] = dom[u] /\ pending'[u] = pending[u]
    BY <1>1, <1>2, <1>3, CloseIs
  <1>5. /\ opening \in [Panels -> Nat]
        /\ \A p \in Panels : opening[p] > 0 => timers[t][p] > 0 \/ p \in open
        /\ \A p \in Panels : early[t][p] <= opening[p]
    <2>1. \A p \in Panels : timers[t][p] \in Nat /\ early[t][p] \in Nat /\ early[t][p] <= timers[t][p]
      BY <1>1 DEF Typed, Links
    <2> QED BY <2>1
  <1>6. timers' = [timers EXCEPT ![t] = opening]
    BY <1>2
  <1> HIDE DEF opening
  <1>7. timers' \in [Tabs -> [Panels -> Nat]] /\ timers'[t] = opening
        /\ \A u \in Tabs \ {t} : timers'[u] = timers[u]
    BY <1>1, <1>5, <1>6 DEF Typed
  <1>8. phase' \in [Tabs -> {"away", "loading", "ready"}] /\ disturbed' \in [Tabs -> SUBSET Panels]
    BY <1>1, <1>2 DEF Typed
  <1>9. Typed'
    BY <1>1, <1>2, <1>4, <1>7, <1>8 DEF Typed, htmx, server
  <1>10. \A p \in Panels : Present(t, p)' <=> Present(t, p)
    BY <1>4 DEF Present
  <1>11. Links(t)'
    <2>1. item[t] = NoItem
      BY <1>1, <1>2 DEF Idle, Links
    <2>2. UNCHANGED <<settling, early, item, xhr, queued, version>>
      BY <1>2 DEF htmx, server
    <2>3. \A p \in Panels : timers'[t][p] > 0 => Present(t, p)'
      BY <1>1, <1>3, <1>5, <1>7, <1>10 DEF Links
    <2>6. \A p \in Panels : early[t][p] <= timers'[t][p]
      BY <1>5, <1>7
    <2>4. xhr[t] # NoRequest => xhr[t].panel \in Panels
      BY <1>1, RequestIsOne DEF Typed
    <2>5. queued[t] # "none" => queued[t] \in Panels
      BY <1>1 DEF Typed
    <2> QED BY <1>1, <1>10, <2>1, <2>2, <2>3, <2>4, <2>5, <2>6 DEF Links, Present
  <1>12. ASSUME NEW u \in Tabs \ {t} PROVE Links(u)'
    <2>1. version' \in Nat /\ version' >= version
      BY <1>1, <1>2 DEF Typed, server
    <2> QED BY <1>1, <1>2, <1>4, <1>7, <2>1, LinksKept DEF htmx
  <1> QED BY <1>9, <1>11, <1>12 DEF TypeInv

LEMMA TypeFailed == ASSUME TypeInv, NEW t \in Tabs, AjaxFailed(t) PROVE TypeInv'
  <1>1. Typed /\ \A u \in Tabs : Links(u)
    BY DEF TypeInv
  <1>2. /\ broken' = [broken EXCEPT ![t] = TRUE]
        /\ xhr' = [xhr EXCEPT ![t] = FromQueue(t)]
        /\ queued' = [queued EXCEPT ![t] = "none"]
        /\ UNCHANGED <<page, storage, server, disturbed>>
    BY DEF AjaxFailed
  <1>3. FromQueue(t) \in Request \cup {NoRequest}
    BY <1>1, FromQueueIs
  <1>4. Typed'
    BY <1>1, <1>2, <1>3 DEF Typed, page, swap, storage, server
  <1>5. Links(t)'
    <2>1. FromQueue(t) # NoRequest =>
            queued[t] # "none" /\ FromQueue(t).panel = queued[t] /\ FromQueue(t).since = version
      BY <1>1, FromQueueIs
    <2>2. xhr'[t] = FromQueue(t) /\ queued'[t] = "none" /\ version \in Nat
      BY <1>1, <1>2 DEF Typed
    <2> QED BY <1>1, <1>2, <2>1, <2>2 DEF Links, Present, page, swap, storage, server
  <1>6. ASSUME NEW u \in Tabs \ {t} PROVE Links(u)'
    <2>1. version' \in Nat /\ version' >= version /\ xhr'[u] = xhr[u] /\ queued'[u] = queued[u]
      BY <1>1, <1>2 DEF Typed, server
    <2> QED BY <1>1, <1>2, <2>1, LinksKept DEF page, swap, storage
  <1> QED BY <1>4, <1>5, <1>6 DEF TypeInv

LEMMA TypeCommand ==
  ASSUME TypeInv, NEW t \in Tabs, NEW b \in Buttons, Command(t, b) \/ getDataFails(t, b)
  PROVE  TypeInv'
  <1>1. Typed /\ \A u \in Tabs : Links(u)
    BY DEF TypeInv
  <1>2. /\ \E c \in SUBSET Buttons : calls' = [calls EXCEPT ![t] = c]
        /\ UNCHANGED <<page, storage, htmx, version, shown, due, disturbed>>
    BY <1>1 DEF Command, getDataFails, Typed
  <1>3. Typed'
    BY <1>1, <1>2 DEF Typed, page, swap, storage, htmx
  <1>4. ASSUME NEW u \in Tabs PROVE Links(u)'
    BY <1>1, <1>2 DEF Links, Present, page, swap, storage, htmx
  <1> QED BY <1>3, <1>4 DEF TypeInv

(* A button reloads panels: all that are there, or its own one first.      *)
LEMMA GetDataReloads ==
  ASSUME Typed, NEW t \in Tabs, NEW b \in Buttons, getData(t, b)
  PROVE  \E ps \in Seq(Panels), thenFan \in BOOLEAN :
            /\ Reload(t, ps, FALSE, thenFan, xhr[t], queued[t], {})
            /\ b # "all" => b \in ProtocolPanels /\ ps # <<>> /\ ps[1] = b
            /\ b = "all" => ps = InPageOrder({p \in Panels : Present(t, p)})
  <1>1. CASE b = "all"
    <2>1. Reload(t, InPageOrder({p \in Panels : Present(t, p)}), FALSE, TRUE, xhr[t], queued[t], {})
      BY <1>1 DEF getData, reloadAllPlugins
    <2>2. InPageOrder({p \in Panels : Present(t, p)}) \in Seq(Panels)
      BY ButtonsReload
    <2> QED BY <1>1, <2>1, <2>2
  <1>2. CASE b # "all"
    <2>1. Reload(t, <<b, "wildcard", "active">>, FALSE, FALSE, xhr[t], queued[t], {})
      BY <1>2 DEF getData, reloadProtocol
    <2>2. b \in ProtocolPanels /\ <<b, "wildcard", "active">> \in Seq(Panels)
      BY <1>2, ButtonsReload
    <2>3. <<b, "wildcard", "active">> # <<>> /\ <<b, "wildcard", "active">>[1] = b
      OBVIOUS
    <2> QED BY <1>2, <2>1, <2>2, <2>3
  <1> QED BY <1>1, <1>2

(* The lock and the queue as they are satisfy what ReloadLinks asks for,   *)
(* and so does the queue when it takes the lock.                           *)
LEMMA LockIs ==
  ASSUME TypeInv, NEW t \in Tabs
  PROVE  /\ Typed /\ Links(t)
         /\ xhr[t] \in Request \cup {NoRequest} /\ queued[t] \in Panels \cup {"none"}
         /\ xhr[t] # NoRequest => Present(t, xhr[t].panel) /\ xhr[t].since <= version
         /\ queued[t] # "none" => Present(t, queued[t]) /\ xhr[t] # NoRequest
         /\ FromQueue(t) \in Request \cup {NoRequest}
         /\ FromQueue(t) # NoRequest => Present(t, FromQueue(t).panel) /\ FromQueue(t).since <= version
  <1>1. Typed /\ Links(t) /\ version \in Nat
    BY DEF TypeInv, Typed
  <1>2. xhr[t] \in Request \cup {NoRequest} /\ queued[t] \in Panels \cup {"none"}
    BY <1>1 DEF Typed
  <1>3. /\ FromQueue(t) \in Request \cup {NoRequest}
        /\ FromQueue(t) # NoRequest =>
              queued[t] # "none" /\ FromQueue(t).panel = queued[t] /\ FromQueue(t).since = version
    BY <1>1, FromQueueIs
  <1> QED BY <1>1, <1>2, <1>3 DEF Links

LEMMA TypeGetData == ASSUME TypeInv, NEW t \in Tabs, NEW b \in Buttons, getData(t, b) PROVE TypeInv'
  <1>1. Typed /\ \A u \in Tabs : Links(u)
    BY DEF TypeInv
  <1>2. /\ calls' = [calls EXCEPT ![t] = @ \ {b}]
        /\ version' = version + 1
        /\ due' = [due EXCEPT ![t] = [p \in Panels |-> IF p \in Changed(b) THEN version' ELSE @[p]]]
        /\ UNCHANGED <<phase, dom, settling, early, store, pending, item, broken, shown>>
    BY DEF getData, swap, storage
  <1>3. PICK ps \in Seq(Panels), thenFan \in BOOLEAN :
            /\ Reload(t, ps, FALSE, thenFan, xhr[t], queued[t], {})
            /\ b # "all" => b \in ProtocolPanels /\ ps # <<>> /\ ps[1] = b
            /\ b = "all" => ps = InPageOrder({p \in Panels : Present(t, p)})
    BY <1>1, GetDataReloads, Zenon
  <1>4. version \in Nat /\ version' \in Nat /\ version' >= version
    BY <1>1, <1>2 DEF Typed
  <1>5. /\ xhr[t] \in Request \cup {NoRequest} /\ queued[t] \in Panels \cup {"none"}
        /\ xhr[t] # NoRequest => Present(t, xhr[t].panel) /\ xhr[t].since <= version'
        /\ queued[t] # "none" => Present(t, queued[t]) /\ xhr[t] # NoRequest
    <2>1. xhr[t] # NoRequest => xhr[t].since \in Nat
      BY <1>1, RequestIsOne DEF Typed
    <2> QED BY <1>2, <1>4, <2>1, LockIs
  <1>6. dom' \in [Tabs -> [Panels -> {"absent", "closed", "open"}]]
    BY <1>1, <1>2 DEF Typed
  <1>7. /\ xhr' \in [Tabs -> Request \cup {NoRequest}]
        /\ queued' \in [Tabs -> Panels \cup {"none"}]
        /\ timers' \in [Tabs -> [Panels -> Nat]]
        /\ disturbed' \in [Tabs -> SUBSET Panels]
        /\ \A u \in Tabs : Links(u)'
    <2>1. /\ FALSE \in BOOLEAN /\ {} \in SUBSET Panels
          /\ \A u \in Tabs \ {t} : dom'[u] = dom[u]
          /\ \A p \in Panels : dom'[t][p] = "absent" <=> dom[t][p] = "absent"
          /\ pending' = pending /\ item' = item
          /\ \A p \in {} : Present(t, p)
      BY <1>2
    <2>2. SwapOf(t)
      BY <1>1, <1>2 DEF Typed, Links, SwapOf
    <2> QED BY <1>3, <1>4, <1>5, <1>6, <2>1, <2>2, ReloadLinks, Zenon
  <1>8. calls' \in [Tabs -> SUBSET Buttons]
    BY <1>1, <1>2 DEF Typed
  <1>9. shown' \in [Tabs -> [Panels -> 0..version']] /\ due' \in [Tabs -> [Panels -> 0..version']]
    <2>1. \A u \in Tabs : shown[u] \in [Panels -> 0..version'] /\ due[u] \in [Panels -> 0..version']
      <3> TAKE u \in Tabs
      <3>1. shown[u] \in [Panels -> 0..version] /\ due[u] \in [Panels -> 0..version]
        BY <1>1 DEF Typed
      <3>2. 0..version \subseteq 0..version'
        BY <1>4
      <3> QED BY <3>1, <3>2
    <2>2. [p \in Panels |-> IF p \in Changed(b) THEN version' ELSE due[t][p]] \in [Panels -> 0..version']
      <3>1. version' \in 0..version' /\ \A p \in Panels : due[t][p] \in 0..version'
        BY <1>4, <2>1
      <3> QED BY <3>1
    <2>3. DOMAIN shown = Tabs /\ DOMAIN due = Tabs /\ shown = [u \in Tabs |-> shown[u]]
          /\ due = [u \in Tabs |-> due[u]]
      BY <1>1 DEF Typed
    <2> QED BY <1>2, <2>1, <2>2, <2>3
  <1>10. Typed'
    BY <1>1, <1>2, <1>4, <1>6, <1>7, <1>8, <1>9 DEF Typed
  <1> QED BY <1>7, <1>10 DEF TypeInv

LEMMA TypeAnswer ==
  ASSUME TypeInv, NEW t \in Tabs, AjaxAnswer(t) \/ AjaxRefused(t) PROVE TypeInv'
  <1>1. Typed /\ \A u \in Tabs : Links(u)
    BY DEF TypeInv
  <1> DEFINE reopen == IF xhr[t].open THEN {xhr[t].panel} ELSE {}
  <1>2. /\ xhr[t] # NoRequest
        /\ Reload(t, xhr[t].next, xhr[t].fan, FALSE, FromQueue(t), "none", reopen)
        /\ UNCHANGED <<phase, store, pending, item, calls, version, due>>
    BY DEF AjaxAnswer, AjaxRefused, Resolve, storage, server
  <1>3. xhr[t] \in Request
    BY <1>1, <1>2 DEF Typed
  <1>4. xhr[t].panel \in Panels /\ xhr[t].next \in Seq(Panels) /\ xhr[t].fan \in BOOLEAN
        /\ xhr[t].open \in BOOLEAN /\ xhr[t].since \in Nat /\ Present(t, xhr[t].panel)
    BY <1>1, <1>2, <1>3, RequestIsOne DEF Links
  <1> DEFINE panel == xhr[t].panel
  <1>5. /\ dom' = dom
        /\ broken' = broken \/ broken' = [broken EXCEPT ![t] = TRUE]
        /\ shown' = shown \/ \E v \in xhr[t].since..version : shown' = [shown EXCEPT ![t][panel] = v]
        /\ \/ UNCHANGED <<settling, early>>
           \/ /\ settling' = [settling EXCEPT ![t] = @ \cup {panel}]
              /\ early' = [early EXCEPT ![t][panel] = timers[t][panel]]
    BY DEF AjaxAnswer, AjaxRefused, swap, server
  <1>p. panel \in Panels /\ dom[t][panel] # "absent"
    BY <1>4 DEF Present
  <1> HIDE DEF panel
  <1>6. dom' \in [Tabs -> [Panels -> {"absent", "closed", "open"}]] /\ broken' \in [Tabs -> BOOLEAN]
    <2>1. dom \in [Tabs -> [Panels -> {"absent", "closed", "open"}]] /\ broken \in [Tabs -> BOOLEAN]
      BY <1>1 DEF Typed
    <2>2. [broken EXCEPT ![t] = TRUE] \in [Tabs -> BOOLEAN]
      BY <2>1
    <2> QED BY <1>5, <2>1, <2>2
  <1>s. /\ settling' \in [Tabs -> SUBSET Panels] /\ early' \in [Tabs -> [Panels -> Nat]]
        /\ \A u \in Tabs \ {t} : settling'[u] = settling[u] /\ early'[u] = early[u]
        /\ \A p \in Panels : p \in settling'[t] => p \in settling[t] \/ p = panel
        /\ \A p \in Panels : early'[t][p] = early[t][p] \/ early'[t][p] = timers[t][p]
    <2>1. CASE UNCHANGED <<settling, early>>
      BY <1>1, <2>1 DEF Typed
    <2>2. CASE /\ settling' = [settling EXCEPT ![t] = @ \cup {panel}]
               /\ early' = [early EXCEPT ![t][panel] = timers[t][panel]]
      <3>1. /\ settling \in [Tabs -> SUBSET Panels] /\ early \in [Tabs -> [Panels -> Nat]]
            /\ timers[t][panel] \in Nat
        BY <1>1, <1>p DEF Typed
      <3>2. settling' \in [Tabs -> SUBSET Panels] /\ early' \in [Tabs -> [Panels -> Nat]]
        BY <1>p, <2>2, <3>1
      <3> QED BY <1>p, <2>2, <3>1, <3>2
    <2> QED BY <1>5, <2>1, <2>2
  <1>t. /\ \A p \in Panels : p \in settling'[t] => Present(t, p)
        /\ \A p \in Panels : early'[t][p] <= timers[t][p]
    <2>1. \A p \in Panels : timers[t][p] \in Nat /\ early[t][p] <= timers[t][p]
                            /\ (p \in settling[t] => Present(t, p))
      BY <1>1 DEF Typed, Links
    <2> QED BY <1>p, <1>s, <2>1 DEF Present
  <1>u. SwapOf(t)
    BY <1>s, <1>t DEF SwapOf
  <1>7. shown' \in [Tabs -> [Panels -> 0..version]]
    <2>1. \A v \in xhr[t].since..version : v \in 0..version
      BY <1>1, <1>4 DEF Typed
    <2>2. shown \in [Tabs -> [Panels -> 0..version]]
      BY <1>1 DEF Typed
    <2>3. \A v \in 0..version : [shown EXCEPT ![t][panel] = v] \in [Tabs -> [Panels -> 0..version]]
      BY <1>p, <2>2
    <2> QED BY <1>5, <2>1, <2>2, <2>3
  <1>8. /\ xhr' \in [Tabs -> Request \cup {NoRequest}]
        /\ queued' \in [Tabs -> Panels \cup {"none"}]
        /\ timers' \in [Tabs -> [Panels -> Nat]]
        /\ disturbed' \in [Tabs -> SUBSET Panels]
        /\ \A u \in Tabs : Links(u)'
    <2>1. \A u \in Tabs \ {t} : dom'[u] = dom[u]
      BY <1>1, <1>5 DEF Typed
    <2>2. \A p \in Panels : dom'[t][p] = "absent" <=> dom[t][p] = "absent"
      BY <1>1, <1>p, <1>5 DEF Typed
    <2>3. /\ FALSE \in BOOLEAN /\ "none" \in Panels \cup {"none"}
          /\ reopen \in SUBSET Panels /\ \A p \in reopen : Present(t, p)
          /\ version' \in Nat /\ version' >= version
          /\ "none" # "none" => Present(t, "none") /\ FromQueue(t) # NoRequest
      BY <1>1, <1>2, <1>4 DEF Typed
    <2>4. /\ FromQueue(t) \in Request \cup {NoRequest}
          /\ FromQueue(t) # NoRequest => Present(t, FromQueue(t).panel) /\ FromQueue(t).since <= version'
      BY <1>2, LockIs
    <2>5. pending' = pending /\ item' = item
      BY <1>2
    <2> HIDE DEF reopen
    <2> QED BY <1>2, <1>4, <1>6, <1>u, <2>1, <2>2, <2>3, <2>4, <2>5, ReloadLinks, Zenon
  <1>9. Typed'
    BY <1>1, <1>2, <1>6, <1>7, <1>8, <1>s DEF Typed
  <1> QED BY <1>8, <1>9 DEF TypeInv

LEMMA TypeNext == TypeInv /\ [Next]_vars => TypeInv'
  <1> SUFFICES ASSUME TypeInv, [Next]_vars PROVE TypeInv'
    OBVIOUS
  <1>1. CASE Next
    BY <1>1, TypeStorage, TypeVisit, TypeArrive, TypeLeave, TypeToggle, TypeSettle, TypeLoad, TypeFailed,
       TypeCommand, TypeGetData, TypeAnswer DEF Next
  <1>2. CASE UNCHANGED vars
    BY <1>2 DEF TypeInv, Typed, Links, Present, vars, page, swap, storage, htmx, server
  <1> QED BY <1>1, <1>2

LEMMA TypeInvIsTypeOK == TypeInv => TypeOK
  <1> SUFFICES ASSUME TypeInv PROVE TypeOK
    OBVIOUS
  <1>1. Typed /\ \A t \in Tabs : Links(t)
    BY DEF TypeInv
  <1>2. ASSUME NEW t \in Tabs, NEW i \in DOMAIN pending[t]
        PROVE  pending[t][i] \in [panel : Panels, status : Statuses]
    <2>1. pending[t][i] \in Writes
      BY <1>1 DEF Typed
    <2> QED BY <2>1 DEF Writes, Statuses
  <1> QED BY <1>1, <1>2 DEF Typed, Links, TypeOK

(***************************************************************************)
(* TypeOK holds for any tabs and protocols: a task that is between getItem *)
(* and setItem has a status to store, only panels that are there have      *)
(* timers, and a request waits in the queue only behind another.           *)
(***************************************************************************)
THEOREM TypeCorrect == Spec => []TypeOK
  BY TypeInit, TypeNext, TypeInvIsTypeOK, PTL DEF Spec

-----------------------------------------------------------------------------
(* One tab.  Steps of a tab that has nothing to store: what is stored      *)
(* stays so, and nothing is opened.                                        *)
LEMMA StoresKept ==
  ASSUME NEW t \in Tabs, StoresAsShown(t), pending[t] = <<>>, item[t] = NoItem,
         \A p \in Panels : dom'[t][p] = "open" => dom[t][p] = "open",
         store' = store, pending'[t] = pending[t], item'[t] = item[t]
  PROVE  StoresAsShown(t)'
  BY DEF StoresAsShown, isAccordionOpen

(* A step that changes neither what is shown nor what is to be stored.     *)
LEMMA UndisturbedKept ==
  ASSUME NEW t \in Tabs, Undisturbed(t), disturbed'[t] = disturbed[t], queued'[t] = queued[t],
         xhr'[t] = xhr[t], phase'[t] = phase[t], dom'[t] = dom[t], timers'[t] = timers[t],
         settling'[t] = settling[t], early'[t] = early[t], store' = store, pending'[t] = pending[t]
  PROVE  Undisturbed(t)'
  BY DEF Undisturbed, isAccordionOpen

LEMMA IdleIs ==
  ASSUME NEW t \in Tabs, Links(t), Idle(t) PROVE pending[t] = <<>> /\ item[t] = NoItem
  BY DEF Links, Idle

LEMMA OneTabInit == Init => OneTabInv
  <1> SUFFICES ASSUME Init PROVE OneTabInv
    OBVIOUS
  <1>1. TypeInv
    BY TypeInit
  <1>2. Counts
    BY DEF Init, Counts
  <1>3. ASSUME NEW t \in Tabs PROVE StoresAsShown(t)
    BY DEF Init, StoresAsShown, isAccordionOpen
  <1>4. ASSUME NEW t \in Tabs PROVE Undisturbed(t)
    BY RequestIsOne DEF Init, Undisturbed, isAccordionOpen
  <1> QED BY <1>1, <1>2, <1>3, <1>4 DEF OneTabInv

(* What a tab does, from the invariant and the types after the step.       *)
LEMMA OneTabPage ==
  ASSUME NEW t \in Tabs, TypeInv, StoresAsShown(t), Undisturbed(t), Visit(t) \/ Leave(t)
  PROVE  StoresAsShown(t)' /\ Undisturbed(t)'
  <1>1. Typed /\ Links(t)
    BY DEF TypeInv
  <1>2. CASE Visit(t)
    <2>1. /\ phase'[t] = "loading"
          /\ UNCHANGED <<dom, timers, store, pending, item, xhr, queued, disturbed>>
      BY <1>1, <1>2 DEF Visit, Typed, storage, htmx
    <2> QED BY <2>1 DEF StoresAsShown, Undisturbed, isAccordionOpen
  <1>3. CASE Leave(t)
    <2>1. /\ Idle(t)
          /\ phase'[t] = "away" /\ xhr'[t] = NoRequest /\ queued'[t] = "none"
          /\ \A p \in Panels : dom'[t][p] = "absent"
          /\ UNCHANGED <<store, pending, item>>
      BY <1>1, <1>3 DEF Leave, Typed, storage
    <2>2. StoresAsShown(t)'
      BY <1>1, <2>1, StoresKept, IdleIs
    <2>3. Undisturbed(t)'
      BY <2>1, RequestIsOne DEF Undisturbed
    <2> QED BY <2>2, <2>3
  <1> QED BY <1>2, <1>3

LEMMA OneTabArrive ==
  ASSUME NEW t \in Tabs, NEW r \in Panels, TypeInv, StoresAsShown(t), Undisturbed(t), Arrive(t, r)
  PROVE  StoresAsShown(t)' /\ Undisturbed(t)'
  <1>1. Typed /\ Links(t)
    BY DEF TypeInv
  <1>2. /\ Idle(t)
        /\ \A p \in Panels : dom'[t][p] = IF p = r THEN "closed" ELSE dom[t][p]
        /\ disturbed'[t] = IF phase[t] = "ready" THEN disturbed[t] \cup {r} ELSE disturbed[t]
        /\ UNCHANGED <<phase, timers, settling, early, store, pending, item, xhr, queued>>
    BY <1>1 DEF Arrive, Typed, swap, storage, htmx
  <1>3. StoresAsShown(t)'
    <2>1. \A p \in Panels : dom'[t][p] = "open" => dom[t][p] = "open"
      BY <1>2
    <2> QED BY <1>1, <1>2, <2>1, StoresKept, IdleIs
  <1>4. Undisturbed(t)'
    BY <1>2 DEF Undisturbed, isAccordionOpen
  <1> QED BY <1>3, <1>4

LEMMA OneTabRead ==
  ASSUME NEW t \in Tabs, TypeInv, StoresAsShown(t), Undisturbed(t), getAccordionStatus(t)
  PROVE  StoresAsShown(t)' /\ Undisturbed(t)'
  <1>1. /\ item'[t] = store
        /\ UNCHANGED <<phase, dom, timers, settling, early, store, pending, xhr, queued, disturbed>>
    BY DEF TypeInv, Typed, getAccordionStatus, page, swap, htmx
  <1> QED BY <1>1 DEF StoresAsShown, Undisturbed, isAccordionOpen

LEMMA OneTabStore ==
  ASSUME NEW t \in Tabs, TypeInv, StoresAsShown(t), Undisturbed(t), setAccordionStatus(t)
  PROVE  StoresAsShown(t)' /\ Undisturbed(t)'
  <1> DEFINE w == Head(pending[t])
  <1>1. Typed /\ Links(t)
    BY DEF TypeInv
  <1>2. /\ item[t] # NoItem
        /\ store' = [item[t] EXCEPT ![w.panel] = w.status]
        /\ item'[t] = NoItem
        /\ pending'[t] = Tail(pending[t])
        /\ UNCHANGED <<phase, dom, timers, settling, early, xhr, queued, disturbed>>
    BY <1>1 DEF setAccordionStatus, Typed, page, swap, htmx
  <1>3. pending[t] \in Seq(Writes) /\ pending[t] # <<>> /\ item[t] = store /\ store \in [Panels -> Statuses]
    BY <1>1, <1>2 DEF Typed, Links, StoresAsShown
  <1>4. /\ w = pending[t][1] /\ 1 \in DOMAIN pending[t]
        /\ w \in Writes
        /\ \A i \in DOMAIN pending[t] : i # 1 => i - 1 \in DOMAIN pending'[t] /\ pending'[t][i - 1] = pending[t][i]
        /\ \A i \in DOMAIN pending'[t] : i + 1 \in DOMAIN pending[t] /\ pending'[t][i] = pending[t][i + 1]
    BY <1>2, <1>3
  <1>5. w.panel \in Panels /\ w.status \in {"open", "closed"} /\ w = Write(w.panel, w.status)
    BY <1>4 DEF Writes, Write
  <1>6. w.status = "open" <=> dom[t][w.panel] = "open"
    BY <1>4 DEF StoresAsShown, isAccordionOpen
  <1> HIDE DEF w
  <1>7. \A p \in Panels : store'[p] = IF p = w.panel THEN w.status ELSE store[p]
    BY <1>2, <1>3, <1>5
  <1>8. \A p \in Panels, status \in {"open", "closed"} :
            w = Write(p, status) => p = w.panel /\ status = w.status
    BY DEF Write
  <1>9. StoresAsShown(t)'
    <2>1. ASSUME NEW p \in Panels, dom'[t][p] = "open"
          PROVE  store'[p] = "open" \/ \E i \in DOMAIN pending'[t] : pending'[t][i] = Write(p, "open")
      <3>0. dom[t][p] = "open"
        BY <1>2, <2>1
      <3>1. CASE p = w.panel
        BY <1>5, <1>6, <1>7, <3>0, <3>1
      <3>2. CASE p # w.panel /\ store[p] = "open"
        BY <1>7, <3>2
      <3>3. CASE p # w.panel /\ \E i \in DOMAIN pending[t] : pending[t][i] = Write(p, "open")
        <4>1. PICK i \in DOMAIN pending[t] : pending[t][i] = Write(p, "open")
          BY <3>3
        <4>2. i # 1
          BY <1>4, <1>8, <3>3, <4>1
        <4> QED BY <1>4, <4>1, <4>2
      <3> QED BY <3>0, <3>1, <3>2, <3>3 DEF StoresAsShown, isAccordionOpen
    <2>2. ASSUME NEW i \in DOMAIN pending'[t]
          PROVE  pending'[t][i].status = "open" <=> dom'[t][pending'[t][i].panel] = "open"
      BY <1>2, <1>4 DEF StoresAsShown, isAccordionOpen
    <2> QED BY <1>2, <2>1, <2>2 DEF StoresAsShown, isAccordionOpen
  <1>10. Undisturbed(t)'
    <2> SUFFICES ASSUME NEW p \in Panels \ disturbed[t], phase[t] = "ready", dom[t][p] = "closed"
                 PROVE  \/ timers[t][p] > 0
                        \/ store'[p] # "open"
                        \/ \E i \in DOMAIN pending'[t] : pending'[t][i] = Write(p, "closed")
      BY <1>2 DEF Undisturbed, isAccordionOpen
    <2>1. \/ timers[t][p] > 0
          \/ store[p] # "open"
          \/ \E i \in DOMAIN pending[t] : pending[t][i] = Write(p, "closed")
      BY DEF Undisturbed
    <2>2. CASE p = w.panel
      BY <1>6, <1>7, <2>2
    <2>3. CASE p # w.panel /\ \E i \in DOMAIN pending[t] : pending[t][i] = Write(p, "closed")
      <3>1. PICK i \in DOMAIN pending[t] : pending[t][i] = Write(p, "closed")
        BY <2>3
      <3>2. i # 1
        BY <1>4, <1>8, <2>3, <3>1
      <3> QED BY <1>4, <3>1, <3>2
    <2>4. CASE p # w.panel /\ (timers[t][p] > 0 \/ store[p] # "open")
      BY <1>7, <2>4
    <2> QED BY <2>1, <2>2, <2>3, <2>4
  <1> QED BY <1>9, <1>10

(* A panel is shown open or closed, and that is what is to be stored.      *)
LEMMA OneTabShows ==
  ASSUME NEW t \in Tabs, NEW r \in Panels, NEW shows \in {"open", "closed"},
         Typed, Links(t), StoresAsShown(t), Undisturbed(t), Idle(t),
         \A p \in Panels : dom'[t][p] = IF p = r THEN shows ELSE dom[t][p],
         pending'[t] = <<Write(r, shows)>>,
         disturbed[t] \subseteq disturbed'[t] \cup {r},
         shows = "open" /\ (Reloading(t, r) \/ r \in settling[t]) => r \in disturbed'[t],
         \A p \in Panels \ {r} : timers'[t][p] = timers[t][p] /\ early'[t][p] = early[t][p],
         UNCHANGED <<phase, settling, store, item, xhr, queued>>
  PROVE  StoresAsShown(t)' /\ Undisturbed(t)'
  <1>0. pending[t] = <<>> /\ item[t] = NoItem
    BY IdleIs
  <1>1. /\ DOMAIN pending'[t] = {1} /\ pending'[t][1] = Write(r, shows)
        /\ Write(r, shows).panel = r /\ Write(r, shows).status = shows
    BY DEF Write
  <1>2. StoresAsShown(t)'
    <2>1. ASSUME NEW p \in Panels, dom'[t][p] = "open"
          PROVE  store[p] = "open" \/ \E i \in DOMAIN pending'[t] : pending'[t][i] = Write(p, "open")
      <3>1. CASE p = r
        BY <1>1, <2>1, <3>1
      <3>2. CASE p # r
        BY <1>0, <2>1, <3>2 DEF StoresAsShown, isAccordionOpen
      <3> QED BY <3>1, <3>2
    <2>2. ASSUME NEW i \in DOMAIN pending'[t]
          PROVE  pending'[t][i].status = "open" <=> dom'[t][pending'[t][i].panel] = "open"
      BY <1>1
    <2> QED BY <1>0, <2>1, <2>2 DEF StoresAsShown, isAccordionOpen
  <1>3. Undisturbed(t)'
    <2> SUFFICES ASSUME NEW p \in Panels \ disturbed'[t]
                 PROVE  /\ queued[t] = p => dom'[t][p] # "open"
                        /\ xhr[t].panel = p /\ ~xhr[t].open => dom'[t][p] # "open"
                        /\ phase[t] = "ready" /\ dom'[t][p] = "closed" =>
                              \/ timers'[t][p] > 0
                              \/ store[p] # "open"
                              \/ \E i \in DOMAIN pending'[t] : pending'[t][i] = Write(p, "closed")
                        /\ phase[t] = "ready" /\ p \in settling[t] /\ dom'[t][p] = "open" =>
                              timers'[t][p] > early'[t][p]
      BY DEF Undisturbed, isAccordionOpen
    <2>1. CASE p # r
      BY <1>0, <2>1 DEF Undisturbed, isAccordionOpen
    <2>2. CASE p = r
      <3>1. p \in settling[t] => dom'[t][p] # "open"
        BY <2>2
      <3>2. (xhr[t].panel = p => dom'[t][p] # "open") /\ (queued[t] = p => dom'[t][p] # "open")
        BY <2>2 DEF Reloading
      <3>3. dom'[t][p] = "closed" => \E i \in DOMAIN pending'[t] : pending'[t][i] = Write(p, "closed")
        BY <1>1, <2>2
      <3> QED BY <3>1, <3>2, <3>3
    <2> QED BY <2>1, <2>2
  <1> QED BY <1>2, <1>3

LEMMA OneTabToggle ==
  ASSUME NEW t \in Tabs, NEW r \in Panels, TypeInv, StoresAsShown(t), Undisturbed(t),
         toggleAccordion(t, r) \/ openAccordion(t, r)
  PROVE  StoresAsShown(t)' /\ Undisturbed(t)'
  <1>1. Typed /\ Links(t)
    BY DEF TypeInv
  <1>2. OpenedUnder(t, r) = IF Reloading(t, r) \/ r \in settling[t] THEN {r} ELSE {}
    BY DEF OpenedUnder
  <1>3. CASE toggleAccordion(t, r)
    <2> DEFINE shows == IF ~isAccordionOpen(t, r) THEN "open" ELSE "closed"
    <2>1. /\ Idle(t)
          /\ dom' = [dom EXCEPT ![t][r] = shows]
          /\ pending' = [pending EXCEPT ![t] = <<Write(r, shows)>>]
          /\ disturbed' = [disturbed EXCEPT ![t] =
                             (@ \ {r}) \cup (IF ~isAccordionOpen(t, r) THEN OpenedUnder(t, r) ELSE {})]
          /\ UNCHANGED <<phase, timers, settling, early, store, item, xhr, queued>>
      BY <1>3 DEF toggleAccordion, swap, htmx
    <2>2. shows \in {"open", "closed"} /\ (shows = "open" => ~isAccordionOpen(t, r))
      OBVIOUS
    <2> HIDE DEF shows
    <2>3. /\ \A p \in Panels : dom'[t][p] = IF p = r THEN shows ELSE dom[t][p]
          /\ pending'[t] = <<Write(r, shows)>>
          /\ disturbed'[t] = (disturbed[t] \ {r})
                                \cup (IF ~isAccordionOpen(t, r) THEN OpenedUnder(t, r) ELSE {})
      BY <1>1, <2>1 DEF Typed
    <2>4. /\ disturbed[t] \subseteq disturbed'[t] \cup {r}
          /\ shows = "open" /\ (Reloading(t, r) \/ r \in settling[t]) => r \in disturbed'[t]
      BY <1>2, <2>2, <2>3
    <2> QED BY <1>1, <2>1, <2>2, <2>3, <2>4, OneTabShows
  <1>4. CASE openAccordion(t, r) /\ ~isAccordionOpen(t, r)
    <2>1. /\ Idle(t)
          /\ timers' = [timers EXCEPT ![t][r] = @ - 1]
          /\ early' = [early EXCEPT ![t][r] = IF @ > 0 THEN @ - 1 ELSE 0]
          /\ dom' = [dom EXCEPT ![t][r] = "open"]
          /\ pending' = [pending EXCEPT ![t] = <<Write(r, "open")>>]
          /\ disturbed' = [disturbed EXCEPT ![t] = @ \cup OpenedUnder(t, r)]
          /\ UNCHANGED <<phase, settling, store, item, xhr, queued>>
      BY <1>4 DEF openAccordion, htmx
    <2>3. /\ \A p \in Panels : dom'[t][p] = IF p = r THEN "open" ELSE dom[t][p]
          /\ \A p \in Panels \ {r} : timers'[t][p] = timers[t][p] /\ early'[t][p] = early[t][p]
          /\ pending'[t] = <<Write(r, "open")>>
          /\ disturbed'[t] = disturbed[t] \cup OpenedUnder(t, r)
      BY <1>1, <2>1 DEF Typed
    <2>4. /\ disturbed[t] \subseteq disturbed'[t] \cup {r}
          /\ Reloading(t, r) \/ r \in settling[t] => r \in disturbed'[t]
          /\ "open" \in {"open", "closed"}
      BY <1>2, <2>3
    <2> QED BY <1>1, <2>1, <2>3, <2>4, OneTabShows
  <1>5. CASE openAccordion(t, r) /\ isAccordionOpen(t, r)
    <2>1. /\ Idle(t)
          /\ r \in settling[t] => early[t][r] > 0
          /\ timers' = [timers EXCEPT ![t][r] = @ - 1]
          /\ early' = [early EXCEPT ![t][r] = IF @ > 0 THEN @ - 1 ELSE 0]
          /\ UNCHANGED <<dom, settling, pending, disturbed, phase, store, item, xhr, queued>>
      BY <1>5 DEF openAccordion, htmx
    <2>2. \A p \in Panels \ {r} : timers'[t][p] = timers[t][p] /\ early'[t][p] = early[t][p]
      BY <1>1, <2>1 DEF Typed
    <2>a. r \in settling[t] /\ timers[t][r] > early[t][r] => timers'[t][r] > early'[t][r]
      <3>1. timers[t][r] \in Nat /\ early[t][r] \in Nat
        BY <1>1 DEF Typed
      <3>2. /\ timers'[t][r] = timers[t][r] - 1
            /\ early'[t][r] = IF early[t][r] > 0 THEN early[t][r] - 1 ELSE 0
        BY <1>1, <2>1 DEF Typed
      <3> QED BY <2>1, <3>1, <3>2
    <2>3. StoresAsShown(t)'
      BY <2>1 DEF StoresAsShown, isAccordionOpen
    <2>4. Undisturbed(t)'
      <3> SUFFICES ASSUME NEW p \in Panels \ disturbed[t]
                   PROVE  /\ queued[t] = p => dom[t][p] # "open"
                          /\ xhr[t].panel = p /\ ~xhr[t].open => dom[t][p] # "open"
                          /\ phase[t] = "ready" /\ dom[t][p] = "closed" =>
                                timers'[t][p] > 0 \/ store[p] # "open"
                          /\ phase[t] = "ready" /\ p \in settling[t] /\ dom[t][p] = "open" =>
                                timers'[t][p] > early'[t][p]
        BY <2>1 DEF Undisturbed, isAccordionOpen
      <3>0. pending[t] = <<>>
        BY <1>1, <2>1, IdleIs
      <3>1. CASE p = r
        BY <1>5, <2>a, <3>1 DEF Undisturbed, isAccordionOpen
      <3>2. CASE p # r
        BY <2>2, <3>0, <3>2 DEF Undisturbed, isAccordionOpen
      <3> QED BY <3>1, <3>2
    <2> QED BY <2>3, <2>4
  <1> QED BY <1>3, <1>4, <1>5

(* Settling closes a panel that a timer is to open again, or that was not  *)
(* open.                                                                   *)
LEMMA OneTabSettle ==
  ASSUME NEW t \in Tabs, NEW r \in Panels, TypeInv, StoresAsShown(t), Undisturbed(t), Settle(t, r)
  PROVE  StoresAsShown(t)' /\ Undisturbed(t)'
  <1>1. Typed /\ Links(t)
    BY DEF TypeInv
  <1>2. /\ Idle(t) /\ r \in settling[t]
        /\ settling'[t] = settling[t] \ {r}
        /\ \A p \in Panels \ {r} : early'[t][p] = early[t][p]
        /\ \A p \in Panels : dom'[t][p] = IF p = r THEN "closed" ELSE dom[t][p]
        /\ UNCHANGED <<phase, timers, store, pending, item, xhr, queued, disturbed>>
    BY <1>1 DEF Settle, Typed, storage, htmx
  <1>3. StoresAsShown(t)'
    <2>1. \A p \in Panels : dom'[t][p] = "open" => dom[t][p] = "open"
      BY <1>2
    <2> QED BY <1>1, <1>2, <2>1, StoresKept, IdleIs
  <1>4. Undisturbed(t)'
    <2> SUFFICES ASSUME NEW p \in Panels \ disturbed[t]
                 PROVE  /\ queued[t] = p => dom'[t][p] # "open"
                        /\ xhr[t].panel = p /\ ~xhr[t].open => dom'[t][p] # "open"
                        /\ phase[t] = "ready" /\ dom'[t][p] = "closed" =>
                              timers[t][p] > 0 \/ store[p] # "open"
                        /\ phase[t] = "ready" /\ p \in settling'[t] /\ dom'[t][p] = "open" =>
                              timers[t][p] > early'[t][p]
      BY <1>2 DEF Undisturbed, isAccordionOpen
    <2>0. pending[t] = <<>>
      BY <1>1, <1>2, IdleIs
    <2>1. CASE p # r
      BY <1>2, <2>0, <2>1 DEF Undisturbed, isAccordionOpen
    <2>2. CASE p = r
      <3>1. timers[t][p] \in Nat /\ early[t][p] \in Nat /\ dom[t][p] \in {"closed", "open"}
        BY <1>1, <1>2, <2>2 DEF Typed, Links, Present
      <3>2. phase[t] = "ready" /\ dom[t][p] = "open" => timers[t][p] > early[t][p]
        BY <1>2, <2>2 DEF Undisturbed, isAccordionOpen
      <3>3. phase[t] = "ready" /\ dom[t][p] = "closed" => timers[t][p] > 0 \/ store[p] # "open"
        BY <2>0 DEF Undisturbed
      <3>4. phase[t] = "ready" => timers[t][p] > 0 \/ store[p] # "open"
        BY <3>1, <3>2, <3>3
      <3> QED BY <1>2, <2>2, <3>4
    <2> QED BY <2>1, <2>2
  <1> QED BY <1>3, <1>4

LEMMA OneTabLoad ==
  ASSUME NEW t \in Tabs, NEW named \in Panels \cup {"none"}, TypeInv, StoresAsShown(t), Undisturbed(t),
         loadPanels(t, named)
  PROVE  StoresAsShown(t)' /\ Undisturbed(t)'
  <1> DEFINE here == {p \in Panels : Present(t, p)}
             open == IF named \in here THEN {named} ELSE {p \in here : store[p] = "open"}
             shut == IF named \in here THEN {} ELSE {p \in here : store[p] = "closed"}
  <1>1. Typed /\ Links(t)
    BY DEF TypeInv
  <1>2. /\ Idle(t)
        /\ timers' = [timers EXCEPT ![t] = [p \in Panels |-> IF p \in open THEN @[p] + 1 ELSE @[p]]]
        /\ closeAccordions(t, shut)
        /\ disturbed' = [disturbed EXCEPT ![t] = @ \cup (here \ (open \cup shut))]
        /\ UNCHANGED <<settling, early, store, item, xhr, queued>>
    BY DEF loadPanels, swap, htmx
  <1>3. shut \in SUBSET Panels /\ \A p \in shut : Present(t, p) /\ store[p] = "closed"
    OBVIOUS
  <1> HIDE DEF open, shut
  <1>4. /\ \A p \in Panels : dom'[t][p] = IF p \in shut /\ Present(t, p) THEN "closed" ELSE dom[t][p]
        /\ \A i \in DOMAIN pending'[t] : pending'[t][i].panel \in shut /\ pending'[t][i].status = "closed"
    BY <1>1, <1>2, <1>3, CloseIs
  <1>5. /\ \A p \in Panels : timers'[t][p] = IF p \in open THEN timers[t][p] + 1 ELSE timers[t][p]
        /\ disturbed'[t] = disturbed[t] \cup (here \ (open \cup shut))
        /\ \A p \in Panels : timers[t][p] \in Nat /\ early[t][p] \in Nat /\ early[t][p] <= timers[t][p]
    BY <1>1, <1>2 DEF Typed, Links
  <1>6. pending[t] = <<>> /\ item[t] = NoItem
    BY <1>1, <1>2, IdleIs
  <1>7. StoresAsShown(t)'
    <2>1. ASSUME NEW p \in Panels, dom'[t][p] = "open" PROVE store[p] = "open"
      BY <1>4, <1>6, <2>1 DEF StoresAsShown, isAccordionOpen
    <2>2. ASSUME NEW i \in DOMAIN pending'[t]
          PROVE  pending'[t][i].status = "open" <=> dom'[t][pending'[t][i].panel] = "open"
      BY <1>3, <1>4
    <2> QED BY <1>2, <1>6, <2>1, <2>2 DEF StoresAsShown, isAccordionOpen
  <1>8. Undisturbed(t)'
    <2> SUFFICES ASSUME NEW p \in Panels \ disturbed'[t]
                 PROVE  /\ queued[t] = p => dom'[t][p] # "open"
                        /\ xhr[t].panel = p /\ ~xhr[t].open => dom'[t][p] # "open"
                        /\ dom'[t][p] = "closed" => timers'[t][p] > 0 \/ store[p] # "open"
                        /\ dom'[t][p] = "open" => timers'[t][p] > early[t][p]
      BY <1>2 DEF Undisturbed, isAccordionOpen
    <2>1. p \notin disturbed[t] /\ (dom'[t][p] = "open" => dom[t][p] = "open" /\ p \notin shut)
      BY <1>3, <1>4, <1>5
    <2>2. dom'[t][p] \in {"closed", "open"} => p \in here
      BY <1>1, <1>4 DEF Typed, Present
    <2>3. p \in here => p \in open \/ p \in shut
      BY <1>5
    <2>4. p \in open => timers'[t][p] > early[t][p] /\ timers'[t][p] > 0
      BY <1>5
    <2>5. (queued[t] = p => dom[t][p] # "open") /\ (xhr[t].panel = p /\ ~xhr[t].open => dom[t][p] # "open")
      BY <2>1 DEF Undisturbed, isAccordionOpen
    <2> QED BY <1>3, <2>1, <2>2, <2>3, <2>4, <2>5
  <1> QED BY <1>7, <1>8

(***************************************************************************)
(* A step that reloads: a panel that is swapped by it gets a timer if it   *)
(* was found open, and was not open otherwise.                             *)
(***************************************************************************)
LEMMA OneTabReload ==
  ASSUME NEW t \in Tabs, Typed, Links(t), StoresAsShown(t), Undisturbed(t), Idle(t),
         NEW ps, NEW fan, NEW lock, NEW place, NEW reopen \in SUBSET Panels,
         Reloaded(t, ps, fan, lock, place, reopen),
         UNCHANGED <<phase, dom, store, pending, item>>,
         \A p \in Panels \ disturbed[t] :
            p \in settling'[t] /\ dom[t][p] = "open" =>
               \/ p \in settling[t] /\ early'[t][p] = early[t][p]
               \/ early'[t][p] = timers[t][p] /\ p \in reopen,
         \A p \in Panels \ disturbed[t] :
            /\ place = p => dom[t][p] # "open"
            /\ lock.panel = p /\ ~lock.open => dom[t][p] # "open"
  PROVE  StoresAsShown(t)' /\ Undisturbed(t)'
  <1>1. pending[t] = <<>> /\ item[t] = NoItem
    BY IdleIs
  <1>2. StoresAsShown(t)'
    BY <1>1, StoresKept
  <1>3. Undisturbed(t)'
    <2> SUFFICES ASSUME NEW p \in Panels \ disturbed'[t]
                 PROVE  /\ queued'[t] = p => dom[t][p] # "open"
                        /\ xhr'[t].panel = p /\ ~xhr'[t].open => dom[t][p] # "open"
                        /\ phase[t] = "ready" /\ dom[t][p] = "closed" =>
                              timers'[t][p] > 0 \/ store[p] # "open"
                        /\ phase[t] = "ready" /\ p \in settling'[t] /\ dom[t][p] = "open" =>
                              timers'[t][p] > early'[t][p]
      BY DEF Undisturbed, isAccordionOpen
    <2>1. p \notin disturbed[t]
      BY DEF Reloaded
    <2>2. queued'[t] = p => dom[t][p] # "open"
      BY <2>1 DEF Reloaded
    <2>3. xhr'[t].panel = p /\ ~xhr'[t].open => dom[t][p] # "open"
      BY <2>1 DEF Reloaded
    <2>a. /\ timers[t][p] \in Nat /\ timers'[t][p] \in Nat /\ early[t][p] \in Nat
          /\ timers'[t][p] >= timers[t][p]
          /\ p \in reopen => timers'[t][p] > timers[t][p]
      BY DEF Reloaded, Typed
    <2>4. ASSUME phase[t] = "ready", dom[t][p] = "closed" PROVE timers'[t][p] > 0 \/ store[p] # "open"
      <3>1. timers[t][p] > 0 \/ store[p] # "open"
        BY <1>1, <2>1, <2>4 DEF Undisturbed
      <3> QED BY <2>a, <3>1
    <2>5. ASSUME phase[t] = "ready", p \in settling'[t], dom[t][p] = "open"
          PROVE  timers'[t][p] > early'[t][p]
      <3>1. CASE p \in settling[t] /\ early'[t][p] = early[t][p]
        <4>1. timers[t][p] > early[t][p]
          BY <2>1, <2>5, <3>1 DEF Undisturbed, isAccordionOpen
        <4> QED BY <2>a, <3>1, <4>1
      <3>2. CASE early'[t][p] = timers[t][p] /\ p \in reopen
        BY <2>a, <3>2
      <3> QED BY <2>1, <2>5, <3>1, <3>2
    <2> QED BY <2>2, <2>3, <2>4, <2>5
  <1> QED BY <1>2, <1>3

LEMMA OneTabGetData ==
  ASSUME NEW t \in Tabs, NEW b \in Buttons, TypeInv, StoresAsShown(t), Undisturbed(t), getData(t, b)
  PROVE  StoresAsShown(t)' /\ Undisturbed(t)'
  <1>1. Typed /\ Links(t)
    BY DEF TypeInv
  <1>2. /\ Idle(t) /\ version' = version + 1
        /\ UNCHANGED <<phase, dom, settling, early, store, pending, item>>
    BY DEF getData, swap, storage
  <1>3. PICK ps \in Seq(Panels), thenFan \in BOOLEAN :
            /\ Reload(t, ps, FALSE, thenFan, xhr[t], queued[t], {})
            /\ b # "all" => b \in ProtocolPanels /\ ps # <<>> /\ ps[1] = b
            /\ b = "all" => ps = InPageOrder({p \in Panels : Present(t, p)})
    BY <1>1, GetDataReloads, Zenon
  <1>4. /\ version' \in Nat /\ FALSE \in BOOLEAN /\ {} \in SUBSET Panels
        /\ dom' \in [Tabs -> [Panels -> {"absent", "closed", "open"}]]
        /\ xhr[t] \in Request \cup {NoRequest} /\ queued[t] \in Panels \cup {"none"}
    BY <1>1, <1>2 DEF Typed
  <1> DEFINE nobody == {}
             chain == FALSE
  <1>5. Reloaded(t, ps, chain, xhr[t], queued[t], nobody) /\ nobody \in SUBSET Panels
    BY <1>1, <1>3, <1>4, ReloadIs, Zenon
  <1> HIDE DEF nobody, chain
  <1>6. \A p \in Panels \ disturbed[t] :
            /\ queued[t] = p => dom[t][p] # "open"
            /\ xhr[t].panel = p /\ ~xhr[t].open => dom[t][p] # "open"
    BY DEF Undisturbed, isAccordionOpen
  <1>7. \A p \in Panels \ disturbed[t] :
            p \in settling'[t] /\ dom[t][p] = "open" =>
               \/ p \in settling[t] /\ early'[t][p] = early[t][p]
               \/ early'[t][p] = timers[t][p] /\ p \in nobody
    BY <1>2
  <1>8. UNCHANGED <<phase, dom, store, pending, item>>
    BY <1>2
  <1> QED BY <1>1, <1>2, <1>5, <1>6, <1>7, <1>8, OneTabReload

LEMMA OneTabAnswer ==
  ASSUME NEW t \in Tabs, TypeInv, StoresAsShown(t), Undisturbed(t), AjaxAnswer(t) \/ AjaxRefused(t)
  PROVE  StoresAsShown(t)' /\ Undisturbed(t)'
  <1> DEFINE reopen == IF xhr[t].open THEN {xhr[t].panel} ELSE {}
             panel == xhr[t].panel
  <1>1. Typed /\ Links(t)
    BY DEF TypeInv
  <1>2. /\ Idle(t) /\ xhr[t] # NoRequest
        /\ Reload(t, xhr[t].next, xhr[t].fan, FALSE, FromQueue(t), "none", reopen)
        /\ UNCHANGED <<phase, dom, store, pending, item, version>>
        /\ \/ UNCHANGED <<settling, early>>
           \/ /\ settling' = [settling EXCEPT ![t] = @ \cup {panel}]
              /\ early' = [early EXCEPT ![t][panel] = timers[t][panel]]
    BY DEF AjaxAnswer, AjaxRefused, Resolve, swap, storage, server
  <1>3. xhr[t] \in Request
    BY <1>1, <1>2 DEF Typed
  <1>4. panel \in Panels /\ xhr[t].next \in Seq(Panels) /\ xhr[t].fan \in BOOLEAN
        /\ xhr[t].open \in BOOLEAN /\ dom[t][panel] # "absent"
    BY <1>1, <1>2, <1>3, RequestIsOne DEF Links, Present
  <1>5. /\ xhr[t].open => panel \in reopen
        /\ \A p \in Panels \ disturbed[t] : panel = p /\ ~xhr[t].open => dom[t][p] # "open"
        /\ reopen \in SUBSET Panels
    BY <1>4 DEF Undisturbed, isAccordionOpen
  <1> HIDE DEF panel, reopen
  <1>6. dom \in [Tabs -> [Panels -> {"absent", "closed", "open"}]] /\ version \in Nat
    BY <1>1 DEF Typed
  <1>7. \A p \in Panels \ disturbed[t] :
            p \in settling'[t] /\ dom[t][p] = "open" =>
               \/ p \in settling[t] /\ early'[t][p] = early[t][p]
               \/ early'[t][p] = timers[t][p] /\ p \in reopen
    <2> TAKE p \in Panels \ disturbed[t]
    <2>1. CASE UNCHANGED <<settling, early>>
      BY <2>1
    <2>2. CASE /\ settling' = [settling EXCEPT ![t] = @ \cup {panel}]
               /\ early' = [early EXCEPT ![t][panel] = timers[t][panel]]
      <3>1. /\ settling'[t] = settling[t] \cup {panel}
            /\ early'[t][p] = IF p = panel THEN timers[t][p] ELSE early[t][p]
        BY <1>1, <2>2 DEF Typed
      <3> QED BY <1>4, <1>5, <3>1
    <2> QED BY <1>2, <2>1, <2>2
  <1>8. /\ FromQueue(t) \in Request \cup {NoRequest}
        /\ FALSE \in BOOLEAN /\ "none" \in Panels \cup {"none"} /\ version' \in Nat
        /\ dom' \in [Tabs -> [Panels -> {"absent", "closed", "open"}]]
    BY <1>2, <1>6, LockIs
  <1>9. Reloaded(t, xhr[t].next, xhr[t].fan, FromQueue(t), "none", reopen)
    BY <1>1, <1>2, <1>4, <1>5, <1>8, ReloadIs, Zenon
  <1>10. \A p \in Panels \ disturbed[t] :
            /\ "none" = p => dom[t][p] # "open"
            /\ FromQueue(t).panel = p /\ ~FromQueue(t).open => dom[t][p] # "open"
    <2> TAKE p \in Panels \ disturbed[t]
    <2>1. queued[t] = p => dom[t][p] # "open"
      BY DEF Undisturbed, isAccordionOpen
    <2>2. FromQueue(t).panel = queued[t] \/ FromQueue(t).panel = "none"
      BY <1>1, FromQueueIs, RequestIsOne
    <2> QED BY <2>1, <2>2, RequestIsOne
  <1>11. UNCHANGED <<phase, dom, store, pending, item>>
    BY <1>2
  <1> QED BY <1>1, <1>2, <1>5, <1>7, <1>9, <1>10, <1>11, OneTabReload

LEMMA OneTabFailed ==
  ASSUME NEW t \in Tabs, TypeInv, StoresAsShown(t), Undisturbed(t), AjaxFailed(t)
  PROVE  StoresAsShown(t)' /\ Undisturbed(t)'
  <1>1. Typed /\ Links(t)
    BY DEF TypeInv
  <1>2. /\ xhr'[t] = FromQueue(t) /\ queued'[t] = "none"
        /\ UNCHANGED <<phase, dom, timers, settling, early, store, pending, item, disturbed>>
    BY <1>1 DEF AjaxFailed, Typed, page, swap, storage
  <1>3. StoresAsShown(t)'
    BY <1>2 DEF StoresAsShown, isAccordionOpen
  <1>4. FromQueue(t).panel = queued[t] \/ FromQueue(t).panel = "none"
    BY <1>1, FromQueueIs, RequestIsOne
  <1>5. Undisturbed(t)'
    BY <1>2, <1>4, RequestIsOne DEF Undisturbed, isAccordionOpen
  <1> QED BY <1>3, <1>5

LEMMA CountsNext == ASSUME Counts, [Next]_vars PROVE Counts'
  <1> USE DEF Counts
  <1>1. CASE UNCHANGED done
    BY <1>1
  <1>2. ASSUME done' = [done EXCEPT !.visits = @ + 1] \/ done' = [done EXCEPT !.clicks = @ + 1]
               \/ done' = [done EXCEPT !.commands = @ + 1] \/ done' = [done EXCEPT !.cleans = @ + 1]
        PROVE  Counts'
    BY <1>2
  <1> HIDE DEF Counts
  <1>3. ASSUME NEW t \in Tabs,
               \/ Visit(t) \/ Leave(t) \/ getAccordionStatus(t) \/ setAccordionStatus(t)
               \/ AjaxAnswer(t) \/ AjaxRefused(t) \/ AjaxFailed(t)
        PROVE  Counts'
    BY <1>1, <1>2, <1>3 DEF Visit, Leave, getAccordionStatus, setAccordionStatus, AjaxAnswer,
       AjaxRefused, AjaxFailed
  <1>4. ASSUME NEW t \in Tabs, NEW named \in Panels \cup {"none"}, loadPanels(t, named) PROVE Counts'
    BY <1>1, <1>4 DEF loadPanels
  <1>5. ASSUME NEW t \in Tabs, NEW p \in Panels,
               Arrive(t, p) \/ toggleAccordion(t, p) \/ openAccordion(t, p) \/ Settle(t, p)
        PROVE  Counts'
    BY <1>1, <1>2, <1>5 DEF Arrive, toggleAccordion, openAccordion, Settle
  <1>6. ASSUME NEW t \in Tabs, NEW b \in Buttons, Command(t, b) \/ getData(t, b) \/ getDataFails(t, b)
        PROVE  Counts'
    BY <1>1, <1>2, <1>6 DEF Command, getData, getDataFails
  <1>7. CASE cleanAccordionStatus
    BY <1>2, <1>7 DEF cleanAccordionStatus
  <1>8. CASE UNCHANGED vars
    BY <1>1, <1>8 DEF vars
  <1> QED BY <1>3, <1>4, <1>5, <1>6, <1>7, <1>8 DEF Next

LEMMA OneTabNext ==
  ASSUME NEW t, Tabs = {t}, MaxCleans = 0, OneTabInv, [Next]_vars
  PROVE  OneTabInv'
  <1>1. TypeInv /\ Counts /\ t \in Tabs /\ StoresAsShown(t) /\ Undisturbed(t)
    BY DEF OneTabInv
  <1>2. TypeInv' /\ Counts'
    BY <1>1, TypeNext, CountsNext
  <1>3. SUFFICES StoresAsShown(t)' /\ Undisturbed(t)'
    BY <1>2 DEF OneTabInv
  <1>4. \A u \in Tabs : u = t
    OBVIOUS
  <1>5. CASE \/ Visit(t) \/ Leave(t) \/ getAccordionStatus(t) \/ setAccordionStatus(t)
             \/ AjaxAnswer(t) \/ AjaxRefused(t) \/ AjaxFailed(t)
    BY <1>1, <1>5, OneTabPage, OneTabRead, OneTabStore, OneTabAnswer, OneTabFailed
  <1>6. ASSUME NEW named \in Panels \cup {"none"}, loadPanels(t, named)
        PROVE  StoresAsShown(t)' /\ Undisturbed(t)'
    BY <1>1, <1>6, OneTabLoad
  <1>7. ASSUME NEW p \in Panels,
               Arrive(t, p) \/ toggleAccordion(t, p) \/ openAccordion(t, p) \/ Settle(t, p)
        PROVE  StoresAsShown(t)' /\ Undisturbed(t)'
    BY <1>1, <1>7, OneTabArrive, OneTabToggle, OneTabSettle
  <1>8. ASSUME NEW b \in Buttons, getData(t, b)
        PROVE  StoresAsShown(t)' /\ Undisturbed(t)'
    BY <1>1, <1>8, OneTabGetData
  <1>9. ASSUME UNCHANGED <<page, storage, htmx, disturbed>>
        PROVE  StoresAsShown(t)' /\ Undisturbed(t)'
    <2>1. UNCHANGED <<phase, dom, timers, settling, early, store, pending, item, xhr, queued, disturbed>>
      BY <1>9 DEF page, swap, storage, htmx
    <2>2. StoresAsShown(t)'
      BY <1>1, <2>1 DEF StoresAsShown, isAccordionOpen
    <2> QED BY <1>1, <2>1, <2>2, UndisturbedKept
  <1>10. ASSUME NEW b \in Buttons, Command(t, b) \/ getDataFails(t, b)
         PROVE  StoresAsShown(t)' /\ Undisturbed(t)'
    BY <1>9, <1>10 DEF Command, getDataFails
  <1>11. ~cleanAccordionStatus
    BY <1>1 DEF cleanAccordionStatus, Counts
  <1>12. CASE UNCHANGED vars
    BY <1>9, <1>12 DEF vars
  <1> QED BY <1>4, <1>5, <1>6, <1>7, <1>8, <1>10, <1>11, <1>12 DEF Next

(***************************************************************************)
(* In the only tab, and until the stored status is cleaned, a panel that   *)
(* is shown open is stored as open, whoever opened it.                     *)
(***************************************************************************)
THEOREM OpenStored ==
  ASSUME NEW t, Tabs = {t}, MaxCleans = 0
  PROVE  Spec => []OpenIsStored
  <1>1. OneTabInv => OpenIsStored
    BY DEF OneTabInv, StoresAsShown, OpenIsStored, Idle
  <1>2. OneTabInv /\ [Next]_vars => OneTabInv'
    BY OneTabNext
  <1> QED BY OneTabInit, <1>1, <1>2, PTL DEF Spec

(***************************************************************************)
(* In the only tab, and until the stored status is cleaned, a page at rest *)
(* shows the panels that nothing overtook as they are stored.              *)
(***************************************************************************)
THEOREM RestStored ==
  ASSUME NEW t, Tabs = {t}, MaxCleans = 0
  PROVE  Spec => []RestIsAsStored
  <1>1. ASSUME OneTabInv PROVE RestIsAsStored
    <2> SUFFICES ASSUME NEW u \in Tabs, Quiet(u), NEW p \in Panels \ disturbed[u], Present(u, p)
                 PROVE  isAccordionOpen(u, p) <=> store[p] = "open"
      BY DEF RestIsAsStored
    <2>1. Typed /\ StoresAsShown(u) /\ Undisturbed(u)
      BY <1>1 DEF OneTabInv, TypeInv
    <2>2. phase[u] = "ready" /\ pending[u] = <<>> /\ timers[u][p] = 0
      BY DEF Quiet, Idle
    <2>3. dom[u][p] \in {"closed", "open"}
      BY <2>1 DEF Typed, Present
    <2>4. dom[u][p] = "open" => store[p] = "open"
      BY <2>1, <2>2 DEF StoresAsShown, isAccordionOpen
    <2>5. dom[u][p] = "closed" => store[p] # "open"
      BY <2>1, <2>2 DEF Undisturbed
    <2> QED BY <2>3, <2>4, <2>5 DEF isAccordionOpen
  <1>2. OneTabInv /\ [Next]_vars => OneTabInv'
    BY OneTabNext
  <1> QED BY OneTabInit, <1>1, <1>2, PTL DEF Spec

-----------------------------------------------------------------------------
(* What a button did is on its way.                                        *)
LEMMA ChangeKept ==
  ASSUME NEW u \in Tabs, ChangeOnItsWay(u), broken'[u] = broken[u], queued'[u] = queued[u],
         xhr'[u] = xhr[u], shown'[u] = shown[u], due'[u] = due[u], calls'[u] = calls[u],
         \A p \in Panels : Present(u, p) => Present(u, p)'
  PROVE  ChangeOnItsWay(u)'
  BY DEF ChangeOnItsWay, Latest, Panels

(* What is due of a tab is not past the version.                           *)
LEMMA LatestIs ==
  ASSUME NEW u \in Tabs, Typed
  PROVE  /\ "active" \in Panels /\ version \in Nat
         /\ Latest(u) \in Nat /\ Latest(u) <= version
  <1>1. "active" \in Panels
    BY DEF Panels
  <1>2. due[u]["active"] \in 0..version /\ version \in Nat
    BY <1>1 DEF Typed
  <1> QED BY <1>1, <1>2 DEF Latest

LEMMA ChangeInit == Init => ChangeInv
  <1> SUFFICES ASSUME Init PROVE ChangeInv
    OBVIOUS
  <1>1. TypeInv
    BY TypeInit
  <1>2. ASSUME NEW t \in Tabs PROVE ChangeOnItsWay(t)
    <2>1. "active" \in Panels
      BY DEF Panels
    <2>2. shown[t]["active"] >= Latest(t) /\ xhr[t] = NoRequest /\ calls[t] = {}
      BY <2>1 DEF Init, Latest
    <2> QED BY <2>1, <2>2 DEF ChangeOnItsWay
  <1> QED BY <1>1, <1>2 DEF ChangeInv

LEMMA ChangeArrive ==
  ASSUME NEW t \in Tabs, NEW r \in Panels, ChangeInv, Arrive(t, r)
  PROVE  \A u \in Tabs : ChangeOnItsWay(u)'
  <1>1. Typed /\ \A u \in Tabs : ChangeOnItsWay(u)
    BY DEF ChangeInv, TypeInv
  <1>2. /\ dom' = [dom EXCEPT ![t][r] = "closed"]
        /\ shown' = [shown EXCEPT ![t][r] = version]
        /\ UNCHANGED <<xhr, queued, broken, calls, version, due>>
    BY DEF Arrive, htmx
  <1>3. \A u \in Tabs : \A p \in Panels : Present(u, p) => Present(u, p)'
    BY <1>1, <1>2 DEF Typed, Present
  <1>4. ASSUME NEW u \in Tabs \ {t} PROVE ChangeOnItsWay(u)'
    <2>1. shown'[u] = shown[u]
      BY <1>1, <1>2 DEF Typed
    <2> QED BY <1>1, <1>2, <1>3, <2>1, ChangeKept
  <1>5. ChangeOnItsWay(t)'
    <2>1. \A p \in Panels : shown'[t][p] = IF p = r THEN version ELSE shown[t][p]
      BY <1>1, <1>2 DEF Typed
    <2>2. Latest(t) \in Nat /\ Latest(t) <= version /\ version \in Nat /\ Latest(t)' = Latest(t)
      BY <1>1, <1>2, LatestIs DEF Latest
    <2>3. shown'[t][r] >= Latest(t)'
      BY <2>1, <2>2
    <2> QED BY <1>1, <1>2, <1>3, <2>2, <2>3 DEF ChangeOnItsWay, Panels
  <1> QED BY <1>4, <1>5

LEMMA ChangeLeave ==
  ASSUME NEW t \in Tabs, ChangeInv, Leave(t) PROVE \A u \in Tabs : ChangeOnItsWay(u)'
  <1>1. Typed /\ \A u \in Tabs : ChangeOnItsWay(u)
    BY DEF ChangeInv, TypeInv
  <1>2. /\ xhr'[t] = NoRequest /\ calls'[t] = {}
        /\ shown'[t] = [p \in Panels |-> 0] /\ due'[t] = [p \in Panels |-> 0]
        /\ \A u \in Tabs \ {t} :
              /\ dom'[u] = dom[u] /\ xhr'[u] = xhr[u] /\ queued'[u] = queued[u] /\ calls'[u] = calls[u]
              /\ shown'[u] = shown[u] /\ due'[u] = due[u] /\ broken'[u] = broken[u]
    BY <1>1 DEF Leave, Typed
  <1>3. ASSUME NEW u \in Tabs \ {t} PROVE ChangeOnItsWay(u)'
    BY <1>1, <1>2, ChangeKept DEF Present
  <1>4. ChangeOnItsWay(t)'
    <2>1. "active" \in Panels
      BY DEF Panels
    <2>2. shown'[t]["active"] = 0 /\ Latest(t)' = 0
      BY <1>2, <2>1 DEF Latest
    <2> QED BY <1>2, <2>1, <2>2 DEF ChangeOnItsWay
  <1> QED BY <1>3, <1>4

(* The steps that leave the requests and the versions alone.               *)
LEMMA ChangePage ==
  ASSUME ChangeInv, UNCHANGED <<htmx, server>>,
         \A u \in Tabs : \A p \in Panels : Present(u, p) => Present(u, p)'
  PROVE  \A u \in Tabs : ChangeOnItsWay(u)'
  BY ChangeKept DEF ChangeInv, htmx, server

LEMMA ChangeCommand ==
  ASSUME NEW t \in Tabs, NEW b \in Buttons, ChangeInv, Command(t, b) \/ getDataFails(t, b)
  PROVE  \A u \in Tabs : ChangeOnItsWay(u)'
  <1>1. Typed /\ \A u \in Tabs : ChangeOnItsWay(u)
    BY DEF ChangeInv, TypeInv
  <1>2. /\ \A u \in Tabs \ {t} : calls'[u] = calls[u]
        /\ UNCHANGED <<dom, xhr, queued, broken, version, shown, due>>
    BY <1>1 DEF Command, getDataFails, Typed, page, htmx
  <1>3. \A c \in calls'[t] : c \in calls[t] \/ (c = b /\ Command(t, b))
    BY <1>1 DEF Command, getDataFails, Typed
  <1>4. ASSUME NEW u \in Tabs \ {t} PROVE ChangeOnItsWay(u)'
    BY <1>1, <1>2, ChangeKept DEF Present
  <1>5. ChangeOnItsWay(t)'
    <2>1. "all" \in calls'[t] => Present(t, "active") \/ Present(t, "wildcard")
      BY <1>1, <1>3 DEF ChangeOnItsWay, Command
    <2>2. \A p \in ProtocolPanels \cap calls'[t] : Present(t, p)
      <3> TAKE p \in ProtocolPanels \cap calls'[t]
      <3>1. p # "all"
        BY PanelsAssumption
      <3> QED BY <1>1, <1>3, <3>1 DEF ChangeOnItsWay, Command
    <2> QED BY <1>1, <1>2, <2>1, <2>2 DEF ChangeOnItsWay, Latest, Present
  <1> QED BY <1>4, <1>5

LEMMA ChangeFailed ==
  ASSUME NEW t \in Tabs, ChangeInv, AjaxFailed(t) PROVE \A u \in Tabs : ChangeOnItsWay(u)'
  <1>1. Typed /\ \A u \in Tabs : ChangeOnItsWay(u)
    BY DEF ChangeInv, TypeInv
  <1>2. /\ broken'[t]
        /\ UNCHANGED <<dom, calls, shown, due>>
        /\ \A u \in Tabs \ {t} : xhr'[u] = xhr[u] /\ queued'[u] = queued[u] /\ broken'[u] = broken[u]
    BY <1>1 DEF AjaxFailed, Typed, page, server
  <1>3. ASSUME NEW u \in Tabs \ {t} PROVE ChangeOnItsWay(u)'
    BY <1>1, <1>2, ChangeKept DEF Present
  <1>4. ChangeOnItsWay(t)'
    BY <1>1, <1>2 DEF ChangeOnItsWay, Present
  <1> QED BY <1>3, <1>4

LEMMA ChangeGetData ==
  ASSUME NEW t \in Tabs, NEW b \in Buttons, ChangeInv, getData(t, b)
  PROVE  \A u \in Tabs : ChangeOnItsWay(u)'
  <1>1. TypeInv /\ Typed /\ \A u \in Tabs : ChangeOnItsWay(u)
    BY DEF ChangeInv, TypeInv
  <1>2. /\ b \in calls[t]
        /\ calls' = [calls EXCEPT ![t] = @ \ {b}]
        /\ version' = version + 1
        /\ due' = [due EXCEPT ![t] = [p \in Panels |-> IF p \in Changed(b) THEN version' ELSE @[p]]]
        /\ UNCHANGED <<dom, broken, shown>>
    BY DEF getData
  <1>3. PICK ps \in Seq(Panels), thenFan \in BOOLEAN :
            /\ Reload(t, ps, FALSE, thenFan, xhr[t], queued[t], {})
            /\ b # "all" => b \in ProtocolPanels /\ ps # <<>> /\ ps[1] = b
            /\ b = "all" => ps = InPageOrder({p \in Panels : Present(t, p)})
    BY <1>1, GetDataReloads, Zenon
  <1>4. /\ version' \in Nat /\ FALSE \in BOOLEAN /\ {} \in SUBSET Panels
        /\ dom' \in [Tabs -> [Panels -> {"absent", "closed", "open"}]]
        /\ xhr[t] \in Request \cup {NoRequest} /\ queued[t] \in Panels \cup {"none"}
    BY <1>1, <1>2 DEF Typed
  <1> DEFINE nobody == {}
             chain == FALSE
  <1>5. Reloaded(t, ps, chain, xhr[t], queued[t], nobody)
    BY <1>1, <1>3, <1>4, ReloadIs, Zenon
  <1>6. /\ calls'[t] = calls[t] \ {b}
        /\ \A u \in Tabs \ {t} : calls'[u] = calls[u] /\ due'[u] = due[u]
        /\ due'[t] = [p \in Panels |-> IF p \in Changed(b) THEN version' ELSE due[t][p]]
    BY <1>1, <1>2 DEF Typed
  <1>7. ASSUME NEW u \in Tabs \ {t} PROVE ChangeOnItsWay(u)'
    <2>1. xhr'[u] = xhr[u] /\ queued'[u] = queued[u]
      BY <1>5 DEF Reloaded
    <2> QED BY <1>1, <1>2, <1>6, <2>1, ChangeKept DEF Present
  <1>8. ps # <<>> /\ Present(t, ps[1])
    <2>1. CASE b # "all"
      BY <1>1, <1>2, <1>3, <2>1 DEF ChangeOnItsWay
    <2>2. CASE b = "all"
      <3> DEFINE here == {p \in Panels : Present(t, p)}
      <3>1. here # {} /\ here \in SUBSET Panels
        BY <1>1, <1>2, <2>2 DEF ChangeOnItsWay, Panels
      <3>2. ps \in Seq(here) /\ ps # <<>>
        BY <1>3, <2>2, <3>1, InPageOrderIs
      <3>3. ps[1] \in here
        BY <3>2
      <3> QED BY <3>2, <3>3
    <2> QED BY <2>1, <2>2
  <1>9. queued'[t] # "none" \/ (xhr'[t] # NoRequest /\ xhr'[t].since = version')
    BY <1>5, <1>8 DEF Reloaded
  <1>10. Latest(t)' = version'
    <2>1. "active" \in Panels /\ "active" \in Changed(b)
      BY DEF Panels, Changed
    <2> QED BY <1>6, <2>1 DEF Latest
  <1>11. ChangeOnItsWay(t)'
    <2>1. "all" \in calls'[t] => dom'[t]["active"] # "absent" \/ dom'[t]["wildcard"] # "absent"
      BY <1>1, <1>2, <1>6 DEF ChangeOnItsWay, Present
    <2>2. \A p \in ProtocolPanels \cap calls'[t] : dom'[t][p] # "absent"
      BY <1>1, <1>2, <1>6 DEF ChangeOnItsWay, Present
    <2>3. version' >= version'
      BY <1>4
    <2> QED BY <1>9, <1>10, <2>1, <2>2, <2>3 DEF ChangeOnItsWay, Present
  <1> QED BY <1>7, <1>11

LEMMA ChangeAnswer ==
  ASSUME NEW t \in Tabs, ChangeInv, AjaxAnswer(t) \/ AjaxRefused(t)
  PROVE  \A u \in Tabs : ChangeOnItsWay(u)'
  <1> DEFINE reopen == IF xhr[t].open THEN {xhr[t].panel} ELSE {}
             panel == xhr[t].panel
  <1>1. TypeInv /\ Typed /\ Links(t) /\ \A u \in Tabs : ChangeOnItsWay(u)
    BY DEF ChangeInv, TypeInv
  <1>2. /\ xhr[t] # NoRequest
        /\ Reload(t, xhr[t].next, xhr[t].fan, FALSE, FromQueue(t), "none", reopen)
        /\ UNCHANGED <<version, calls, due>>
        /\ dom' = dom
    BY DEF AjaxAnswer, AjaxRefused, Resolve, server
  <1>3. xhr[t] \in Request
    BY <1>1, <1>2 DEF Typed
  <1>4. panel \in Panels /\ xhr[t].next \in Seq(Panels) /\ xhr[t].fan \in BOOLEAN
        /\ xhr[t].open \in BOOLEAN /\ xhr[t].since \in Nat /\ dom[t][panel] # "absent"
        /\ xhr[t].since <= version
    BY <1>1, <1>2, <1>3, RequestIsOne DEF Links, Present
  <1>5. reopen \in SUBSET Panels
    BY <1>4
  <1>a. \/ broken' = [broken EXCEPT ![t] = TRUE] /\ shown' = shown
        \/ /\ broken' = broken
           /\ \E v \in xhr[t].since..version : shown' = [shown EXCEPT ![t][panel] = v]
    BY DEF AjaxAnswer, AjaxRefused, server
  <1> HIDE DEF panel, reopen
  <1>6. /\ dom \in [Tabs -> [Panels -> {"absent", "closed", "open"}]] /\ version \in Nat
        /\ broken \in [Tabs -> BOOLEAN] /\ shown \in [Tabs -> [Panels -> 0..version]]
    BY <1>1 DEF Typed
  <1>7. /\ dom' \in [Tabs -> [Panels -> {"absent", "closed", "open"}]]
        /\ \A u \in Tabs : \A p \in Panels : dom[u][p] # "absent" => dom'[u][p] # "absent"
    BY <1>2, <1>6
  <1>8. /\ FromQueue(t) \in Request \cup {NoRequest}
        /\ FALSE \in BOOLEAN /\ "none" \in Panels \cup {"none"} /\ version' \in Nat
    BY <1>1, <1>2, <1>6, LockIs
  <1>9. Reloaded(t, xhr[t].next, xhr[t].fan, FromQueue(t), "none", reopen)
    BY <1>1, <1>2, <1>4, <1>5, <1>7, <1>8, ReloadIs, Zenon
  <1>10. ASSUME NEW u \in Tabs \ {t} PROVE ChangeOnItsWay(u)'
    <2>1. xhr'[u] = xhr[u] /\ queued'[u] = queued[u]
      BY <1>9 DEF Reloaded
    <2>2. shown'[u] = shown[u] /\ broken'[u] = broken[u]
      BY <1>6, <1>a
    <2> QED BY <1>1, <1>2, <1>7, <2>1, <2>2, ChangeKept DEF Present
  <1>11. ChangeOnItsWay(t)'
    <2>0. Latest(t) \in Nat /\ Latest(t) <= version /\ Latest(t)' = Latest(t)
      BY <1>1, <1>2, LatestIs DEF Latest
    <2>1. "all" \in calls'[t] => dom'[t]["active"] # "absent" \/ dom'[t]["wildcard"] # "absent"
      BY <1>1, <1>2, <1>7 DEF ChangeOnItsWay, Present, Panels
    <2>2. \A p \in ProtocolPanels \cap calls'[t] : dom'[t][p] # "absent"
      BY <1>1, <1>2, <1>7 DEF ChangeOnItsWay, Present, Panels
    <2>3. \/ broken'[t]
          \/ queued'[t] # "none"
          \/ xhr'[t] # NoRequest /\ xhr'[t].since >= Latest(t)
          \/ xhr'[t] = NoRequest /\ \E p \in Panels : shown'[t][p] >= Latest(t)
      <3>1. CASE xhr'[t] # FromQueue(t)
        <4>1. xhr'[t] \in Request /\ xhr'[t].since = version
          BY <1>2, <1>9, <3>1 DEF Reloaded
        <4> QED BY <1>6, <2>0, <4>1, RequestIsOne
      <3>2. CASE xhr'[t] = FromQueue(t) /\ queued[t] # "none"
        <4>1. xhr'[t] \in Request /\ xhr'[t].since = version
          BY <1>1, <3>2, FromQueueIs
        <4> QED BY <1>6, <2>0, <4>1, RequestIsOne
      <3>3. CASE xhr'[t] = FromQueue(t) /\ queued[t] = "none"
        <4>1. xhr'[t] = NoRequest
          BY <1>1, <3>3, FromQueueIs
        <4>2. broken[t] \/ xhr[t].since >= Latest(t)
          BY <1>1, <1>2, <3>3 DEF ChangeOnItsWay
        <4>3. CASE broken' = [broken EXCEPT ![t] = TRUE]
          BY <1>6, <4>3
        <4>4. CASE broken' = broken /\ broken[t]
          BY <4>4
        <4>5. CASE /\ \E v \in xhr[t].since..version : shown' = [shown EXCEPT ![t][panel] = v]
                   /\ xhr[t].since >= Latest(t)
          <5>1. PICK v \in xhr[t].since..version : shown' = [shown EXCEPT ![t][panel] = v]
            BY <4>5
          <5>2. shown'[t][panel] = v
            BY <1>4, <1>6, <5>1
          <5>3. v >= Latest(t)
            BY <1>4, <1>6, <2>0, <4>5, <5>1
          <5> QED BY <1>4, <4>1, <5>2, <5>3
        <4> QED BY <1>a, <4>2, <4>3, <4>4, <4>5
      <3> QED BY <3>1, <3>2, <3>3
    <2> QED BY <2>0, <2>1, <2>2, <2>3 DEF ChangeOnItsWay, Present
  <1> QED BY <1>10, <1>11

LEMMA ChangeNext == ChangeInv /\ [Next]_vars => ChangeInv'
  <1> SUFFICES ASSUME ChangeInv, [Next]_vars PROVE ChangeInv'
    OBVIOUS
  <1>1. TypeInv /\ Typed /\ \A u \in Tabs : Links(u)
    BY DEF ChangeInv, TypeInv
  <1>2. TypeInv'
    BY <1>1, TypeNext
  <1>3. SUFFICES \A u \in Tabs : ChangeOnItsWay(u)'
    BY <1>2 DEF ChangeInv
  <1>4. ASSUME UNCHANGED <<htmx, server, dom>> PROVE \A u \in Tabs : ChangeOnItsWay(u)'
    BY <1>4, ChangePage DEF Present
  <1>5. ASSUME NEW t \in Tabs, Visit(t) \/ getAccordionStatus(t) \/ setAccordionStatus(t)
        PROVE  \A u \in Tabs : ChangeOnItsWay(u)'
    BY <1>4, <1>5 DEF Visit, getAccordionStatus, setAccordionStatus, page
  <1>6. ASSUME NEW t \in Tabs, NEW named \in Panels \cup {"none"}, loadPanels(t, named)
        PROVE  \A u \in Tabs : ChangeOnItsWay(u)'
    <2> DEFINE here == {p \in Panels : Present(t, p)}
               shut == IF named \in here THEN {} ELSE {p \in here : store[p] = "closed"}
    <2>1. closeAccordions(t, shut) /\ UNCHANGED <<htmx, server>>
      BY <1>6 DEF loadPanels
    <2>2. shut \in SUBSET Panels
      OBVIOUS
    <2> HIDE DEF shut
    <2>3. /\ \A p \in Panels : dom'[t][p] = IF p \in shut /\ Present(t, p) THEN "closed" ELSE dom[t][p]
          /\ \A u \in Tabs \ {t} : dom'[u] = dom[u]
      BY <1>1, <2>1, <2>2, CloseIs
    <2>4. \A u \in Tabs : \A p \in Panels : Present(u, p) => Present(u, p)'
      BY <2>3 DEF Present
    <2> QED BY <2>1, <2>4, ChangePage
  <1>7. ASSUME NEW t \in Tabs, NEW p \in Panels,
               toggleAccordion(t, p) \/ openAccordion(t, p) \/ Settle(t, p)
        PROVE  \A u \in Tabs : ChangeOnItsWay(u)'
    <2>1. /\ UNCHANGED <<htmx, server>>
          /\ dom' = dom \/ \E shows \in {"open", "closed"} : dom' = [dom EXCEPT ![t][p] = shows]
      BY <1>7 DEF toggleAccordion, openAccordion, Settle
    <2>2. \A u \in Tabs : \A r \in Panels : Present(u, r) => Present(u, r)'
      <3>1. CASE dom' = dom
        BY <3>1 DEF Present
      <3>2. ASSUME NEW shows \in {"open", "closed"}, dom' = [dom EXCEPT ![t][p] = shows]
            PROVE  \A u \in Tabs : \A r \in Panels : Present(u, r) => Present(u, r)'
        BY <1>1, <3>2 DEF Typed, Present
      <3> QED BY <2>1, <3>1, <3>2
    <2> QED BY <2>1, <2>2, ChangePage
  <1>8. CASE cleanAccordionStatus
    BY <1>4, <1>8 DEF cleanAccordionStatus, page
  <1>9. CASE UNCHANGED vars
    BY <1>4, <1>9 DEF vars, page
  <1> QED BY <1>5, <1>6, <1>7, <1>8, <1>9, ChangeArrive, ChangeLeave, ChangeCommand, ChangeFailed,
             ChangeGetData, ChangeAnswer DEF Next

(***************************************************************************)
(* In any tab, what the last callback of a button was about is shown by    *)
(* some panel, or will be by the request in flight or in the queue, unless *)
(* a reload was refused or failed.                                         *)
(***************************************************************************)
THEOREM ChangeComes == Spec => []ChangeIsComing
  <1>1. ChangeInv => ChangeIsComing
    BY DEF ChangeInv, ChangeOnItsWay, ChangeIsComing
  <1> QED BY ChangeInit, ChangeNext, <1>1, PTL DEF Spec
=============================================================================
