--------------------------- MODULE UiUploadProofs ---------------------------
(***************************************************************************)
(* What is sent is the file the box names, for any files, any depth of the *)
(* page and any number of choices and uploads.                             *)
(***************************************************************************)
EXTENDS UiUpload, TLAPS

(* NamedFileSent looks at the click; what makes it true is that the event  *)
(* is kept only where the page has a box, and that as long as it is kept   *)
(* the box names the file the input holds.                                 *)
BoxNamesSelected ==
    currentFileData => box = selected /\ find_child_within_tree(BoxLevel) = "found"

IInv == TypeOK /\ BoxNamesSelected /\ NamedFileSent

LEMMA InitInv == Init => IInv
  <1> SUFFICES ASSUME Init PROVE IInv
    OBVIOUS
  <1>1. 0 \in 0..MaxChoices
    BY UploadAssumption
  <1>2. TypeOK
    BY <1>1 DEF Init, TypeOK
  <1>3. BoxNamesSelected /\ NamedFileSent
    BY DEF Init, BoxNamesSelected, NamedFileSent
  <1> QED BY <1>2, <1>3 DEF IInv

(* A choice: either the box follows the input, or no event is kept.        *)
LEMMA ChoiceInv == ASSUME NEW f \in Files \cup {NoFile}, IInv, handle_file_select(f) PROVE IInv'
  <1>1. TypeOK'
    <2>1. choices' \in 0..MaxChoices
      BY UploadAssumption DEF IInv, TypeOK, handle_file_select
    <2>2. currentFileData' \in BOOLEAN
      BY Zenon DEF IInv, TypeOK, handle_file_select
    <2>3. {selected, box}' \subseteq Files \cup {NoFile}
      BY DEF IInv, TypeOK, handle_file_select
    <2> QED BY <2>1, <2>2, <2>3 DEF IInv, TypeOK, handle_file_select
  <1>2. BoxNamesSelected'
    <2>1. CASE find_child_within_tree(BoxLevel) = "found"
      BY <2>1 DEF handle_file_select, BoxNamesSelected, find_child_within_tree
    <2>2. CASE find_child_within_tree(BoxLevel) # "found"
      BY <2>2 DEF IInv, handle_file_select, BoxNamesSelected
    <2> QED BY <2>1, <2>2
  <1>3. NamedFileSent'
    BY DEF IInv, NamedFileSent, handle_file_select
  <1> QED BY <1>1, <1>2, <1>3 DEF IInv

LEMMA CleanInv == IInv /\ async_file_clean => IInv'
  BY DEF IInv, TypeOK, BoxNamesSelected, NamedFileSent, async_file_clean

(* An upload that begins to read has the event, so the box names its file. *)
LEMMA ClickInv == ASSUME NEW u \in Uploads, IInv, UploadClick(u) PROVE IInv'
  <1>1. TypeOK'
    BY DEF IInv, TypeOK, UploadClick, async_file_send
  <1>2. BoxNamesSelected'
    BY DEF IInv, BoxNamesSelected, UploadClick
  <1>3. NamedFileSent'
    BY DEF IInv, TypeOK, NamedFileSent, BoxNamesSelected, UploadClick, async_file_send
  <1> QED BY <1>1, <1>2, <1>3 DEF IInv

(* The reader and the server only move an upload on.                       *)
LEMMA StepInv ==
  ASSUME NEW u \in Uploads, IInv, send_file(u) \/ ReaderFails(u) \/ Stored(u) \/ Refused(u)
  PROVE  IInv'
  <1>1. TypeOK'
    BY DEF IInv, TypeOK, Step, send_file, ReaderFails, Stored, Refused
  <1>2. BoxNamesSelected'
    BY DEF IInv, BoxNamesSelected, Step, send_file, ReaderFails, Stored, Refused
  <1>3. NamedFileSent'
    BY DEF IInv, TypeOK, NamedFileSent, Step, send_file, ReaderFails, Stored, Refused
  <1> QED BY <1>1, <1>2, <1>3 DEF IInv

LEMMA Inductive == IInv /\ [Next]_vars => IInv'
  <1> SUFFICES ASSUME IInv, [Next]_vars PROVE IInv'
    OBVIOUS
  <1>1. ASSUME NEW f \in Files \cup {NoFile}, handle_file_select(f) PROVE IInv'
    BY <1>1, ChoiceInv
  <1>2. CASE async_file_clean
    BY <1>2, CleanInv
  <1>3. ASSUME NEW u \in Uploads, UploadClick(u) PROVE IInv'
    BY <1>3, ClickInv
  <1>4. ASSUME NEW u \in Uploads, send_file(u) \/ ReaderFails(u) \/ Stored(u) \/ Refused(u)
        PROVE  IInv'
    BY <1>4, StepInv
  <1>5. CASE UNCHANGED vars
    BY <1>5 DEF IInv, TypeOK, BoxNamesSelected, NamedFileSent, vars
  <1> QED BY <1>1, <1>2, <1>3, <1>4, <1>5 DEF Next

LEMMA InvHolds == Spec => []IInv
  BY InitInv, Inductive, PTL DEF Spec

(* The types of the upload form, and: every upload that began to read has  *)
(* a file.                                                                 *)
THEOREM UploadTypes == Spec => []TypeOK
  <1>1. IInv => TypeOK
    BY DEF IInv
  <1> QED BY <1>1, InvHolds, PTL

(* async_file_send sends the file the box named at the click, however the  *)
(* user chose, cleaned and chose again, and however uploads overtake one   *)
(* another; with an empty box nothing is sent.                             *)
THEOREM UploadCorrect == Spec => []NamedFileSent
  <1>1. IInv => NamedFileSent
    BY DEF IInv
  <1> QED BY <1>1, InvHolds, PTL
=============================================================================
