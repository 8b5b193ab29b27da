------------------------------ MODULE UiUpload ------------------------------
(***************************************************************************)
(* Upload of a scenario on the storage page (web/lib/utils.js, "upload     *)
(* download", with the form of storage.jte).                               *)
(*                                                                         *)
(* The form has a file input, a text box that names the chosen file, and   *)
(* the buttons Upload and Clean.  Choosing a file in the dialog fires a    *)
(* change event, but only if the choice differs from the one the input     *)
(* holds.  Upload reads the file the input holds at that moment; a reader  *)
(* gives the content to send_file later, which posts it, and the server    *)
(* answers later still: uploads may overtake one another at both stages.   *)
(*                                                                         *)
(* The elements named after the input ("...File" for the box, "...Output"  *)
(* and "...Code" for the answer) are looked for from the input upwards.    *)
(***************************************************************************)
EXTENDS Integers, FiniteSets

CONSTANTS
    Files,          \* files on the user's disk
    Ancestors,      \* nodes above the input, the document included
    BoxLevel,       \* how far above the input the box is found (0: nowhere)
    OutputLevel,    \* the same for the element that shows the answer
    MaxChoices,     \* bound: choices made in the dialog
    MaxUploads      \* bound: clicks on Upload

NoFile == "no file"

ASSUME UploadAssumption ==
    /\ NoFile \notin Files
    /\ Ancestors \in Nat \ {0}
    /\ {BoxLevel, OutputLevel} \subseteq 0..Ancestors
    /\ {MaxChoices, MaxUploads} \subseteq Nat

Uploads == 1..MaxUploads

VARIABLES
    selected,        \* the file the input holds
    box,             \* the file the box names
    currentFileData, \* the change event kept, whose target is the input
    upload,          \* upload |-> how far it is
    file,            \* upload |-> the file it reads and sends
    wanted,          \* history: upload |-> what the box named at the click
    choices          \* choices made

vars == <<selected, box, currentFileData, upload, file, wanted, choices>>

Init ==
    /\ selected = NoFile
    /\ box = NoFile
    /\ currentFileData = FALSE
    /\ upload = [u \in Uploads |-> "none"]
    /\ file = [u \in Uploads |-> NoFile]
    /\ wanted = [u \in Uploads |-> NoFile]
    /\ choices = 0

-----------------------------------------------------------------------------
(* Mutant: the search goes on to the top of the tree.                      *)
ClimbsToTheTop(level) == IF level = 0 THEN "throws" ELSE "found"

(* find_child_within_tree: the ten nodes above the item are searched.  The *)
(* search throws when the tree ends before that.                           *)
find_child_within_tree(level) ==
    CASE level \in 1..10 -> "found"
      [] level \notin 1..10 /\ Ancestors >= 10 -> "null"
      [] OTHER -> "throws"

(* The next upload, if the bound allows one.                               *)
Unused == {u \in Uploads : upload[u] = "none" /\ \A v \in Uploads : v < u => upload[v] # "none"}

(* Mutant: whether the input holds a file is not looked at.                *)
SendsNoFile(u) ==
    /\ wanted' = [wanted EXCEPT ![u] = box]
    /\ upload' = [upload EXCEPT ![u] = IF currentFileData THEN "reading" ELSE "thrown"]
    /\ file' = [file EXCEPT ![u] = selected]

(* async_file_send: the event is needed, the elements for the answer are   *)
(* looked for, and the first file of the input is read; each throws if it  *)
(* cannot be done.                                                         *)
async_file_send(u) ==
    /\ wanted' = [wanted EXCEPT ![u] = box]
    /\ IF /\ currentFileData
          /\ find_child_within_tree(OutputLevel) # "throws"
          /\ selected # NoFile
       THEN /\ upload' = [upload EXCEPT ![u] = "reading"]
            /\ file' = [file EXCEPT ![u] = selected]
       ELSE /\ upload' = [upload EXCEPT ![u] = "thrown"]
            /\ UNCHANGED file

UploadClick(u) ==
    /\ u \in Unused
    /\ async_file_send(u)
    /\ UNCHANGED <<selected, box, currentFileData, choices>>

(* handle_file_select, on a choice (an empty one: the dialog was           *)
(* cancelled).  Where the page has no box async_file_send is called        *)
(* without an event, and throws.                                           *)
handle_file_select(f) ==
    /\ choices < MaxChoices
    /\ f # selected
    /\ choices' = choices + 1
    /\ selected' = f
    /\ IF find_child_within_tree(BoxLevel) = "found"
       THEN box' = f /\ currentFileData' = TRUE
       ELSE UNCHANGED <<box, currentFileData>>
    /\ UNCHANGED <<upload, file, wanted>>

(* Mutant: the box is emptied, the event is kept.                          *)
CleansBoxOnly ==
    /\ box' = NoFile
    /\ UNCHANGED <<selected, currentFileData, upload, file, wanted, choices>>

(* async_file_clean: the input keeps its file.                             *)
async_file_clean ==
    /\ box' = NoFile
    /\ currentFileData' = FALSE
    /\ UNCHANGED <<selected, upload, file, wanted, choices>>

-----------------------------------------------------------------------------
Step(u, from, to) ==
    /\ upload[u] = from
    /\ upload' = [upload EXCEPT ![u] = to]
    /\ UNCHANGED <<selected, box, currentFileData, file, wanted, choices>>

(* The reader: display_file posts what was read with send_file; a file     *)
(* that cannot be read any more ends the upload without a word.            *)
send_file(u)    == Step(u, "reading", "posted")
ReaderFails(u)  == Step(u, "reading", "unreadable")

(* The answer.  Where it is not 200, the notification is built from the    *)
(* name verb, which send_file does not have: the exception ends the task.  *)
Stored(u)       == Step(u, "posted", "stored")
Refused(u)      == Step(u, "posted", "refused")

Next ==
    \/ \E f \in Files \cup {NoFile} : handle_file_select(f)
    \/ async_file_clean
    \/ \E u \in Uploads :
        UploadClick(u) \/ send_file(u) \/ ReaderFails(u) \/ Stored(u) \/ Refused(u)

Spec == Init /\ [][Next]_vars

(* Readers end, and the server or the network answers.                     *)
FairSpec ==
    /\ Spec
    /\ \A u \in Uploads : /\ WF_vars(send_file(u) \/ ReaderFails(u))
                          /\ WF_vars(Stored(u) \/ Refused(u))

-----------------------------------------------------------------------------
(* The types, and: every upload that began to read has a file.             *)
TypeOK ==
    /\ {selected, box} \subseteq Files \cup {NoFile}
    /\ currentFileData \in BOOLEAN
    /\ upload \in [Uploads -> {"none", "thrown", "reading", "unreadable", "posted", "stored", "refused"}]
    /\ file \in [Uploads -> Files \cup {NoFile}]
    /\ wanted \in [Uploads -> Files \cup {NoFile}]
    /\ choices \in 0..MaxChoices
    /\ \A u \in Uploads : upload[u] \notin {"none", "thrown"} => file[u] # NoFile

(***************************************************************************)
(* What is sent is the file the box named when Upload was clicked, however *)
(* the user chose, cleaned and chose again before and after; with an empty *)
(* box nothing is sent.                                                    *)
(***************************************************************************)
NamedFileSent ==
    \A u \in Uploads : upload[u] \in {"reading", "posted", "stored", "refused"} =>
        file[u] = wanted[u]

(***************************************************************************)
(* A click on Upload while the box names a file reaches the server, unless *)
(* the file can no longer be read: nothing on the way throws, whatever was *)
(* cleaned or chosen before.                                               *)
(***************************************************************************)
NamedFileArrives ==
    \A u \in Uploads : wanted[u] # NoFile ~> upload[u] \in {"stored", "refused", "unreadable"}
=============================================================================
