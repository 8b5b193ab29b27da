----------------------------- MODULE Recording -----------------------------
(***************************************************************************)
(* Recording calls: the record plugin of each protocol instance            *)
(* (BasicRecordPlugin), the storage they share (FileStorageRepository) and *)
(* the way the process stops (NettyServer.stop, Main, ApiHandler).         *)
(*                                                                         *)
(* The threads that serve clients take an id before a call and send what   *)
(* they saw after it; an administrator turns recording on and off; the     *)
(* worker of the event queue starts and finalizes recordings and hands     *)
(* lines to a single-threaded executor, which writes one file per item.    *)
(* The index of a recording is written when it is finalized.               *)
(*                                                                         *)
(* The event queue is a sequence whose head is the event in hand: what     *)
(* EventsQueue says of order and of isEmpty() is used here.                *)
(***************************************************************************)
EXTENDS Integers, Sequences, FiniteSets, FiniteSetsExt

CONSTANTS
    Instances,      \* protocol instances
    Callers,        \* threads that serve clients
    Quits,          \* the ways to quit explored: "api", "console", "main"
    Hasty,          \* TRUE: recording is turned on again at any time
    MaxCalls,       \* bound: calls made while a plugin records
    MaxSwitches,    \* bound: times recording is turned on or off
    MaxStarts,      \* bound: starts of the process, the first included
    MaxCrashes      \* bound: times the process is killed

ASSUME ConstantsAssumption ==
    /\ Quits \subseteq {"api", "console", "main"}
    /\ Hasty \in BOOLEAN
    /\ MaxCalls \in Nat /\ MaxSwitches \in Nat /\ MaxStarts \in Nat /\ MaxCrashes \in Nat

VARIABLES
    index,          \* disk: instance |-> the lines of its index file ({}: no file)
    files,          \* disk: instance |-> (id |-> the call its item file describes)
    storageCounter,
    recording,      \* the instances in protocolRepo
    lines,          \* instance |-> ProtocolRepo.index
    somethingWritten,
    active,         \* instance |-> ProtocolPluginDescriptorBase.active
    settingsActive, \* instance |-> getSettings().isActive()
    adminPc,        \* instance |-> where its setActive is
    caller,         \* caller |-> where it is, and its PluginContext
    events,         \* the event queue
    workerPc,       \* where the worker is with the event in hand
    maxIndex,       \* local variable of initializeContentForWrite
    pending,        \* lines handed to the executor; the head is the one in hand
    execPc,         \* where the executor is with the line in hand
    quitBy,         \* how the process is told to quit
    quitPc,         \* where the thread that stops the servers is
    toStop,         \* the servers it still has to stop
    up,             \* the process runs
    issued,         \* the ids generateIndex returned since the start
    inTime,         \* instance |-> the lines sent before FinalizeWrite (Terminate) was
    torn,           \* lines written to an index file before their item file was
    calls, switches, starts, crashes,       \* counted for the bounds
    timedOut,       \* one of the waits of at most a second was not long enough
    failed          \* a call failed in the record plugin

disk    == <<index, files, torn>>
repos   == <<recording, lines, somethingWritten>>
plugins == <<active, settingsActive, adminPc>>
worker  == <<events, workerPc, maxIndex>>
executor == <<pending, execPc>>
quitter == <<quitBy, quitPc, toStop>>
bounds  == <<switches, starts, crashes>>
vars    == <<disk, storageCounter, repos, plugins, caller, worker, executor, quitter,
             up, issued, inTime, calls, bounds, timedOut, failed>>

(* A line: the id and the call it describes; a trivial call has no item.   *)
Line(n, id, stored) == [n |-> n, id |-> id, stored |-> stored]
NoLine == Line(0, 0, FALSE)

Event(type, p, line) == [type |-> type, of |-> p, line |-> line]
Start(p)    == Event("StartWrite", p, NoLine)
Finalize(p) == Event("FinalizeWrite", p, NoLine)
Terminate   == Event("Terminate", "all", NoLine)

Idle == [pc |-> "idle", of |-> "none", n |-> 0, id |-> 0]

isActive(p) == active[p] /\ settingsActive[p]
isEmpty     == events = <<>>

(* Some instances have been recorded before: one item, with the id 1.      *)
Init ==
    /\ storageCounter = 0
    /\ recording = {}
    /\ lines = [p \in Instances |-> {}]
    /\ somethingWritten = {}
    /\ active = [p \in Instances |-> FALSE]
    /\ settingsActive = [p \in Instances |-> FALSE]
    /\ adminPc = [p \in Instances |-> "idle"]
    /\ caller = [c \in Callers |-> Idle]
    /\ events = <<>> /\ workerPc = "idle" /\ maxIndex = 0
    /\ pending = <<>> /\ execPc = "idle" /\ torn = {}
    /\ quitBy = "none" /\ quitPc = "none" /\ toStop = Instances
    /\ issued = <<>> /\ inTime = [p \in Instances |-> {}]
    /\ up = TRUE
    /\ \E old \in SUBSET Instances :
        /\ index = [p \in Instances |-> IF p \in old THEN {Line(0, 1, TRUE)} ELSE {}]
        /\ files = [p \in Instances |-> IF p \in old THEN [id \in {1} |-> 0] ELSE << >>]
    /\ calls = 0 /\ switches = 0 /\ starts = 1 /\ crashes = 0
    /\ timedOut = FALSE /\ failed = FALSE

-----------------------------------------------------------------------------
(***************************************************************************)
(* setActive(true): handleActivation sets the settings, sends StartWrite   *)
(* and waits until the storage has the indexes; then the plugin is active. *)
(* An administrator who is not hasty turns recording on only when the      *)
(* queue has nothing left of an earlier session of that instance.          *)
(***************************************************************************)
Activate(p) ==
    /\ up /\ quitBy = "none" /\ switches < MaxSwitches
    /\ adminPc[p] = "idle"
    /\ ~isActive(p)
    /\ Hasty \/ \A i \in DOMAIN events : events[i].of # p
    /\ settingsActive' = [settingsActive EXCEPT ![p] = TRUE]
    /\ events' = Append(events, Start(p))
    /\ adminPc' = [adminPc EXCEPT ![p] = "waiting"]
    /\ switches' = switches + 1
    /\ UNCHANGED <<disk, storageCounter, repos, active, caller, workerPc, maxIndex, executor,
                   quitter, up, issued, inTime, calls, starts, crashes, timedOut, failed>>

(* Mutant: the plugin does not wait for the storage.                       *)
ActivatedAtOnce(p) ==
    /\ up /\ adminPc[p] = "waiting"
    /\ active' = [active EXCEPT ![p] = TRUE]
    /\ adminPc' = [adminPc EXCEPT ![p] = "idle"]
    /\ UNCHANGED <<disk, storageCounter, repos, settingsActive, caller, worker, executor,
                   quitter, up, issued, inTime, calls, bounds, timedOut, failed>>

Activated(p) ==
    /\ up /\ adminPc[p] = "waiting"
    /\ p \in recording                              \* getIndexes(p) != null
    /\ active' = [active EXCEPT ![p] = TRUE]
    /\ adminPc' = [adminPc EXCEPT ![p] = "idle"]
    /\ UNCHANGED <<disk, storageCounter, repos, settingsActive, caller, worker, executor,
                   quitter, up, issued, inTime, calls, bounds, timedOut, failed>>

(* "Sleeper sleep timed out": setActive throws.                            *)
ActivationTimesOut(p) ==
    /\ up /\ adminPc[p] = "waiting"
    /\ p \notin recording
    /\ adminPc' = [adminPc EXCEPT ![p] = "idle"]
    /\ timedOut' = TRUE
    /\ UNCHANGED <<disk, storageCounter, repos, active, settingsActive, caller, worker, executor,
                   quitter, up, issued, inTime, calls, bounds, failed>>

(* Mutant: terminate() is not called.                                      *)
NeverFinalized(p) ==
    /\ up /\ quitBy = "none" /\ switches < MaxSwitches
    /\ adminPc[p] = "idle"
    /\ isActive(p)
    /\ settingsActive' = [settingsActive EXCEPT ![p] = FALSE]
    /\ active' = [active EXCEPT ![p] = FALSE]
    /\ switches' = switches + 1
    /\ UNCHANGED <<disk, storageCounter, repos, adminPc, caller, worker, executor,
                   quitter, up, issued, inTime, calls, starts, crashes, timedOut, failed>>

(* setActive(false): the settings are cleared, terminate() sends           *)
(* FinalizeWrite.                                                          *)
Deactivate(p) ==
    /\ up /\ quitBy = "none" /\ switches < MaxSwitches
    /\ adminPc[p] = "idle"
    /\ isActive(p)
    /\ settingsActive' = [settingsActive EXCEPT ![p] = FALSE]
    /\ active' = [active EXCEPT ![p] = FALSE]
    /\ events' = Append(events, Finalize(p))
    /\ switches' = switches + 1
    /\ UNCHANGED <<disk, storageCounter, repos, adminPc, caller, workerPc, maxIndex, executor,
                   quitter, up, issued, inTime, calls, starts, crashes, timedOut, failed>>

-----------------------------------------------------------------------------
(* generateIndex: storageCounter.incrementAndGet().                        *)
generateIndex ==
    /\ storageCounter' = storageCounter + 1
    /\ issued' = Append(issued, storageCounter + 1)
    /\ calls' = calls + 1

(* PRE_CALL: a call takes an id, if the plugin is active.                  *)
PreCall(c, p) ==
    /\ up /\ p \in toStop
    /\ caller[c].pc = "idle"
    /\ calls < MaxCalls
    /\ IF isActive(p)
       THEN /\ generateIndex
            /\ caller' = [caller EXCEPT ![c] =
                            [pc |-> "calling", of |-> p, n |-> calls + 1, id |-> storageCounter + 1]]
       ELSE /\ caller' = [caller EXCEPT ![c] = [pc |-> "calling", of |-> p, n |-> 0, id |-> 0]]
            /\ UNCHANGED <<storageCounter, issued, calls>>
    /\ UNCHANGED <<disk, repos, plugins, worker, executor, quitter, up, inTime, bounds, timedOut, failed>>

(* POST_CALL: the answer came.  Without an id the plugin, if active now,   *)
(* throws on (long) getTags().get("id").                                   *)
PostCall(c) ==
    /\ up
    /\ caller[c].pc = "calling"
    /\ LET records == isActive(caller[c].of)
       IN  /\ caller' = [caller EXCEPT ![c] = IF records /\ @.id # 0 THEN [@ EXCEPT !.pc = "saving"]
                                              ELSE Idle]
           /\ failed' = (failed \/ (records /\ caller[c].id = 0))
    /\ UNCHANGED <<disk, storageCounter, repos, plugins, worker, executor, quitter,
                   up, issued, inTime, calls, bounds, timedOut>>

(* ASYNC_RESPONSE: an answer nobody waits for gets an id and is saved.     *)
AsyncResponse(c, p) ==
    /\ up /\ p \in toStop
    /\ caller[c].pc = "idle"
    /\ calls < MaxCalls
    /\ isActive(p)
    /\ generateIndex
    /\ caller' = [caller EXCEPT ![c] =
                    [pc |-> "saving", of |-> p, n |-> calls + 1, id |-> storageCounter + 1]]
    /\ UNCHANGED <<disk, repos, plugins, worker, executor, quitter, up, inTime, bounds, timedOut, failed>>

(* postCall and asyncCall end by sending WriteItem; a trivial call that is *)
(* ignored has no item.                                                    *)
SendLine(c) ==
    /\ up
    /\ caller[c].pc = "saving"
    /\ \E stored \in BOOLEAN :
        LET p == caller[c].of
            line == Line(caller[c].n, caller[c].id, stored)
        IN  /\ events' = Append(events, Event("WriteItem", p, line))
            /\ inTime' = IF isActive(p) /\ p \in toStop /\ quitBy # "console"
                         THEN [inTime EXCEPT ![p] = @ \cup {line}] ELSE inTime
    /\ caller' = [caller EXCEPT ![c] = Idle]
    /\ UNCHANGED <<disk, storageCounter, repos, plugins, workerPc, maxIndex, executor, quitter,
                   up, issued, calls, bounds, timedOut, failed>>

-----------------------------------------------------------------------------
InHand(type) == up /\ events # <<>> /\ Head(events).type = type

(* Mutant: the ids of an earlier recording are forgotten.                  *)
CounterKept ==
    /\ InHand("StartWrite") /\ workerPc = "idle"
    /\ LET p == Head(events).of
       IN  /\ recording' = recording \cup {p}
           /\ lines' = [lines EXCEPT ![p] = IF p \in recording THEN @ ELSE index[p]]
           /\ somethingWritten' = IF p \in recording THEN somethingWritten ELSE somethingWritten \ {p}
    /\ events' = Tail(events)
    /\ UNCHANGED <<workerPc, maxIndex>>
    /\ UNCHANGED <<disk, storageCounter, plugins, caller, executor, quitter,
                   up, issued, inTime, calls, bounds, timedOut, failed>>

(***************************************************************************)
(* initializeContentForWrite: a new repo starts with the lines of the      *)
(* index file.  When there are any, the counter is read and compared with  *)
(* them here, and set in SetCounter.                                       *)
(***************************************************************************)
StartRecording ==
    /\ InHand("StartWrite") /\ workerPc = "idle"
    /\ LET p == Head(events).of
       IN  IF p \in recording \/ index[p] = {}
           THEN /\ recording' = recording \cup {p}
                /\ lines' = [lines EXCEPT ![p] = IF p \in recording THEN @ ELSE {}]
                /\ somethingWritten' = IF p \in recording THEN somethingWritten
                                       ELSE somethingWritten \ {p}
                /\ events' = Tail(events)
                /\ UNCHANGED <<workerPc, maxIndex>>
           ELSE /\ maxIndex' = Max({storageCounter, Max({l.id : l \in index[p]}) + 1})
                /\ workerPc' = "starting"
                /\ UNCHANGED <<repos, events>>
    /\ UNCHANGED <<disk, storageCounter, plugins, caller, executor, quitter,
                   up, issued, inTime, calls, bounds, timedOut, failed>>

SetCounter ==
    /\ InHand("StartWrite") /\ workerPc = "starting"
    /\ LET p == Head(events).of
       IN  /\ recording' = recording \cup {p}
           /\ lines' = [lines EXCEPT ![p] = index[p]]
           /\ somethingWritten' = somethingWritten \ {p}
    /\ storageCounter' = maxIndex
    /\ events' = Tail(events)
    /\ workerPc' = "idle"
    /\ UNCHANGED <<disk, maxIndex, plugins, caller, executor, quitter,
                   up, issued, inTime, calls, bounds, timedOut, failed>>

(* recordInteraction                                                       *)
RecordInteraction ==
    /\ InHand("WriteItem")
    /\ pending' = Append(pending, Head(events))
    /\ events' = Tail(events)
    /\ UNCHANGED <<disk, storageCounter, repos, plugins, caller, workerPc, maxIndex, execPc, quitter,
                   up, issued, inTime, calls, bounds, timedOut, failed>>

(* The item files once that of a line was written.                         *)
WithItem(items, line) ==
    [id \in DOMAIN items \cup {line.id} |-> IF id = line.id THEN line.n ELSE items[id]]

InHandOfExecutor(pcs) == up /\ pending # <<>> /\ execPc \in pcs

(* The executor looks up the repo of the line in hand; without one the     *)
(* line is lost, and that is logged ...                                    *)
ExecutorTakes ==
    /\ InHandOfExecutor({"idle"})
    /\ IF Head(pending).of \in recording
       THEN execPc' = "adding" /\ UNCHANGED pending
       ELSE pending' = Tail(pending) /\ UNCHANGED execPc
    /\ UNCHANGED <<disk, storageCounter, repos, plugins, caller, worker, quitter,
                   up, issued, inTime, calls, bounds, timedOut, failed>>

(* ... adds the line to it: in vain when the repo was taken away and its   *)
(* index written meanwhile; a line without an item is done ...             *)
ExecutorAdds ==
    /\ InHandOfExecutor({"adding", "orphaned"})
    /\ LET p == Head(pending).of
       IN  IF execPc = "adding"
           THEN /\ lines' = [lines EXCEPT ![p] = @ \cup {Head(pending).line}]
                /\ somethingWritten' = somethingWritten \cup {p}
           ELSE UNCHANGED <<lines, somethingWritten>>
    /\ IF Head(pending).line.stored
       THEN execPc' = "writing" /\ UNCHANGED pending
       ELSE execPc' = "idle" /\ pending' = Tail(pending)
    /\ UNCHANGED <<disk, recording, storageCounter, plugins, caller, worker, quitter,
                   up, issued, inTime, calls, bounds, timedOut, failed>>

(* ... and writes the file of its item.                                    *)
ExecutorWrites ==
    /\ InHandOfExecutor({"writing"})
    /\ files' = [files EXCEPT ![Head(pending).of] = WithItem(@, Head(pending).line)]
    /\ torn' = torn \ {Head(pending)}
    /\ pending' = Tail(pending)
    /\ execPc' = "idle"
    /\ UNCHANGED <<index, repos, storageCounter, plugins, caller, worker, quitter,
                   up, issued, inTime, calls, bounds, timedOut, failed>>

(* What the executor is about to do to a repo that is done with.           *)
Orphan(p) == IF execPc = "adding" /\ Head(pending).of = p THEN "orphaned" ELSE execPc

(***************************************************************************)
(* finalizeRecording: waits at most a second for the executor, takes the   *)
(* repo away and, if something was written, deletes the index file ...     *)
(***************************************************************************)
FinalizeTakes ==
    /\ LET p == Head(events).of
       IN  /\ recording' = recording \ {p}
           /\ IF p \in recording /\ p \in somethingWritten
              THEN /\ index' = [index EXCEPT ![p] = {}]
                   /\ workerPc' = "finalizing"
                   /\ UNCHANGED <<events, execPc>>
              ELSE /\ events' = Tail(events)
                   /\ execPc' = Orphan(p)
                   /\ UNCHANGED <<index, workerPc>>
    /\ UNCHANGED <<files, torn, storageCounter, lines, somethingWritten, plugins, caller, maxIndex,
                   pending, quitter, up, issued, inTime, calls, bounds, failed>>

(* Mutant: the executor is not waited for.                                 *)
FinalizeAtOnce ==
    /\ InHand("FinalizeWrite") /\ workerPc = "idle"
    /\ FinalizeTakes
    /\ UNCHANGED timedOut

FinalizeRecording ==
    /\ InHand("FinalizeWrite") /\ workerPc = "idle"
    /\ FinalizeTakes
    /\ timedOut' = (timedOut \/ pending # <<>>)

(* ... and writes it again, from the lines the repo has by now.            *)
WriteIndex ==
    /\ InHand("FinalizeWrite") /\ workerPc = "finalizing"
    /\ LET p == Head(events).of
       IN  /\ index' = [index EXCEPT ![p] = lines[p]]
           /\ torn' = IF execPc = "writing" /\ Head(pending).of = p
                      THEN torn \cup {Head(pending)} ELSE torn
           /\ execPc' = Orphan(p)
    /\ events' = Tail(events)
    /\ workerPc' = "idle"
    /\ UNCHANGED <<files, storageCounter, repos, plugins, caller, maxIndex, pending,
                   quitter, up, issued, inTime, calls, bounds, timedOut, failed>>

(* When the executor adds its line while the worker sorts or writes the    *)
(* lines of the repo, that may throw: the index file stays deleted.        *)
WriteIndexThrows ==
    /\ InHand("FinalizeWrite") /\ workerPc = "finalizing"
    /\ InHandOfExecutor({"adding"}) /\ Head(pending).of = Head(events).of
    /\ execPc' = "orphaned"
    /\ events' = Tail(events)
    /\ workerPc' = "idle"
    /\ UNCHANGED <<disk, storageCounter, repos, plugins, caller, maxIndex, pending,
                   quitter, up, issued, inTime, calls, bounds, timedOut, failed>>

-----------------------------------------------------------------------------
(* ApiHandler.terminate stops the servers on its own thread, then sends    *)
(* Terminate; the console only sends it; Main.stop, for a caller in the    *)
(* same process, stops the servers and cleans the queue.                   *)
Quit(by) ==
    /\ up /\ quitBy = "none"
    /\ \A p \in Instances : adminPc[p] = "idle"
    /\ quitBy' = by
    /\ IF by = "console"
       THEN events' = Append(events, Terminate) /\ UNCHANGED quitPc
       ELSE quitPc' = "stopping" /\ UNCHANGED events
    /\ UNCHANGED <<disk, storageCounter, repos, plugins, caller, workerPc, maxIndex, executor,
                   toStop, up, issued, inTime, calls, bounds, timedOut, failed>>

(* NettyServer.stop: no more calls come; terminateFilters finalizes what   *)
(* is recorded; stop waits at most a second for an empty queue.            *)
StopServer(p) ==
    /\ up /\ quitPc = "stopping" /\ p \in toStop
    /\ toStop' = toStop \ {p}
    /\ events' = IF isActive(p) THEN Append(events, Finalize(p)) ELSE events
    /\ quitPc' = "waiting"
    /\ UNCHANGED <<disk, storageCounter, repos, plugins, caller, workerPc, maxIndex, executor,
                   quitBy, up, issued, inTime, calls, bounds, timedOut, failed>>

StopWaited ==
    /\ up /\ quitPc = "waiting"
    /\ quitPc' = "stopping"
    /\ timedOut' = (timedOut \/ ~isEmpty)
    /\ UNCHANGED <<disk, storageCounter, repos, plugins, caller, worker, executor, quitBy,
                   toStop, up, issued, inTime, calls, bounds, failed>>

SendTerminate ==
    /\ up /\ quitBy = "api" /\ quitPc = "stopping" /\ toStop = {}
    /\ events' = Append(events, Terminate)
    /\ quitPc' = "none"
    /\ UNCHANGED <<disk, storageCounter, repos, plugins, caller, workerPc, maxIndex, executor,
                   quitBy, toStop, up, issued, inTime, calls, bounds, timedOut, failed>>

(* stopInternal ends by cleaning the queue, whatever the worker does.      *)
CleanAndExit ==
    /\ up /\ quitBy = "main" /\ quitPc = "stopping" /\ toStop = {}
    /\ up' = FALSE
    /\ events' = <<>>
    /\ UNCHANGED <<disk, storageCounter, repos, plugins, caller, workerPc, maxIndex, executor,
                   quitter, issued, inTime, calls, bounds, timedOut, failed>>

(***************************************************************************)
(* The handler of Terminate runs stopInternal on the worker.  The servers  *)
(* are stopped (again) and send FinalizeWrite (again), but the queue is    *)
(* not empty while the worker has Terminate in hand: the wait is in vain   *)
(* and clean drops what was sent.  Then the process exits.                 *)
(***************************************************************************)
HandleTerminate ==
    /\ InHand("Terminate")
    /\ up' = FALSE
    /\ events' = <<>>
    /\ UNCHANGED <<disk, storageCounter, repos, plugins, caller, workerPc, maxIndex, executor,
                   quitter, issued, inTime, calls, bounds, timedOut, failed>>

(* The process is killed.                                                  *)
Crash ==
    /\ up /\ crashes < MaxCrashes
    /\ up' = FALSE
    /\ events' = <<>>
    /\ crashes' = crashes + 1
    /\ UNCHANGED <<disk, storageCounter, repos, plugins, caller, workerPc, maxIndex, executor,
                   quitter, issued, inTime, calls, switches, starts, timedOut, failed>>

(* A new process finds the disk as it was left.                           *)
StartProcess ==
    /\ ~up /\ starts < MaxStarts
    /\ up' = TRUE
    /\ starts' = starts + 1
    /\ storageCounter' = 0
    /\ recording' = {}
    /\ lines' = [p \in Instances |-> {}]
    /\ somethingWritten' = {}
    /\ active' = [p \in Instances |-> FALSE]
    /\ settingsActive' = [p \in Instances |-> FALSE]
    /\ adminPc' = [p \in Instances |-> "idle"]
    /\ caller' = [c \in Callers |-> Idle]
    /\ events' = <<>> /\ workerPc' = "idle" /\ maxIndex' = 0
    /\ pending' = <<>> /\ execPc' = "idle"
    /\ quitBy' = "none" /\ quitPc' = "none" /\ toStop' = Instances
    /\ issued' = <<>>
    /\ UNCHANGED <<disk, inTime, calls, switches, crashes, timedOut, failed>>

-----------------------------------------------------------------------------
Worker == StartRecording \/ SetCounter \/ RecordInteraction \/ FinalizeRecording
            \/ WriteIndex \/ WriteIndexThrows \/ HandleTerminate
Executor == ExecutorTakes \/ ExecutorAdds \/ ExecutorWrites
Quitting == StopWaited \/ SendTerminate \/ CleanAndExit \/ \E p \in Instances : StopServer(p)

Next ==
    \/ \E p \in Instances : Activate(p) \/ Activated(p) \/ ActivationTimesOut(p) \/ Deactivate(p)
    \/ \E c \in Callers : PostCall(c) \/ SendLine(c)
    \/ \E c \in Callers, p \in Instances : PreCall(c, p) \/ AsyncResponse(c, p)
    \/ Executor
    \/ Worker
    \/ \E by \in Quits : Quit(by)
    \/ Quitting
    \/ Crash \/ StartProcess

Spec == Init /\ [][Next]_vars

(* The worker and the executor keep running, setActive and stop go on.     *)
FairSpec ==
    /\ Spec
    /\ WF_vars(Worker) /\ WF_vars(Executor) /\ WF_vars(Quitting)
    /\ \A p \in Instances : WF_vars(Activated(p) \/ ActivationTimesOut(p))

-----------------------------------------------------------------------------
Ids == 0..(2 * MaxCalls + 2)
Lines == [n : 0..MaxCalls, id : Ids, stored : BOOLEAN]

(* The types, and: the repo of an instance exists before its plugin is     *)
(* active, and until FinalizeWrite is sent.                                *)
TypeOK ==
    /\ \A p \in Instances : index[p] \subseteq Lines /\ lines[p] \subseteq Lines
    /\ \A p \in Instances : DOMAIN files[p] \subseteq Ids
    /\ storageCounter \in Ids
    /\ recording \subseteq Instances /\ somethingWritten \subseteq Instances
    /\ workerPc \in {"idle", "starting", "finalizing"}
    /\ execPc \in {"idle", "adding", "orphaned", "writing"}
    /\ quitBy \in {"none"} \cup Quits
    /\ quitPc \in {"none", "stopping", "waiting"}
    /\ \A c \in Callers : caller[c].pc \in {"idle", "calling", "saving"}
    /\ \A p \in Instances : up /\ isActive(p) /\ quitBy = "none" => p \in recording

(***************************************************************************)
(* generateIndex: "Create unique progressive id".                          *)
(***************************************************************************)
UniqueProgressiveIds ==
    \A i, j \in DOMAIN issued : i < j => issued[i] < issued[j]

(* What is recorded stays, as it was recorded.                             *)
ItemsStay ==
    ~timedOut /\ crashes = 0 => \A p \in Instances : \A id \in DOMAIN files[p] :
        id \in DOMAIN files'[p] /\ files'[p][id] = files[p][id]

(***************************************************************************)
(* Unless a wait was too short or the process was killed, a recorded item  *)
(* is never overwritten by another one, not even in a later session or     *)
(* after the process was stopped and started again.                        *)
(***************************************************************************)
NothingOverwritten == [][ItemsStay]_vars

Between(p) == p \notin recording /\ ~(up /\ workerPc = "finalizing" /\ Head(events).of = p)

(***************************************************************************)
(* "record everything that goes through": unless a wait was too short or   *)
(* the process was killed, the index of an instance that is not recorded,  *)
(* or whose process has exited, has every line that was sent before it was *)
(* told to finalize or to quit, and lists every item on the disk.          *)
(***************************************************************************)
RecordingComplete ==
    ~timedOut /\ crashes = 0 => \A p \in Instances : ~up \/ Between(p) =>
        /\ inTime[p] \subseteq index[p]
        /\ DOMAIN files[p] \subseteq {l.id : l \in index[p]}

(***************************************************************************)
(* Each line of an index file that has an item describes the call that the *)
(* file of the item describes, whatever wait was too short and wherever    *)
(* the process was killed, to record again.  The one line excused is the   *)
(* line the executor had in hand when the index was written, until it has  *)
(* written its file.                                                       *)
(***************************************************************************)
IndexDescribesFiles ==
    \A p \in Instances : \A l \in index[p] :
        l.stored => \/ l.id \in DOMAIN files[p] /\ files[p][l.id] = l.n
                    \/ Event("WriteItem", p, l) \in torn

(***************************************************************************)
(* Recording may be started at any time: no call fails because the record  *)
(* plugin was activated while it was under way.                            *)
(***************************************************************************)
CallsUndisturbed == ~failed

(***************************************************************************)
(* Once recording is turned off, or the API is told to terminate, the      *)
(* recording is finalized, unless it is turned on again.                   *)
(***************************************************************************)
RecordingEnds ==
    \A p \in Instances :
        up /\ p \in recording /\ (~isActive(p) \/ quitBy \in {"api", "main"})
            ~> p \notin recording \/ (isActive(p) /\ quitBy = "none") \/ timedOut
=============================================================================
