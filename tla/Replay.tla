------------------------------- MODULE Replay -------------------------------
(***************************************************************************)
(* Replaying a recording (BasicReplayPlugin, with the storage that serves  *)
(* it and the contexts it answers).                                        *)
(*                                                                         *)
(* Four kinds of threads meet here.  Clients connect and send calls.  The  *)
(* executor of the contexts, which has one thread, takes its tasks first   *)
(* come first served: it reacts to a call, runs the steps of a call (the   *)
(* plugin answers them from the recording) and sends back the callbacks    *)
(* recorded after a call.  A thread of the API switches replaying on and   *)
(* off.  The worker of the event queue loads and drops the recording.      *)
(*                                                                         *)
(* The lines of the recording are numbered as the ids in its index.  A     *)
(* call is known by the line recorded for it, the answer by the line the   *)
(* plugin took it from.                                                    *)
(***************************************************************************)
EXTENDS Integers, Sequences, FiniteSets

CONSTANTS
    Clients,        \* connections of the flow that was recorded
    Queues,         \* channels (Redis) or topics (MQTT)
    Recorded,       \* the recording: lines [type, client, queue, at], by id
    Modes,          \* the combinations tried: [tagged, ordered, blockExternal, ignoreTrivialCalls]
    MaxSwitches,    \* bound: times replaying is switched on or off
    MaxConnects,    \* bound: connections a client makes
    Repeaters       \* bound: clients that may make their last call once more

Upstream == 0       \* an answer that came from the real server
Lines    == DOMAIN Recorded
CallType == {"Subscribe", "Publish"}
Calls    == {l \in Lines : Recorded[l].type \in CallType}

ASSUME RecordingAssumption ==
    /\ Recorded \in Seq([type : CallType \cup {"RESPONSE"}, client : Clients, queue : Queues, at : Nat])
    /\ \A c \in Clients : \E l \in Calls : Recorded[l].client = c
    /\ Modes \subseteq [tagged : BOOLEAN, ordered : BOOLEAN,
                       blockExternal : BOOLEAN, ignoreTrivialCalls : BOOLEAN]
    /\ MaxSwitches \in Nat /\ MaxConnects \in Nat /\ Repeaters \subseteq Clients

ByTimestamp(a, b) ==
    \/ Recorded[a].at < Recorded[b].at
    \/ Recorded[a].at = Recorded[b].at /\ a < b

(* The lines without the callbacks the recording begins with.              *)
Indexed == {l \in Lines : \E m \in Calls : m = l \/ ByTimestamp(m, l)}

Timestamps == {p \in Lines \X Lines : ByTimestamp(p[1], p[2])}
Ids        == {p \in Lines \X Lines : p[1] < p[2]}

(* The elements of a set of lines in the order of a relation: the k-th has *)
(* k elements up to it.                                                    *)
Sorted(S, order) ==
    [k \in 1..Cardinality(S) |->
        CHOOSE x \in S : Cardinality({y \in S : y = x \/ <<y, x>> \in order}) = k]

(* The calls of each client in the recording, in order.                    *)
Program == [c \in Clients |-> Sorted({l \in Calls : Recorded[l].client = c}, Ids)]

VARIABLES
    mode,               \* tagged: calls carry tags (MQTT), or have none (Redis); ordered: the
                        \* clients keep the order of the recording between them; the settings
    active,             \* the flag of the plugin
    settingsActive,     \* the flag in its settings
    completedIndexes,   \* lines already given as answers
    completedOutIndexes,\* callbacks already taken
    indexes,            \* lines the plugin chooses from
    repo,               \* the storage holds the recording in memory
    events,             \* StartPlay and EndPlay events that wait for the worker
    switchPc,           \* where the thread of the API is in setActive
    toReset,            \* contexts it is still to disconnect
    switches,
    cache,              \* contextsCache: the contexts <<client, connection>> that are open
    connects,           \* client |-> connections made
    subscribed,         \* client |-> QUEUE or TOPICS of its last context
    pos,                \* client |-> calls sent on its last connection
    answers,            \* client |-> the lines of the answers it got there, in order
    messages,           \* client |-> the callbacks it got there, in order: [line, after], after
                        \* that many answers
    tasks,              \* the queue of the executor
    pc,                 \* where its thread is
    task,               \* the task in hand
    found,              \* the line chosen for it
    result,             \* the callbacks to send: <<line, context>> pairs
    fresh,              \* contexts opened while replaying was on and steady
    disturbed           \* a call other than theirs took part in the session

plugin  == <<active, settingsActive, completedIndexes, completedOutIndexes, indexes>>
storage == <<repo, events>>
switch  == <<switchPc, toReset, switches>>
clients == <<connects, pos, answers, messages>>
thread  == <<pc, task, found, result>>
ghosts  == <<fresh, disturbed>>
vars    == <<mode, plugin, storage, switch, cache, clients, subscribed, tasks, thread, ghosts>>

Task == [do |-> "none", ctx |-> <<>>, call |-> 0, extra |-> FALSE, callbacks |-> <<>>]

(* Replaying is on in the settings of the protocol: refreshStatus has      *)
(* activated the plugin before the server listens.                         *)
Init ==
    /\ mode \in Modes
    /\ active = TRUE /\ settingsActive = TRUE
    /\ completedIndexes = {} /\ completedOutIndexes = {} /\ indexes = Indexed
    /\ repo = TRUE /\ events = <<>>
    /\ switchPc = "idle" /\ toReset = {} /\ switches = 0
    /\ cache = {}
    /\ connects = [c \in Clients |-> 0]
    /\ subscribed = [c \in Clients |-> {}]
    /\ pos = [c \in Clients |-> 0]
    /\ answers = [c \in Clients |-> <<>>]
    /\ messages = [c \in Clients |-> <<>>]
    /\ tasks = <<>> /\ pc = "idle" /\ task = Task /\ found = 0 /\ result = <<>>
    /\ fresh = {} /\ disturbed = FALSE

isActive   == active /\ settingsActive
Context(c) == <<c, connects[c]>>
Waits(c)   == pos[c] > Len(answers[c])

-----------------------------------------------------------------------------
(* channelActive: a context of its own, kept in the cache.  The iteration  *)
(* of disconnectAll may or may not see one that comes meanwhile.           *)
Connect(c) ==
    /\ Context(c) \notin cache
    /\ connects[c] < MaxConnects
    /\ LET ctx == <<c, connects[c] + 1>> IN
        /\ connects' = [connects EXCEPT ![c] = @ + 1]
        /\ cache' = cache \cup {ctx}
        /\ fresh' = IF isActive /\ switchPc = "idle" THEN fresh \cup {ctx} ELSE fresh
        /\ \/ UNCHANGED toReset
           \/ switchPc = "reset" /\ toReset' = toReset \cup {ctx}
    /\ subscribed' = [subscribed EXCEPT ![c] = {}]
    /\ pos' = [pos EXCEPT ![c] = 0]
    /\ answers' = [answers EXCEPT ![c] = <<>>]
    /\ messages' = [messages EXCEPT ![c] = <<>>]
    /\ UNCHANGED <<mode, plugin, storage, switchPc, switches, tasks, thread, disturbed>>

(* The calls recorded before line l have been answered.                    *)
InTurn(l) ==
    \A m \in Calls : m < l =>
        LET c == Recorded[m].client IN
        Context(c) \in cache /\ \E k \in DOMAIN Program[c] :
                                    Program[c][k] = m /\ k <= Len(answers[c])

(* A client sends its next call, or repeats its last one, once it has the  *)
(* answer of the call before; channelRead submits the reaction.            *)
Call(c) ==
    /\ Context(c) \in cache
    /\ ~Waits(c)
    /\ LET extra == pos[c] >= Len(Program[c])
           l     == IF extra THEN Program[c][Len(Program[c])] ELSE Program[c][pos[c] + 1]
       IN  /\ IF mode.ordered THEN ~extra /\ InTurn(l)
              ELSE extra => c \in Repeaters /\ pos[c] = Len(Program[c])
           /\ tasks' = Append(tasks, [Task EXCEPT !.do = "react", !.ctx = Context(c),
                                                  !.call = l, !.extra = extra])
    /\ pos' = [pos EXCEPT ![c] = @ + 1]
    /\ UNCHANGED <<mode, plugin, storage, switch, cache, connects, subscribed, answers, messages,
                   thread, ghosts>>

(* What reaches a client whose context was disconnected is lost.           *)
GetsAnswer(ctx, l) ==
    answers' = IF ctx \in cache THEN [answers EXCEPT ![ctx[1]] = Append(@, l)] ELSE answers

GetsMessage(ctx, l) ==
    messages' = IF ctx \in cache
                THEN [messages EXCEPT ![ctx[1]] =
                        Append(@, [line |-> l, after |-> Len(answers[ctx[1]])])]
                ELSE messages

-----------------------------------------------------------------------------
(* The executor.                                                           *)

(* reactToEvent: Resp3Subscribe and Subscribe note the queue in the        *)
(* context, Redis the last one only; runSteps submits the steps.           *)
React ==
    /\ pc = "idle" /\ tasks # <<>> /\ Head(tasks).do = "react"
    /\ LET t == Head(tasks)
           c == t.ctx[1]
           q == Recorded[t.call].queue
       IN  /\ subscribed' = IF Recorded[t.call].type = "Subscribe" /\ t.ctx = Context(c)
                            THEN [subscribed EXCEPT ![c] = IF mode.tagged THEN @ \cup {q} ELSE {q}]
                            ELSE subscribed
           /\ tasks' = Append(Tail(tasks), [t EXCEPT !.do = "steps"])
    /\ UNCHANGED <<mode, plugin, storage, switch, cache, clients, thread, ghosts>>

(* sendAndExpect of the proxy: the plugin handles the call if it is        *)
(* active, else the server answers.                                        *)
RunSteps ==
    /\ pc = "idle" /\ tasks # <<>> /\ Head(tasks).do = "steps"
    /\ tasks' = Tail(tasks)
    /\ IF isActive
       THEN pc' = "find" /\ task' = Head(tasks) /\ UNCHANGED answers
       ELSE GetsAnswer(Head(tasks).ctx, Upstream) /\ UNCHANGED <<pc, task>>
    /\ UNCHANGED <<mode, plugin, storage, switch, cache, connects, pos, messages, subscribed, found,
                   result, ghosts>>

Idle == pc' = "idle" /\ task' = Task /\ found' = 0 /\ result' = <<>>

(* Mutant: lines of callbacks are not set apart.                           *)
MatchesResponses(l, m) == IF mode.tagged THEN Recorded[m].type = Recorded[l].type ELSE TRUE

(* Redis records every call with the type Resp3Message.                    *)
typeMatching(l, m) ==
    /\ Recorded[m].type # "RESPONSE"
    /\ mode.tagged => Recorded[m].type = Recorded[l].type

(* Tags in common: without tags there is none, whatever the call says.     *)
tagsMatching(l, m) == IF mode.tagged /\ Recorded[l].queue = Recorded[m].queue THEN 1 ELSE 0

isRepeatableItem(m) == mode.tagged /\ Recorded[m].type \in CallType

Matching(l)  == {m \in indexes : typeMatching(l, m)}
Best(l, set) ==
    LET most == {m \in set : \A n \in set : tagsMatching(l, n) <= tagsMatching(l, m)}
    IN  CHOOSE m \in most : \A n \in most : m <= n

(* Mutant: a later line that matches as well is preferred.                 *)
LastBest(l) ==
    LET unused == {m \in Matching(l) : m \notin completedIndexes}
        most == {m \in unused : \A n \in unused : tagsMatching(l, n) <= tagsMatching(l, m)}
    IN  IF unused = {} THEN 0 ELSE CHOOSE m \in most : \A n \in most : m >= n

(* Mutant: a line already given ends the search.                           *)
StopsAtUsed(l) ==
    IF Matching(l) \cap completedIndexes # {} \/ Matching(l) = {} THEN 0 ELSE Best(l, Matching(l))

(***************************************************************************)
(* findIndex: the line for a call like the one of line l, 0 if there is    *)
(* none.  Of the lines not given yet the first that matches best, be it by *)
(* its type alone; then a repeatable one given before.  When calls may     *)
(* reach the server a repeatable line, given or not, ends the search.      *)
(***************************************************************************)
findIndex(l) ==
    LET unused   == Matching(l) \ completedIndexes
        repeated == {m \in Matching(l) \cap completedIndexes :
                        isRepeatableItem(m) /\ mode.ignoreTrivialCalls}
    IN  IF ~mode.blockExternal /\ \E m \in Matching(l) : isRepeatableItem(m) THEN 0
        ELSE IF unused # {} THEN Best(l, unused)
        ELSE IF repeated # {} THEN Best(l, repeated)
        ELSE 0

(* Without a line the call goes to the server, or, when that is blocked,   *)
(* is answered with nothing: the client goes on waiting.                   *)
FindIndex ==
    /\ pc = "find"
    /\ LET l == findIndex(task.call) IN
        \/ /\ l # 0
           /\ pc' = "mark" /\ found' = l
           /\ UNCHANGED <<answers, task, result>>
        \/ /\ l = 0
           /\ IF mode.blockExternal THEN UNCHANGED answers ELSE GetsAnswer(task.ctx, Upstream)
           /\ Idle
    /\ UNCHANGED <<mode, plugin, storage, switch, cache, connects, pos, messages, subscribed, tasks,
                   ghosts>>

(* The list is read while the thread of the API clears or fills it: the    *)
(* iteration throws and the call ends without an answer.                   *)
FindIndexThrows ==
    /\ pc = "find"
    /\ switchPc \in {"load", "unload"}
    /\ Idle
    /\ disturbed' = TRUE
    /\ UNCHANGED <<mode, plugin, storage, switch, cache, clients, subscribed, tasks, fresh>>

(* completedIndexes.add, then the duration of the call is slept.           *)
Mark ==
    /\ pc = "mark"
    /\ completedIndexes' = completedIndexes \cup {found}
    /\ disturbed' = (disturbed \/ task.ctx \notin fresh \/ task.extra)
    /\ pc' = "load"
    /\ UNCHANGED <<mode, active, settingsActive, completedOutIndexes, indexes, storage, switch,
                   cache, clients, subscribed, tasks, task, found, result, fresh>>

(* Mutant: the first line after the call is skipped.                       *)
SkipsOne(l) ==
    {m \in Lines : /\ m > l + 1
                   /\ m \notin completedOutIndexes
                   /\ \A n \in l + 1..m : Recorded[n].type = "RESPONSE"}

(* readResponsesFromScenario: the callbacks up to the next call that were  *)
(* not taken yet.                                                          *)
readResponsesFromScenario(l) ==
    {m \in Lines : /\ m > l
                   /\ m \notin completedOutIndexes
                   /\ \A n \in l + 1..m : Recorded[n].type = "RESPONSE"}

Subscribers(m) == {ctx \in cache : Recorded[m].queue \in subscribed[ctx[1]]}

CallbackTask(seq, to) ==
    [Task EXCEPT !.do = "callbacks", !.callbacks = [i \in DOMAIN seq |-> <<seq[i], to[i]>>]]

(* Mutant: the callbacks stay in the order of their ids.                   *)
Unsorted ==
    /\ pc = "load" /\ repo
    /\ LET ids == {m \in readResponsesFromScenario(found) \cap indexes : Subscribers(m) # {}}
           seq == Sorted(ids, Ids)
       IN  /\ completedOutIndexes' = completedOutIndexes \cup ids
           /\ IF task.ctx \in cache /\ seq # <<>>
              THEN \E to \in [DOMAIN seq -> cache] :
                    /\ \A i \in DOMAIN seq : to[i] \in Subscribers(seq[i])
                    /\ tasks' = Append(tasks, CallbackTask(seq, to))
              ELSE UNCHANGED tasks
    /\ GetsAnswer(task.ctx, found)
    /\ Idle
    /\ UNCHANGED <<mode, active, settingsActive, completedIndexes, indexes, storage, switch,
                   cache, connects, pos, messages, subscribed, ghosts>>

(* Mutant: the callbacks are run before what already waits.                *)
CallbacksFirst ==
    /\ pc = "load" /\ repo
    /\ LET ids == {m \in readResponsesFromScenario(found) \cap indexes : Subscribers(m) # {}}
           seq == Sorted(ids, Timestamps)
       IN  /\ completedOutIndexes' = completedOutIndexes \cup ids
           /\ IF task.ctx \in cache /\ seq # <<>>
              THEN \E to \in [DOMAIN seq -> cache] :
                    /\ \A i \in DOMAIN seq : to[i] \in Subscribers(seq[i])
                    /\ tasks' = <<CallbackTask(seq, to)>> \o tasks
              ELSE UNCHANGED tasks
    /\ GetsAnswer(task.ctx, found)
    /\ Idle
    /\ UNCHANGED <<mode, active, settingsActive, completedIndexes, indexes, storage, switch,
                   cache, connects, pos, messages, subscribed, ghosts>>

(***************************************************************************)
(* loadAndPrepareTheAsyncResponses: each callback with a subscriber is     *)
(* taken and given to one of its subscribers, in the order of the          *)
(* timestamps; the others stay.  Then, with no wait in between, write, and *)
(* postWrite, which submits the callbacks unless the context was           *)
(* disconnected.                                                           *)
(***************************************************************************)
Answer ==
    /\ pc = "load" /\ repo
    /\ LET ids == {m \in readResponsesFromScenario(found) \cap indexes : Subscribers(m) # {}}
           seq == Sorted(ids, Timestamps)
       IN  /\ completedOutIndexes' = completedOutIndexes \cup ids
           /\ IF task.ctx \in cache /\ seq # <<>>
              THEN \E to \in [DOMAIN seq -> cache] :
                    /\ \A i \in DOMAIN seq : to[i] \in Subscribers(seq[i])
                    /\ tasks' = Append(tasks, CallbackTask(seq, to))
              ELSE UNCHANGED tasks
    /\ GetsAnswer(task.ctx, found)
    /\ Idle
    /\ UNCHANGED <<mode, active, settingsActive, completedIndexes, indexes, storage, switch,
                   cache, connects, pos, messages, subscribed, ghosts>>

(* The recording was dropped from the storage: the plugin throws and the   *)
(* call ends without an answer.                                            *)
LoadThrows ==
    /\ pc = "load" /\ ~repo
    /\ Idle
    /\ disturbed' = TRUE
    /\ UNCHANGED <<mode, plugin, storage, switch, cache, clients, subscribed, tasks, fresh>>

SendBackResponses ==
    /\ pc = "idle" /\ tasks # <<>> /\ Head(tasks).do = "callbacks"
    /\ tasks' = Tail(tasks)
    /\ pc' = "callbacks"
    /\ result' = Head(tasks).callbacks
    /\ UNCHANGED <<mode, plugin, storage, switch, cache, clients, subscribed, task, found, ghosts>>

(* One callback, after the time recorded between it and the one before.    *)
(* It ends when replaying was switched off, or with an exception when the  *)
(* context is no longer in the cache.                                      *)
SendBack ==
    /\ pc = "callbacks"
    /\ IF result # <<>> /\ isActive /\ result[1][2] \in cache
       THEN /\ GetsMessage(result[1][2], result[1][1])
            /\ result' = Tail(result)
            /\ UNCHANGED <<pc, task, found>>
       ELSE Idle /\ UNCHANGED messages
    /\ UNCHANGED <<mode, plugin, storage, switch, cache, connects, pos, answers, subscribed, tasks,
                   ghosts>>

-----------------------------------------------------------------------------
(* The API: setActive(true).                                               *)

(* handleActivation up to the wait for the storage.                        *)
Activate ==
    /\ switchPc = "idle" /\ ~isActive /\ switches < MaxSwitches
    /\ switches' = switches + 1
    /\ settingsActive' = TRUE
    /\ completedIndexes' = {} /\ completedOutIndexes' = {}
    /\ events' = Append(events, "StartPlay")
    /\ switchPc' = "wait"
    /\ fresh' = {} /\ disturbed' = FALSE
    /\ UNCHANGED <<mode, active, indexes, repo, toReset, cache, clients, subscribed, tasks, thread>>

(* this.active = active; disconnectAll begins to iterate over the cache.   *)
BeginsReset(b) ==
    /\ active' = b
    /\ toReset' = cache
    /\ switchPc' = "reset"

(* The storage has the recording.                                          *)
Waited ==
    /\ switchPc = "wait" /\ repo
    /\ switchPc' = "load"
    /\ UNCHANGED <<mode, plugin, storage, toReset, switches, cache, clients, subscribed, tasks,
                   thread, ghosts>>

(* Two seconds have passed: what the sleep throws is logged, and the       *)
(* plugin activated without lines.                                         *)
WaitTimesOut ==
    /\ switchPc = "wait" /\ ~repo
    /\ BeginsReset(TRUE)
    /\ UNCHANGED <<mode, settingsActive, completedIndexes, completedOutIndexes, indexes, storage,
                   switches, cache, clients, subscribed, tasks, thread, ghosts>>

(* The storage may have dropped the recording since it was waited for:     *)
(* that is logged as well, and no lines are loaded.                        *)
LoadIndexes ==
    /\ switchPc = "load"
    /\ indexes' = IF repo THEN Indexed ELSE indexes
    /\ BeginsReset(TRUE)
    /\ UNCHANGED <<mode, settingsActive, completedIndexes, completedOutIndexes, storage,
                   switches, cache, clients, subscribed, tasks, thread, ghosts>>

(* setActive(false)                                                        *)
Deactivate ==
    /\ switchPc = "idle" /\ isActive /\ switches < MaxSwitches
    /\ switches' = switches + 1
    /\ settingsActive' = FALSE
    /\ completedIndexes' = {} /\ completedOutIndexes' = {}
    /\ events' = Append(events, "EndPlay")
    /\ switchPc' = "unload"
    /\ fresh' = {}
    /\ UNCHANGED <<mode, active, indexes, repo, toReset, cache, clients, subscribed, tasks, thread,
                   disturbed>>

Unload ==
    /\ switchPc = "unload"
    /\ indexes' = {}
    /\ BeginsReset(FALSE)
    /\ UNCHANGED <<mode, settingsActive, completedIndexes, completedOutIndexes, storage, switches,
                   cache, clients, subscribed, tasks, thread, ghosts>>

(* disconnectAll: one context is disconnected and leaves the cache.        *)
DisconnectAll ==
    /\ switchPc = "reset"
    /\ \/ \E ctx \in toReset :
            /\ cache' = cache \ {ctx}
            /\ toReset' = toReset \ {ctx}
            /\ UNCHANGED switchPc
       \/ toReset = {} /\ switchPc' = "idle" /\ UNCHANGED <<cache, toReset>>
    /\ UNCHANGED <<mode, plugin, storage, switches, clients, subscribed, tasks, thread, ghosts>>

(* The worker of the event queue: initializeContentForReplay, finalizePlay. *)
HandleEvent ==
    /\ events # <<>>
    /\ repo' = (Head(events) = "StartPlay")
    /\ events' = Tail(events)
    /\ UNCHANGED <<mode, plugin, switch, cache, clients, subscribed, tasks, thread, ghosts>>

-----------------------------------------------------------------------------
Execute == \/ React \/ RunSteps \/ FindIndex \/ FindIndexThrows \/ Mark \/ Answer \/ LoadThrows
           \/ SendBackResponses \/ SendBack
Switching == Waited \/ WaitTimesOut \/ LoadIndexes \/ Unload \/ DisconnectAll

Next ==
    \/ \E c \in Clients : Connect(c) \/ Call(c)
    \/ Execute
    \/ Activate \/ Deactivate \/ Switching
    \/ HandleEvent

Spec == Init /\ [][Next]_vars

-----------------------------------------------------------------------------
Contexts == Clients \X (1..MaxConnects)

(* The types, and: a line is chosen as an answer only if it was recorded   *)
(* as one, and callbacks have a context to go to.                          *)
TypeOK ==
    /\ {active, settingsActive, repo, disturbed} \subseteq BOOLEAN
    /\ completedIndexes \subseteq Calls
    /\ completedOutIndexes \subseteq Lines \ Calls
    /\ indexes \subseteq Lines
    /\ events \in Seq({"StartPlay", "EndPlay"})
    /\ switchPc \in {"idle", "wait", "load", "unload", "reset"}
    /\ toReset \cup cache \cup fresh \subseteq Contexts
    /\ switches \in 0..MaxSwitches
    /\ subscribed \in [Clients -> SUBSET Queues]
    /\ pc \in {"idle", "find", "mark", "load", "callbacks"}
    /\ found \in Calls \cup {0}
    /\ pc \in {"mark", "load"} => found # 0
    /\ result \in Seq((Lines \ Calls) \X Contexts)

Fresh == {c \in Clients : Context(c) \in cache \cap fresh}

(* The flow is repeated so that the plugin can know it: the clients keep   *)
(* the order between them, or the calls have tags that tell the clients    *)
(* apart; and no other call took part in the session.                      *)
ToldApart ==
    \A l, m \in Calls :
        Recorded[l].type = Recorded[m].type /\ Recorded[l].queue = Recorded[m].queue
            => Recorded[l].client = Recorded[m].client
Faithful == (mode.ordered \/ (mode.tagged /\ ToldApart)) /\ ~disturbed

(***************************************************************************)
(* A client that connects while replaying is on and repeats the calls that *)
(* were recorded gets for each of them the answer recorded for it, though  *)
(* other clients make theirs in between and the recording was loaded by    *)
(* another thread a moment ago (findIndex, completedIndexes).              *)
(***************************************************************************)
AnswersAsRecorded ==
    Faithful => \A c \in Fresh : \A k \in DOMAIN Program[c] :
        k <= Len(answers[c]) => answers[c][k] \in {Program[c][k], Upstream}

(***************************************************************************)
(* A client never gets a message before the answer to the subscription it  *)
(* belongs to, and never one twice, though the callbacks are taken by the  *)
(* call of another client and sent by a task of their own, which may wait  *)
(* while replaying is switched off and on again.                           *)
(***************************************************************************)
MessagesFollowSubscription ==
    \A c \in Clients : \A i \in DOMAIN messages[c] :
        /\ \A j \in DOMAIN messages[c] : j # i => messages[c][j].line # messages[c][i].line
        /\ c \in Fresh /\ ~disturbed =>
            \E k \in DOMAIN Program[c] :
                /\ k <= messages[c][i].after
                /\ Recorded[Program[c][k]].type = "Subscribe"
                /\ Recorded[Program[c][k]].queue = Recorded[messages[c][i].line].queue

(* The order of two callbacks in the recording: that of the calls between  *)
(* them, and without one that of their timestamps.                         *)
Precedes(a, b) ==
    IF \E l \in Calls : (a < l /\ l < b) \/ (b < l /\ l < a) THEN a < b ELSE ByTimestamp(a, b)

(***************************************************************************)
(* Clients that keep the order of the recording get their messages in the  *)
(* order they were recorded.                                               *)
(***************************************************************************)
MessagesInOrder ==
    mode.ordered /\ ~disturbed => \A c \in Fresh : \A i, j \in DOMAIN messages[c] :
        i < j => Precedes(messages[c][i].line, messages[c][j].line)

(* Every callback was recorded after a subscription to its queue, which,   *)
(* when a context keeps the last one only, was still the last of its       *)
(* client.                                                                 *)
Addressed ==
    \A m \in Indexed \ Calls : \E s \in Calls :
        /\ s < m /\ Recorded[s].type = "Subscribe" /\ Recorded[s].queue = Recorded[m].queue
        /\ ~mode.tagged => \A r \in Calls :
              /\ s < r /\ r < m
              /\ Recorded[r].type = "Subscribe" /\ Recorded[r].client = Recorded[s].client
              => Recorded[r].queue = Recorded[s].queue

(***************************************************************************)
(* "All callback are replayed automatically": once clients that keep the   *)
(* order of the recording have all their answers from it and the executor  *)
(* has nothing left to do, every callback recorded for a subscriber has    *)
(* reached a client.                                                       *)
(***************************************************************************)
AllCallbacksReplayed ==
    /\ mode.ordered /\ ~disturbed /\ tasks = <<>> /\ pc = "idle"
    /\ \A c \in Clients : c \in Fresh /\ \A k \in DOMAIN Program[c] :
                            k <= Len(answers[c]) /\ answers[c][k] # Upstream
    /\ Addressed
    => \A m \in Indexed \ Calls : \E c \in Clients : \E i \in DOMAIN messages[c] :
           messages[c][i].line = m

(***************************************************************************)
(* A call of the recorded flow that has no answer yet is still waiting for *)
(* the executor or in its hands: a session that begins finds every line    *)
(* unused, and no call of its flow ends without an answer, unless a call   *)
(* from outside took part or the plugin could not load the recording.      *)
(***************************************************************************)
NoCallLost ==
    \A c \in Fresh :
        Waits(c) /\ pos[c] <= Len(Program[c]) /\ ~disturbed /\ indexes # {}
            => \/ task.ctx = Context(c)
               \/ \E i \in DOMAIN tasks : tasks[i].ctx = Context(c)
=============================================================================
