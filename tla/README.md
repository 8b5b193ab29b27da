# A TLA+ verification of The Protocol Master

The Protocol Master (TPM) sits between clients and servers that speak HTTP, MySQL, PostgreSQL,
MongoDB, Redis, AMQP 0.9.1, MQTT and DNS. For each configured protocol it opens a port, interprets
what a client sends with a state machine, forwards it upstream, and lets plugins record, replay,
mock or disturb the calls. This directory holds TLA+ models of its core, TLC configurations that
check them on small instances, and TLAPS proofs about the event queue, recording, replaying, the
upstream sockets and the scripts of the web UI.

`PROJECT.json` lists components, runs, mutants, the map from definitions to source lines, findings,
hazards and theorems. Paths below are under `src/protocol-common/src/main/java/org/kendar/` unless
they start with another module's name.

## 1. Inventory

| Component | State | Operations | Hard behaviour |
|---|---|---|---|
| State machine (`protocol/context`, `protocol/states`, `protocol/descriptor`) | one execution stack of `ProtoStackItem`s per list of tags, `remainingBytes`, the greeting flag, the client channel | `send`, `reactToEvent`, the recursive search of the next state, `postExecute`, closing of the client | a greedy search that changes the stack while it looks and is left by exceptions; events a state sends to its own context queue behind frames of the client |
| Protocol declarations (`*Protocol.initializeProtocol`) | trees of `While`, `SwitchCase`, `Sequence`, `Tagged`, leaves | `canRun` of each leaf | optional states, one machine per channel or packet id |
| Event queue (`events/EventsQueue`) | static `size`, current `instance`, `items`, handler maps, `running` | `send`, `register`, `unregister`, the worker loop, `clean` | `send` is three steps; `clean` may run on the worker it stops; a map is changed while it is iterated |
| Recording (`plugins/BasicRecordPlugin`, `storage/FileStorageRepository`) | `storageCounter`, `protocolRepo`, item files and index files, plugin flags | activation, `preCall`, `postCall`, `asyncCall`, the handlers of the four storage events, the executor | two flags and two threads; waits of at most a second; the index is written only at the end; kill and restart |
| Start and stop (`tcpserver/NettyServer`, protocol-runner `Main`, `apis/ApiHandler`) | running servers, the quit request | `stop`, `stopInternal`, `terminate`, `Q` on the console | the stop waits for a queue whose worker may be the one that stops |
| Upstream sockets (`proxy/BaseProxySocket`, `NettyProxySocket`, `NetworkProxy`) | `tempBuffer`, `inputQueue`, `received`, the channel | `onRead`, `read`, `write`, `sendAndExpect` | an I/O thread and the executor thread; bytes cut anywhere; a two second deadline racing a late answer |
| Replay (`plugins/BasicReplayPlugin`) | the lines to choose from, the sets of lines already given, the repository in memory, the contexts that are open | `sendAndExpect` with `findIndex`, callbacks and the tasks that send them, activation and deactivation | the sets are shared by connections and cleared by another thread; a third thread loads the recording |
| Scripts of the web UI (protocol-runner `web/lib/utils.js` and the scripts of `jte/`) | which panels are open, in the page and in `localStorage`; the lock and the queue of htmx; notifications and their timers; the file chosen | clicks, reloads of panels, requests, notifications, upload | timers and answers in any order, tabs that share one stored item, a queue of one place |
| Mock, rewrite, error plugins | counters of mocks | matching of requests, injection | counters shared by connections |
| JDBC proxy (protocol-common-jdbc) | a JDBC connection per context | conversion of statements and results | data, little control |
| HTTP proxy, certificates (protocol-http), DNS (protocol-dns-plugin) | filters, certificate cache, rate limit quotas | request phases | the rate limit plugin shares quotas |
| APIs, pages, settings, plugin loading (protocol-runner) | settings, loaded plugins | HTTP routes | starts and stops what the models above have |
| Swagger UI (protocol-runner `web/swagger-ui`) | third-party | none of its own | none |
| Query language (`utils/parser`) | none | parse and evaluate | pure |

How they interact: `NettyServer.channelRead` turns bytes into a `BytesEvent` and calls
`ProtoContext.send`, which runs `reactToEvent` on an executor of one thread (MySQL: on the reading
thread). The state found calls `NetworkProxy`, which calls plugins before and after the upstream
call and talks to the server through a `WireProxySocket`. Frames the server sends of its own accord
are tasks of the same executor. Plugins send storage events through `EventsQueue`; its worker calls
the storage, which hands lines to an executor of its own. The stop of a server makes its plugins
send `FinalizeWrite` and waits for the queue. A replay plugin answers in the place of the server, on
the executor of the contexts, from the lines the storage loaded when it was activated. The pages
start and stop plugins through the API and reload the panels that show their status.

What makes each of them correct:

* state machine: a client that follows the declaration is served; stacks do not leak; no event
  is swallowed;
* event queue: order per sender, `isEmpty` means idle and comes true again, events are handled in the
  end;
* recording: nothing is overwritten, the index lists and describes the files, also
  across kill and restart; a recording that is told to end ends;
* sockets: the answer a client gets is the answer to its request, pushed frames arrive once and in
  order, nothing waits for ever in a buffer;
* replay: a client that repeats what was recorded gets what was recorded, answers and messages, the
  messages once, in order and after the answer to its subscription, and none of its calls is lost;
* web UI: what is stored of the panels is what the user did and what the page shows, a change is
  shown, notifications go away, the file that is named is the one that is sent.

## 2. Modules

| Module | Contents |
|---|---|
| `ProtoStates` | nodes of a declaration, the split into one tree per list of tag keys, and the reference meaning of a declaration as a regular expression (`Residuals`) |
| `Protocols` | the declarations of Redis, MySQL, PostgreSQL, MongoDB, AMQP and MQTT, and what their leaves accept |
| `ProtoContext` | the interpreter: search, execution, tags, interrupts, greeting, missing data |
| `EventsQueue`, `EventsQueueProofs` | the event queue and the theorems about it |
| `EventDelivery`, `EventDeliveryProofs` | what the queue promises to senders, and the proof that `EventsQueue` implements it |
| `Recording`, `RecordingProofs` | record plugins, storage, executor, start, stop and kill of the process, and the theorems about them |
| `ProxySocket`, `ProxySocketProofs` | the upstream socket and the calls made through it, and the theorems about them |
| `Replay`, `ReplayProofs` | replay plugin, the storage that serves it, the contexts it answers, and the theorems about them |
| `UiPanels`, `UiPanelsProofs` | panels of the plugins page, their stored status, reloads through htmx, several tabs, and the theorems about them |
| `UiRequests`, `UiRequestsProofs` | requests and notifications of a page, and the theorems about them |
| `UiUpload`, `UiUploadProofs` | the upload form of the storage page, and the theorems about it |
| `MCProtoContext`, `MCEventsQueue`, `MCRecording`, `MCProxySocket`, `MCReplay`, `MCUiPanels`, `MCUiRequests`, `MCUiUpload` | the modules TLC runs |

Definitions under a comment that starts with `Mutant:` are plausible bugs. They are used by no
specification; each replaces a definition to show that a property notices it.

### ProtoContext

`executionStack` is the field of that name, a function from lists of tags to sequences of items;
an item is a node and the place of its next child. `queue` is the executor's queue of this context.
`reactToEvent` is one action: `preExecute` makes the stack of a new tag, `findThePossibleNextState`
tries the interrupts and then the stack, and the state found is run. The search is translated
function by function (`executeLoop`, `executeSwitchCase`, `executeSequence`, `getProtoState`,
`popTheCurrentState`, `parentAreClosed`, `resetInstanceIfEmptyAndNotBlocked`), with a heap of items
because callers up the Java stack hold items that have left the execution stack. Exceptions are
results that end the search and leave the stack as it is.

Events are names: a frame is the event it decodes to. The operations of AMQP that are single leaves
of one `SwitchCase` differ only in their names, so three of them stand for all. A piece of a frame is
one of three events, by what `canRun` of the translators tells apart: `Partial`, a beginning for which
more is asked; `Stub`, less than the header, which every leaf refuses, unless it comes behind a
`Partial` and is joined to it (`Joined`); and, for PostgreSQL and AMQP, `Short`, a frame without its
last byte, which passes the test of the length and makes `execute` throw. Redis has `Partial` only.

`ClientSends` also advances a reference: `Advance` says what a declaration, read as a regular
expression, expects next. `conforms` is true as long as the client follows it.

### EventsQueue

Instances of the queue are numbered; `instance` is the static field. `send` is three actions
(`SendCounts`, `SendAims`, `SendAdds`), `clean` is four (`CleanItems`, `CleanHandlers`, `CleanSize`,
`Swap`), as the code takes no lock. The worker is `Poll`, `CallHandler`, `Handled`, `CountDown`,
`NothingToPoll`, `Exit`. `running` is not volatile: a worker may go on polling after it was cleared.
Handlers are ids; the one of `Main` calls `clean` on the worker when it gets a quit event.
`polled` records what a worker took and exists for the properties.

`EventDelivery` is the abstract specification: three actions, no queues. An event that was sent is
handled at most once by all the instances together, and each instance keeps the order of each
sender; it need not be handled, since `clean` drops what waits. `EventsQueue` instantiates it as
`Delivery` with `handled <- polled`: `SendCounts` is `Send`, `Poll` is `Handle`, `Swap` is `Clean`,
the other actions change nothing it speaks of.

### Recording

`recording`, `lines` and `somethingWritten` are `protocolRepo` and the fields of `ProtocolRepo`;
`index` and `files` are the disk; `active` and `settingsActive` are the two flags `isActive` reads.
The event queue is a sequence whose head is in the worker's hands: that it keeps the order and that
`isEmpty` means idle is what `EventsQueue` shows. `initializeContentForWrite` is two actions, since
the counter is read and set without a lock (`StartRecording`, `SetCounter`), and `finalizeRecording`
is two, since the process can be killed between the deletion and the writing of the index
(`FinalizeRecording`, `WriteIndex`). The executor writes a line in three steps, between which the
worker may be finalizing when its wait was too short: it finds the repository (`ExecutorTakes`),
adds the line to the index in memory (`ExecutorAdds`) and writes the item file (`ExecutorWrites`). A
line that was added when the index was written and has no file yet is in `torn`; one whose
repository was removed and whose index was written in between goes to a list nobody writes any more
(`Orphan`); and sorting or writing the list while the executor adds to it may throw, which leaves
the recording without an index (`WriteIndexThrows`). The waits of at most a second end in an action
that may come too early and then sets `timedOut`. `issued` and `inTime` record ids and lines for the
properties.

### ProxySocket

A frame travels in three parts: header, the rest but for the last byte, and the last byte. A read
may end after any part. `GenericFrame` says what the splitter of each protocol does with the
beginning of the buffer: find a frame, find none, or throw. The I/O thread is `ChannelRead`,
`SplitFrame` (a push becomes a task of the executor, an answer is queued in `inputQueue`),
`NothingToSplit` and `SplitFails`, which closes the channel to the server. The one thread of the
executor runs tasks: a request (`SendAndExpect`, `Read`, `ReadTimesOut`, `AnswerClient`) or a push
(`PushClient`, from `tasks`). While it is in `read`, pushes wait. An exception of a task, of a write
on a closed channel or of a wait that ran out, ends the task and nothing else
(`NetworkProtoContext.java:371` submits it and nobody asks for its result): the client and the
channel stay open, and the answer that comes later stays in `received` for a request like it.
`gaveUp` records the requests whose wait ran out. The server is external: it answers requests in
order, one frame each, and may push frames.

### Replay

A recording is a constant sequence of lines; a call is known by the line recorded for it, an answer
by the line the plugin took it from (0: the real server). `Program` gives each client its calls in
the order of their ids. `answers` and `messages` are what a client got on its last connection, each
message with the number of answers before it. `tasks` is the queue of the executor of the contexts,
`pc` and `task` its one thread: `React` (`execute` of the state), `RunSteps`, `FindIndex`
(`findIndex`), `Mark` (the line is added to `completedIndexes`), `Answer` (the callbacks recorded
after the line are taken, sorted by timestamp, and a task to send them is submitted),
`SendBackResponses`, `SendBack`. The thread of the API is `Activate`, `Waited` or `WaitTimesOut`,
`LoadIndexes`, `DisconnectAll` one way, `Deactivate`, `Unload`, `DisconnectAll` the other; the flags
and sets change in the order of `setActive` and `handleActivation`. `HandleEvent` is the worker of
the event queue, which loads and drops the recording. `FindIndexThrows` and `LoadThrows` are the
exceptions of a recording that was dropped in between; the call ends there and its client waits.
`fresh` and `disturbed` exist for the properties.

### UiPanels, UiRequests, UiUpload

A task of a page runs to its end before the next one, so a handler, a timer or the callback of an
answer is one action. The exception is `setAccordionStatus`, which reads and writes an item that
other tabs change: `getAccordionStatus` and `setAccordionStatus` are two actions, and `pending` holds
what the task has still to store; no other task of the tab begins before it is empty. The browser is
external. Of htmx 2.0.4 (protocol-runner `web/lib/htmx.min.js`, one line) the model has what the pages
meet: `htmx.ajax` without a source uses one element, hence one lock (`xhr`) and one place in the queue
(`queued`); a request that takes the place of another, or is put there, has its promise resolved at
once. A panel that is swapped in takes the class list of the one it replaces (`AjaxAnswer`) and gets
its own back 20 ms later (`Settle`); `settling` are the panels in between, and whatever opened one of
them by then is undone. The timer of `openAccordion` that the reload sets takes 250 ms, so it fires
after the panel has settled; `early` counts the timers that were set before the swap and may fire
earlier.

`UiRequests` has one request per name, made by `sendData` or `getData` (which differ in the verb) or
by htmx. A callback is one of the four kinds the pages give. A page that is reloaded loses requests,
notifications and timers.

`UiUpload`: `find_child_within_tree` climbs ten nodes and throws where the tree ends earlier;
`Ancestors`, `BoxLevel` and `OutputLevel` say where the elements of the page are. In the storage page
the box is two nodes above the input's level, the output element does not exist, and the input has
eleven nodes above it.

## 3. Runs

Passing runs:

| Run | States | Shows |
|---|---|---|
| `ProtoServed` | 227 thousand | Redis, PostgreSQL, MySQL, MongoDB, AMQP with one and with two channels. `ConformingClientServed`, `StackBounded`, `NoEventSwallowed`, `LoopStopsBetweenRounds` |
| `EventsQueue` | 373 thousand | `HandledInOrder`, `IsEmptyMeansIdle`, `EmptyAgain`, `EventuallyHandled`, `ImplementsDelivery` with two instances, a quit event and handlers that come and go |
| `RecordingStop` | 2.7 million | `NothingOverwritten`, `RecordingComplete`, `IndexDescribesFiles` with two connections, three switches, one kill, one restart |
| `RecordingLive` | 426 thousand | `RecordingEnds` |
| `ProxySocket` | 652 thousand | `AnswersMatch`, `PushesInOrder`, `AnswersNotOvertaken`, `FramesDelivered` for AMQP, Redis and MQTT with three requests and two pushes |
| `Replay` | 2.2 million | `AnswersAsRecorded`, `NoCallLost`, `MessagesFollowSubscription`, `MessagesInOrder`, `AllCallbacksReplayed` with two clients, while replaying is switched off and on |
| `UiPanels` | 0.9 million | `OpenIsStored`, `RestIsAsStored`, `ChangeIsComing` in one tab |
| `UiTabs` | 1.0 million | `LastStatusStored` with two tabs |
| `UiRequests` | 125 thousand | `TimerForEveryNote`, `NotesVanish` |
| `UiUpload` | 1.6 thousand | `NamedFileSent`, `NamedFileArrives` |

Runs that show a disagreement (`findings` in `PROJECT.json` quotes the texts):

| Run | Shows |
|---|---|
| `ProxyFragments` | Redis: an answer that arrives in two reads closes the channel to the server |
| `UiStale` | a click on Start of the wildcard panel leaves the panel of the first of two protocols with the old status |

### Known disagreements without a run

The modules hold these behaviours as well; each shows when the named configuration checks the
property with the values below.

| Configuration | Property | Shows |
|---|---|---|
| `ProtoServed` with `Machines <- MCFragments` | `FragmentKeepsPlace` | MySQL: the beginning of a packet moves the machine past the state that asked for more data, where the comment at `protocol/context/NetworkProtoContext.java:291` says "just continue without doing nothing" |
| `ProtoServed` with `Machines <- MCMqtt` | `ConformingClientServed` | MQTT: a `Publish` whose optional `PublishRel` has not come makes the connection refuse `PingReq` |
| `RecordingStop` with `Quits = {"console"}` | `RecordingComplete` | `Q` on the console loses the index of a running recording |
| `RecordingStop` with two `Instances` | `UniqueProgressiveIds` | two protocols that start recording over earlier recordings can be given the same id, where the comment at `storage/FileStorageRepository.java:272` says "Create unique progressive id" |
| `RecordingStop` | `CallsUndisturbed` | a call under way when recording is switched on fails in the record plugin |
| `ProxySocket` | `ServerOrderKept` | a frame the server pushed before the answer to the request under way reaches the client after that answer, since its task waits behind the one that reads (protocol-amqp-091 `README.md:3`: "two-way transparent proxy") |

The model has two more, which `ConformingClientServed` exempts by the names of the events: a client
of PostgreSQL or AMQP whose frame arrives in two pieces is closed when the first is shorter than the
header (`Stub`) or lacks only the last byte (`Short`). `PostgresPacketTranslator.java:39` asks for
`length` of `length + 1` bytes and `AmqpFrameTranslator.java:69` for `size + 7` of `size + 8`,
against the comment at `protocol/states/ProtoState.java:180`, "In case of missing data ask for
more."

Three more were met while modelling and no configuration here explores them. A Redis client that
subscribed to two channels gets no replayed messages of the first, since the context keeps only the
last (protocol-redis `fsm/Resp3Subscribe.java:79`, against protocol-redis `README.md:41`). An upload
that is refused is not told, since `send_file` uses a name it does not have (`utils.js:274`). A file
that was cleaned cannot be chosen again, since the input still holds it (`utils.js:282`).

### Bounds, and why they are enough

* `MaxDepth = 10` is the limit the code has (`ProtoContext.java:446`), not a bound of the model.
  Runs of `ProtoContext` have no bound on the number of frames: stacks and expectations are finite,
  so connections of any length are covered. `Pipelined` bounds the events that wait when a frame is
  sent. One is enough for a frame to come between another frame and the event it decodes to. It is
  zero for MySQL, whose context handles a frame and all it unfolds into on the reading thread, for
  MongoDB, whose client waits for its reply, and, to keep the run small, with two channels.
* `EventsQueue`: one sender of two events, two handlers, two instances. More senders, events and
  instances are the business of the theorems; the run checks the liveness and the formulas the
  theorems prove.
* `Recording`: two calls, three switches and two starts are enough for a recording over an earlier
  one (`Init` lets the disk have one), a second session in the same process, and one after restart.
* `ProxySocket`: three requests of two kinds allow a late answer to meet a request of its kind with
  another in between; two pushes can be swapped or doubled.
* `Replay`, which the theorems free of its bounds: the flow has six lines: a callback before any
  call, a subscription, a publication by the other client, two callbacks whose timestamps are not in
  the order of their ids, and a publication by the subscriber. Two switches are a whole off and on,
  two connections those before and after it; one client may make its last call once more. Three
  modes: calls without tags whose clients keep their order (Redis), with tags and in any order
  (MQTT), with tags and the server reachable.
* `UiPanels`: the three panels of a page with one protocol, two actions of the user (`MaxActs`:
  clicks on panels and commands), in one tab: a reload, and a panel that settles, can meet a click,
  a timer or another reload. `UiTabs`: two panels in two tabs, three clicks, two visits, one clean:
  a status can be stored, cleaned and stored again from another tab.
* `UiRequests`: two calls, one load, two clicks: a page is reloaded under a request in flight, and a
  notification is closed twice. The theorems have no bound.
* `UiUpload`: three choices are needed to choose, clean and choose another file, or the same again;
  two uploads can overtake each other. The theorems have no bound.

No run checks for deadlock: a client may stop sending, and bounded actors come to their bound.

### Exemptions

* `Hasty = FALSE` in `RecordingStop`: recording is switched on again only after the queue has
  handled what an earlier session of the protocol sent. With `Hasty = TRUE` the properties fail
  even with one protocol: the activation finds the repository of the session that is about to be
  finalized, and calls get ids before `initializeContentForWrite` sets the counter.
* `timedOut`: a wait of at most a second that was too short excuses `RecordingComplete`,
  `NothingOverwritten` and `RecordingEnds`.
* Kill: `RecordingComplete` and `NothingOverwritten` do not hold after one, since the index is
  written only at the end of a recording. `IndexDescribesFiles` holds after kills and after waits that
  were too short, but for the one line the executor had added and not written when the index was
  written (`torn`): its file comes a moment later, or never when the process ends there.
* `RecordingComplete` asks for the lines sent before the recording was told to end (`inTime`).
* `IsEmptyMeansIdle`, `EmptyAgain` and `EventuallyHandled` are about the time before the first
  `clean`. `clean` drops what waits by design, and leaves the counter at -1 when a worker is busy.
* `ConformingClientServed` exempts the pieces `Stub` and `Short`, see the disagreements above, and
  nothing else a conforming client sends.
* `AnswersMatch`: after the wait for a request ran out (`gaveUp`), a later request like it may get the
  late answer, and then so may the ones after it. The code does this; the property says that nothing
  else is given: its own answer, or an older one that the state given to `read` does not tell apart
  (`Alike`) and only from the first wait that ran out on (`Unsure`), and no answer twice. For AMQP an
  optional answer is made up then. `FramesDelivered` excuses those answers, and everything once the
  channel is closed.
* Splitters that throw close the channel. `AnswersMatch`, `PushesInOrder`, `AnswersNotOvertaken` and
  `FramesDelivered` say what holds on the reads that do not, among them every read that ends between
  two frames, and for AMQP every read that does not end just before an end octet.
* `Replay`: `AnswersAsRecorded`, `NoCallLost`, `MessagesInOrder` and `AllCallbacksReplayed` are about
  sessions in which no call from before the session, or beyond the recorded flow, took part
  (`disturbed`). With such a call the plugin gives lines to whoever asks first; that no message is sent
  twice is claimed regardless. `AnswersAsRecorded` is about clients the plugin can tell apart
  (`Faithful`): they keep the order of the recording between them, or calls have tags and no two
  clients make calls of the same type with the same tags. `MessagesInOrder` and `AllCallbacksReplayed`
  are about clients that keep that order: the callbacks are taken by the calls, in the order these are
  made. `AllCallbacksReplayed` also asks that every callback was recorded after a subscription to its
  queue and, for Redis, that this was still the last subscription of its client (`Addressed`): the
  context of Redis keeps the last channel only. `NoCallLost` needs the lines to have been loaded: when
  the two seconds of `handleActivation` are too short, or the recording of the session before is
  dropped after they end, the plugin is active without lines. Clients that connected while replaying
  was being switched are not `Fresh`. `blockExternal` off: an answer may come from the server
  (`Upstream`).
* `UiPanels`: `disturbed` are the panels something overtook: they arrived after the timer of the
  footer, were opened while their reload was under way or had not settled, or were reloaded while
  another reload or their own timer was. `OpenIsStored` holds of them too. `broken`: a reload that
  was refused or failed is not tried again. `overlapped` excuses `LastStatusStored` from the moment
  two tabs were inside `setAccordionStatus` at once: the item is read and written back without a
  lock.

### Fairness

* `EventsQueue`: weak fairness of the worker (a thread that loops until told to stop, and yields)
  and of the steps inside `send` (a thread that has begun it has nothing to wait for). None for the
  senders' decision to send, for `register`, or for `clean`.
* `Recording`: weak fairness of the worker, the storage executor, the waits in `setActive` and
  `NettyServer.stop` (each ends after at most a second) and the steps of a stop. None for clients,
  administrator, kills or restarts.
* `ProxySocket`: weak fairness of the I/O thread and of the executor: its thread runs what is queued,
  and a `read` ends, with an answer or after two seconds. None for the server or the client: an answer
  may never come, and a wait may end at any time.
* `UiRequests`: weak fairness of the timers of notifications (a timer of a page fires). None for
  requests, which may be left without an answer, or for clicks.
* `UiUpload`: weak fairness of the reader (it ends with the content or an error) and of the answer to
  a post (the server answers or the connection ends, and `onreadystatechange` is called either way).

## 4. Proofs

`EventsQueueProofs` proves, for every finite set of senders, any handlers, and any bounds on events
and instances (`ConstantsAssumption`):

* `TypeCorrect`: `Spec => []TypeOK`. `TypeOK` is inductive as it stands; two of its parts are not
  types: a thread inside `send` has an event to send, and only workers of instances that were made
  exist.
* `OrderCorrect`: `Spec => []HandledInOrder`. What was polled says nothing of what still waits, so
  the invariant is about the history of an instance, `polled \o items`: it is ordered per sender
  (`OrderInv`), every event in it was sent before the one its sender is sending, and a send in
  progress is later than all of them. `Poll` leaves the history as it is, `SendAdds` appends to it,
  and `CleanItems` cuts it to `polled`, a prefix. The lemmas `PollKeepsHistory`,
  `AddExtendsHistory`, `PrefixOfHistory` and `AppendOrdered` say this of sequences.
* `SizeCorrect`: `Spec => []IsEmptyMeansIdle`. The invariant `SizeCounts` says what the counter
  counts until the first `clean`: the events that wait, the threads inside `send`, and the event in
  the worker's hands. It uses the cardinality of finite sets.

`EventDeliveryProofs` proves, under the same assumption:

* `DeliveryImplemented`: `Spec => ImplementsDelivery`. Every step but `Poll` maps to a step of
  `EventDelivery` or to a stutter by its definition. `Poll` has to handle an event that was sent,
  that no instance has handled, and that is later than what this instance handled of its sender.
  The first and the last follow from `OrderInv`: the event is the one after `polled` in the history of
  the instance (`HeadFollows`, `PolledInHistory`). For the second, `OrderInv` tells events of one
  instance apart; between instances a second invariant is needed, `ApartInv`: no event is in the
  histories of two instances. It holds since what a sender adds is later than everything it added
  before (`AddIsNew`), and a sender adds an event once, to the instance it aimed at.

`UiRequestsProofs` proves, for any finite sets of calls and loads and any bound on clicks
(`RequestsAssumption`):

* `RequestTypes`, `TimersCorrect`: `Spec => []TypeOK`, `[]TimerForEveryNote`. The inductive
  invariant `IInv` adds `NotedOnce` (a notification exists only for a request that has ended, so
  `show` never shows one that is there) and `RemovedClosed` (a timer that removes belongs to a
  notification that fades or is gone, so it never removes one whose own timer is running).

`UiUploadProofs` proves, for any files and any place of the elements (`UploadAssumption`):

* `UploadTypes`, `UploadCorrect`: `Spec => []TypeOK`, `[]NamedFileSent`. The inductive invariant adds
  `BoxNamesSelected`: while the change event is kept, the page has a box and it names the file the
  input holds.

`UiPanelsProofs` proves, for any protocols and any number of visits, clicks and commands
(`PanelsAssumption`):

* `TypeCorrect`: `Spec => []TypeOK` for any tabs, from `TypeInv`: the types, and what links the
  variables (`Links`): a timer, a request or a panel that settles is one that is there, no more
  timers are from before a swap than there are, a request waits in the queue only behind another, a
  task between `getItem` and `setItem` has a status to store.
* `StoredLast`: `Spec => []LastStatusStored` for any tabs. Until two tabs were inside
  `setAccordionStatus` at once, what a tab read is still what is stored (`StoreInv`).
* `OpenStored`, `RestStored`: `Spec => []OpenIsStored`, `[]RestIsAsStored` for one tab whose stored
  status is not cleaned, as the properties are about what this page does; another tab, or a clean,
  changes the store under a page that is shown. `OneTabInv` says that what is still to be stored agrees
  with the page (`StoresAsShown`), and that a closed panel nothing overtook has a timer that will open
  it, a close still to be stored, or is not stored as open, and one that is open and will be closed when
  it settles has a timer that was set after the swap (`Undisturbed`).
* `ChangeComes`: `Spec => []ChangeIsComing` for any tabs. `ChangeOnItsWay` says where the last change
  is: behind a request in the queue, in the request in flight or, when there is none, in some panel.
  Needed with it: a button whose call is under way belongs to a panel that is there, so `Latest` does
  not rise without a reload.

`ProxySocketProofs` proves, for any of the three protocols, any kinds of requests, and any number of
requests and pushed frames (`ConstantsAssumption`):

* `SocketTypes`, `AnswersCorrect`, `PushesCorrect`, `OvertakingCorrect`: `Spec => []TypeOK`,
  `[]AnswersMatch`, `[]PushesInOrder`, `[]AnswersNotOvertaken`. One invariant, `SocketInv`, gives
  all four. There is a `k` such that the first `k` frames were split off and the parts of the others
  are, in order and without a gap, in `tempBuffer` and on the wire (`Stream`); what is past `onRead`
  is among the first `k` (`SplitOff`), no frame is in two places (`Once`), and pushes are in order
  in the executor and behind those the client has (`InOrder`). Requests are answered in the order
  they were made (`Asked`); an answer still to come, or not yet taken, is the one being read or one
  after a wait for a request like it ran out (`Waits`), which is why a match by kind returns the
  right one or one the property allows (`Fitting`). `Ahead`: while a call is made, no frame pushed
  after its answer is with the client. `SplitFrame` is the step from `k` to `k + 1`; every other
  step keeps `k`.

`RecordingProofs` proves, for any threads and any number of calls, switches, starts and kills
(`ConstantsAssumption`), when recording is not switched on hastily (`~Hasty`, see the exemptions):

* `RecordingTypes`: `Spec => []TypeOK` for any instances. `TypeInv` adds what bounds the ids
  (`Bounded`), what the flags of administrator and stop say together (`Switching`), that the start of a
  recording is the first event its instance has in the queue (`Queue`), and that an active plugin has
  its repository until its server is told to stop (`Repos`), which is why `generateIndex` finds one.
* `IndexCorrect`: `Spec => []IndexDescribesFiles` for one instance, with kills, waits that are too
  short, an index written between any two steps of the executor, and exits by the console. `IdsInv`
  says that the counter is past every id in the index, in a repository or in play, the last being the
  ids of calls under way, in the queue and with the executor (`Counter`, `InPlay`); that an id is of one
  call wherever it is (`SameCall`); and that lines marked as stored describe their files, but for the
  one the executor is writing and those in `torn` (`Describes`).
* `RecordedAll`: `Spec => []RecordingComplete` for any instances, without the console. Until a kill or
  a wait that is too short, `CompleteInv` says that a recording that was told to end has its end in the
  queue (`Ends`), and that every line sent in time is in the repository, or on its way to it and ahead
  of that end, or in the index file (`Kept`).
* `ItemsKept`: `Spec => NothingOverwritten`, an action property, for one instance without the console,
  from both invariants and `FilesOfCalls`: a line still to be written does not have the id of a file of
  another call.

One instance and no console are conditions the code needs: two protocols can be given the same id, and
`Q` on the console loses an index (both in the table of section 3).

`ReplayProofs` proves, for any recording in which every client makes a call, any modes, and any
number of clients, connections and switches (`RecordingAssumption`):

* `ReplayTypes`: `Spec => []TypeOK`. `TypeInv` adds what the thread of the executor has in hand
  (`Hands`), that an open context is the last one of its client and that what waits is for contexts
  opened before (`Opened`), and the flags and contexts there are while replaying is switched
  (`Switched`).
* `CallsKept`: `Spec => []NoCallLost`. `CallInv` says that a client has one call under way at most, the
  one it sent last (`OneCall`), and counts: of the lines a call may match, no more were used than calls
  of that kind were served (`Counted`). A call that was not served therefore finds a free line
  (`LineIsFree`), whichever lines the others took.
* `AnswersCorrect`: `Spec => []AnswersAsRecorded`. Counting does not say which line; `RecallInv` says
  that a line is used by its own call only (`Recalled`). The line found is the call's own since it is
  free, and a better or earlier one that is free would belong to a call that comes before, by the order
  of the clients (`Turns`) or by the tags (`FindsItsOwn`). Contexts left over from before the session
  have no answer from its lines (`Strays`).
* `MessagesFollow`: `Spec => []MessagesFollowSubscription`. `OnceInv`: the callbacks a context got,
  those being sent and those in the queue form one line without a repetition, all of them taken
  (`LineUp`, `GivenTaken`); while replaying is off, contexts that will stay have none (`NoneLeft`),
  so that clearing `completedOutIndexes` makes no callback come twice. `FollowInv`: a queue is in a
  context only with a subscription that was answered or is ahead in the queue of the executor
  (`Subscriptions`), and the callbacks given stay behind it (`Follows`).
* `MessagesOrdered`: `Spec => []MessagesInOrder`. `OrderInv` says that the same line is sorted as the
  recording is, and that each callback in it belongs to a call that was answered (`Ordered`). A new
  batch goes last: the call that takes it is later than every call answered (`InTurnBefore`), and
  within the batch the timestamps decide.
* `CallbacksReplayed`: `Spec => []AllCallbacksReplayed`. `ReachInv` follows a callback: the queue of
  a subscription that is answered or under way is in the context (`AllNoted`), so the call before the
  callback takes it (`TakesAll`, `AllTaken`); what was taken is with an open context, in the result
  being sent, or in the queue (`OnItsWay`), and a batch is for open contexts or for none
  (`AllWhole`), so the exception that ends the sending of one drops no callback of an open context.

TLC checks each of these invariants on small flows (the conjuncts can be added to `Replay.cfg` in a
module that extends `ReplayProofs`).

Only model-checked:

* liveness, which is out of the prover's reach: `EventuallyHandled`, `EmptyAgain`, `RecordingEnds`,
  `FramesDelivered`, `NotesVanish`, `NamedFileArrives`;
* `ProtoContext` with `ProtoStates` and `Protocols`: the search and the reference meaning of a
  declaration are recursive operators, which the prover does not reason about.

## 5. Not modelled

* Byte layouts, TLS, SQL and JDBC conversion, HTTP filters, certificates, DNS, templates: data and
  I/O with little control of their own.
* The upstream part of a state's `execute` in `ProtoContext`; `ProxySocket` has the calls it makes.
* `sendAndForget`, `sendBytesAndExpect`, requests with several answers, connecting and closing of
  the upstream socket.
* Pieces of frames of MySQL and MongoDB, whose leaves read the bytes themselves, in the runs (see the
  disagreements); their length fields cut in two.
* The cache of contexts and its timer; the executor that all contexts share.
* Deletion, update, import and export of recordings; `clean` of the storage.
* `registerCommand` of the queue, which nothing calls.
* Replay: `sendAndForget`; the plugins of HTTP (which answers on the threads of its own server), JDBC
  and AMQP; recording and replaying one protocol at once; `resetConnectionsOnStart` switched off. The
  recorded intervals between callbacks: anything may happen while the thread sleeps.
* Web UI: the values of forms (`utils.js:5-42`), `deepClone`, the JSON encoding for htmx, download and
  indentation, which are conversions without state; the modal window, which no page opens; the
  templates; Swagger UI, which is third-party.

## 6. Plan

1. Contexts: the cache, its timer against a reacting thread, disconnect, several contexts on the
   one-thread executor with the sockets they wait on (a composition with `ProxySocket`).
2. Mock counters and the HTTP rate limit: counters shared by concurrent requests.
3. `ProtoContext`: pieces of frames of MySQL and MongoDB; MQTT exchanges of QoS 1 and 2.
4. Storage: `clean` and deletion of recordings; an abstract recorder (a set of finished recordings)
   that `Recording` implements, and the recording `Replay` starts from as one of them.
5. Proofs: `Recording` and `Replay` composed, so that what a session records is what a later one
   replays; `Replay` with several subscribers of a queue, each to get its own copy of a callback.
