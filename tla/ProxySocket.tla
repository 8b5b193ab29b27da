---------------------------- MODULE ProxySocket ----------------------------
(***************************************************************************)
(* The socket to the upstream server (BaseProxySocket, NettyProxySocket)   *)
(* and the calls made through it (NetworkProxy.sendAndExpect), for one     *)
(* connection of the protocols that use it: AMQP, Redis and MQTT.          *)
(*                                                                         *)
(* Two threads meet here.  The I/O thread appends what comes from the      *)
(* server to tempBuffer and splits it into frames: a frame that one of     *)
(* availableStates() can run (a delivery, a published message) is handed   *)
(* to runSteps, which makes it a task of the executor, any other is put in *)
(* inputQueue.  The one thread of the executor runs the tasks in order: it *)
(* writes a pushed frame to the client, or it writes a request to the      *)
(* server, looks for an answer in inputQueue for two seconds, and writes   *)
(* that to the client.  What a task throws is lost with the task: neither  *)
(* the client nor the channel is closed.                                   *)
(*                                                                         *)
(* A frame is sent in three parts: its header with some of its content,    *)
(* what is left but for the last byte, and the last byte.                  *)
(***************************************************************************)
EXTENDS Integers, Sequences, SequencesExt, FiniteSets

CONSTANTS
    Protocols,      \* the protocols explored, some of "amqp", "redis", "mqtt"
    Kinds,          \* kinds of requests, each answered by a frame of its kind
    Optional,       \* kinds whose answer AMQP does not insist on
    MaxRequests,    \* bound: requests of the client
    MaxPushes       \* bound: frames the server sends of its own accord

ASSUME ConstantsAssumption ==
    /\ Protocols \subseteq {"amqp", "redis", "mqtt"}
    /\ Optional \subseteq Kinds
    /\ MaxRequests \in Nat /\ MaxPushes \in Nat

VARIABLES
    protocol,
    unanswered,     \* the server: requests it has not answered, oldest first
    sent,           \* the server: every frame it sent, in order
    wire,           \* the parts on their way
    channelOpen,    \* the channel to the server
    tempBuffer,     \* the parts that came and were not split off
    ioPc,           \* the I/O thread: "idle" or in the loop of onRead
    inputQueue,     \* frames handed to the calls
    tasks,          \* pushed frames whose task waits in the executor
    received,       \* frames the calls took, and have not used
    callPc,         \* the thread of the executor
    call,           \* the last request it made
    answer,         \* the frame it found
    toClient,       \* what was written to the client, in order
    gaveUp          \* the requests whose two seconds ran out

server == <<unanswered, sent>>
io     == <<tempBuffer, ioPc>>
queues == <<inputQueue, tasks>>
caller == <<callPc, call, answer>>
vars   == <<protocol, server, wire, channelOpen, io, queues, received, caller, toClient, gaveUp>>

Request(n, kind) == [n |-> n, kind |-> kind]
NoRequest == Request(0, "none")

(* A frame: its place among those the server sent and the request it       *)
(* answers, if any.                                                        *)
Frame(n, of) == [n |-> n, of |-> of]
NoFrame == Frame(0, NoRequest)
IsPush(f) == f.of = NoRequest

Parts(f) == <<[frame |-> f, part |-> 1], [frame |-> f, part |-> 2], [frame |-> f, part |-> 3]>>

Init ==
    /\ protocol \in Protocols
    /\ unanswered = <<>> /\ sent = <<>> /\ wire = <<>>
    /\ channelOpen = TRUE
    /\ tempBuffer = <<>> /\ ioPc = "idle"
    /\ inputQueue = <<>> /\ tasks = <<>> /\ received = <<>>
    /\ callPc = "idle" /\ call = NoRequest /\ answer = NoFrame
    /\ toClient = <<>> /\ gaveUp = {}

-----------------------------------------------------------------------------
(* The server answers requests in order, and may push a frame once it got  *)
(* a request (a subscription).                                             *)
ServerSends(of) ==
    LET f == Frame(Len(sent) + 1, of)
    IN  /\ sent' = Append(sent, f)
        /\ wire' = wire \o Parts(f)

ServerAnswers ==
    /\ channelOpen /\ unanswered # <<>>
    /\ ServerSends(Head(unanswered))
    /\ unanswered' = Tail(unanswered)
    /\ UNCHANGED <<protocol, channelOpen, io, queues, received, caller, toClient, gaveUp>>

ServerPushes ==
    /\ channelOpen /\ call # NoRequest
    /\ Cardinality({i \in DOMAIN sent : IsPush(sent[i])}) < MaxPushes
    /\ ServerSends(NoRequest)
    /\ UNCHANGED <<protocol, unanswered, channelOpen, io, queues, received, caller, toClient, gaveUp>>

-----------------------------------------------------------------------------
(* channelRead0: the bytes of one read, which may end anywhere in a frame, *)
(* are appended to tempBuffer.                                             *)
ChannelRead ==
    /\ channelOpen /\ ioPc = "idle"
    /\ \E k \in DOMAIN wire :
        /\ tempBuffer' = tempBuffer \o SubSeq(wire, 1, k)
        /\ wire' = SubSeq(wire, k + 1, Len(wire))
    /\ ioPc' = "onRead"
    /\ UNCHANGED <<protocol, server, channelOpen, queues, received, caller, toClient, gaveUp>>

(***************************************************************************)
(* GenericFrame.canRun and split on a buffer that starts with a header.    *)
(* An incomplete frame makes the ones of Redis and MQTT throw; the one of  *)
(* AMQP answers no, unless only the last byte is missing: it does not      *)
(* count that byte, and split fails to read it.                            *)
(***************************************************************************)
GenericFrame(buffer) ==
    CASE Len(buffer) >= 3 -> "frame"
      [] Len(buffer) = 2 \/ (Len(buffer) = 1 /\ protocol # "amqp") -> "throws"
      [] OTHER -> "none"

Written(f, request) == toClient' = Append(toClient, [frame |-> f, call |-> request])

(* A frame that is split off goes to the executor or to inputQueue.        *)
HandedOver(f) ==
    IF IsPush(f) THEN tasks' = Append(tasks, f) /\ UNCHANGED inputQueue
    ELSE inputQueue' = Append(inputQueue, f) /\ UNCHANGED tasks

(* Mutant: tempBuffer is truncated only after a frame that is queued.      *)
PushStays ==
    /\ ioPc = "onRead" /\ GenericFrame(tempBuffer) = "frame"
    /\ LET f == tempBuffer[1].frame
       IN  /\ HandedOver(f)
           /\ tempBuffer' = IF IsPush(f) THEN tempBuffer ELSE SubSeq(tempBuffer, 4, Len(tempBuffer))
    /\ UNCHANGED <<protocol, server, wire, channelOpen, ioPc, received, caller, toClient, gaveUp>>

(* Mutant: one byte too many is cut off.                                   *)
TruncatesTooMuch ==
    /\ ioPc = "onRead" /\ GenericFrame(tempBuffer) = "frame"
    /\ HandedOver(tempBuffer[1].frame)
    /\ tempBuffer' = SubSeq(tempBuffer, 5, Len(tempBuffer))
    /\ UNCHANGED <<protocol, server, wire, channelOpen, ioPc, received, caller, toClient, gaveUp>>

(* Mutant: run stays false after a frame is queued, and the loop ends.     *)
RunNotSet ==
    /\ ioPc = "onRead" /\ GenericFrame(tempBuffer) = "frame"
    /\ LET f == tempBuffer[1].frame
       IN  HandedOver(f) /\ ioPc' = IF IsPush(f) THEN "onRead" ELSE "idle"
    /\ tempBuffer' = SubSeq(tempBuffer, 4, Len(tempBuffer))
    /\ UNCHANGED <<protocol, server, wire, channelOpen, received, caller, toClient, gaveUp>>

(* Mutant: the I/O thread runs the steps of a pushed frame itself.         *)
PushesAtOnce ==
    /\ ioPc = "onRead" /\ GenericFrame(tempBuffer) = "frame"
    /\ LET f == tempBuffer[1].frame
       IN  IF IsPush(f) THEN Written(f, NoRequest) /\ UNCHANGED queues
           ELSE HandedOver(f) /\ UNCHANGED toClient
    /\ tempBuffer' = SubSeq(tempBuffer, 4, Len(tempBuffer))
    /\ UNCHANGED <<protocol, server, wire, channelOpen, ioPc, received, caller, gaveUp>>

(* onRead: one round of the loop that finds a frame.                       *)
SplitFrame ==
    /\ ioPc = "onRead" /\ GenericFrame(tempBuffer) = "frame"
    /\ HandedOver(tempBuffer[1].frame)
    /\ tempBuffer' = SubSeq(tempBuffer, 4, Len(tempBuffer))
    /\ UNCHANGED <<protocol, server, wire, channelOpen, ioPc, received, caller, toClient, gaveUp>>

(* onRead: the loop ends and what is left waits for the next bytes.        *)
NothingToSplit ==
    /\ ioPc = "onRead" /\ GenericFrame(tempBuffer) = "none"
    /\ ioPc' = "idle"
    /\ UNCHANGED <<protocol, server, wire, channelOpen, tempBuffer, queues, received, caller,
                   toClient, gaveUp>>

(* onRead throws: exceptionCaught closes the channel.                      *)
SplitFails ==
    /\ ioPc = "onRead" /\ GenericFrame(tempBuffer) = "throws"
    /\ ioPc' = "idle"
    /\ channelOpen' = FALSE
    /\ UNCHANGED <<protocol, server, wire, tempBuffer, queues, received, caller, toClient, gaveUp>>

-----------------------------------------------------------------------------
(***************************************************************************)
(* The task of a request: sendAndExpect writes it, and on a closed channel *)
(* that throws.  The task may have come to the executor before those in    *)
(* tasks, or after them.                                                   *)
(***************************************************************************)
SendAndExpect(kind) ==
    /\ callPc = "idle"
    /\ call.n < MaxRequests
    /\ call' = Request(call.n + 1, kind)
    /\ IF channelOpen
       THEN unanswered' = Append(unanswered, call') /\ callPc' = "read"
       ELSE UNCHANGED <<unanswered, callPc>>
    /\ UNCHANGED <<protocol, sent, wire, channelOpen, io, queues, received, answer, toClient, gaveUp>>

(* The state given to read: Resp3Response runs any message, the others     *)
(* those of one kind.                                                      *)
CanRun(f) == protocol = "redis" \/ f.of.kind = call.kind

Hits(frames) == {i \in DOMAIN frames : CanRun(frames[i])}
First(hits)  == CHOOSE i \in hits : \A j \in hits : i <= j

(* Mutant: the frame found stays among the received ones.                  *)
AnswerStays ==
    /\ callPc = "read"
    /\ LET frames == received \o inputQueue
           hits == Hits(frames)
       IN  /\ inputQueue # <<>> \/ hits # {}
           /\ received' = frames
           /\ IF hits = {} THEN UNCHANGED <<callPc, answer>>
              ELSE answer' = frames[First(hits)] /\ callPc' = "found"
    /\ inputQueue' = <<>>
    /\ UNCHANGED <<protocol, server, wire, channelOpen, io, tasks, call, toClient, gaveUp>>

(* read: one round.  inputQueue is emptied into received, and the first    *)
(* frame there that the state can run is taken.                            *)
Read ==
    /\ callPc = "read"
    /\ LET frames == received \o inputQueue
           hits == Hits(frames)
       IN  /\ inputQueue # <<>> \/ hits # {}
           /\ IF hits = {}
              THEN received' = frames /\ UNCHANGED <<callPc, answer>>
              ELSE /\ received' = RemoveAt(frames, First(hits))
                   /\ answer' = frames[First(hits)]
                   /\ callPc' = "found"
    /\ inputQueue' = <<>>
    /\ UNCHANGED <<protocol, server, wire, channelOpen, io, tasks, call, toClient, gaveUp>>

(* read: the two seconds are over.  An optional answer is made up, without *)
(* another one read throws and the task ends.                              *)
ReadTimesOut ==
    /\ callPc = "read" /\ Hits(received) = {}
    /\ gaveUp' = gaveUp \cup {call}
    /\ IF protocol = "amqp" /\ call.kind \in Optional
       THEN answer' = NoFrame /\ callPc' = "found"
       ELSE callPc' = "idle" /\ UNCHANGED answer
    /\ UNCHANGED <<protocol, server, wire, channelOpen, io, queues, received, call, toClient>>

(* runSteps writes what sendAndExpect returned.                            *)
AnswerClient ==
    /\ callPc = "found"
    /\ Written(answer, call)
    /\ callPc' = "idle"
    /\ answer' = NoFrame
    /\ UNCHANGED <<protocol, server, wire, channelOpen, io, queues, received, call, gaveUp>>

(* The task of a pushed frame: runSteps writes it.                         *)
PushClient ==
    /\ callPc = "idle" /\ tasks # <<>>
    /\ Written(Head(tasks), NoRequest)
    /\ tasks' = Tail(tasks)
    /\ UNCHANGED <<protocol, server, wire, channelOpen, io, inputQueue, received, caller, gaveUp>>

-----------------------------------------------------------------------------
IoThread == ChannelRead \/ SplitFrame \/ NothingToSplit \/ SplitFails
Executor == Read \/ ReadTimesOut \/ AnswerClient \/ PushClient

Next ==
    \/ ServerAnswers \/ ServerPushes
    \/ IoThread
    \/ \E kind \in Kinds : SendAndExpect(kind)
    \/ Executor

Spec == Init /\ [][Next]_vars

(* Both threads keep running, and the two seconds of read end; nothing is  *)
(* said of the server.                                                     *)
FairSpec == Spec /\ WF_vars(IoThread) /\ WF_vars(Executor)

-----------------------------------------------------------------------------
Requests == [n : 1..MaxRequests, kind : Kinds]
Frames   == [n : 1..(MaxRequests + MaxPushes), of : Requests \cup {NoRequest}]

(* The types, and: tempBuffer starts with the header of a frame, pushed    *)
(* frames are handed to the executor and no others.                        *)
TypeOK ==
    /\ protocol \in Protocols
    /\ channelOpen \in BOOLEAN /\ gaveUp \subseteq Requests
    /\ ioPc \in {"idle", "onRead"} /\ callPc \in {"idle", "read", "found"}
    /\ call \in Requests \cup {NoRequest}
    /\ answer \in Frames \cup {NoFrame}
    /\ unanswered \in Seq(Requests) /\ sent \in Seq(Frames)
    /\ inputQueue \in Seq(Frames) /\ received \in Seq(Frames) /\ tasks \in Seq(Frames)
    /\ wire \in Seq([frame : Frames, part : 1..3]) /\ tempBuffer \in Seq([frame : Frames, part : 1..3])
    /\ toClient \in Seq([frame : Frames \cup {NoFrame}, call : Requests \cup {NoRequest}])
    /\ tempBuffer # <<>> => Head(tempBuffer).part = 1
    /\ \A i \in DOMAIN inputQueue : ~IsPush(inputQueue[i])
    /\ \A i \in DOMAIN tasks : IsPush(tasks[i])

(* Requests whose answers the state given to read does not tell apart, and *)
(* the requests from the first one on whose two seconds ran out.           *)
Alike(g, r) == protocol = "redis" \/ g.kind = r.kind
Unsure(r)   == \E g \in gaveUp : g.n <= r.n /\ Alike(g, r)

(* A frame the client may get for a request: its answer, one made up, or a *)
(* late one.                                                               *)
Fits(f, r) ==
    \/ f.of = r /\ f # NoFrame
    \/ f = NoFrame /\ r \in gaveUp
    \/ ~IsPush(f) /\ f.of.n < r.n /\ Alike(f.of, r) /\ Unsure(f.of)

(***************************************************************************)
(* What the client gets for a request is the server's answer to it, made   *)
(* up only when its two seconds ran out; and no answer is given twice.  An *)
(* answer to an earlier request, which came too late and stayed in         *)
(* received, is given only for a request like it, and only after the wait  *)
(* for a request like it ran out.                                          *)
(***************************************************************************)
AnswersMatch ==
    /\ \A i \in DOMAIN toClient : Fits(toClient[i].frame, toClient[i].call)
    /\ \A i, j \in DOMAIN toClient :
          i # j /\ toClient[i].frame # NoFrame => toClient[i].frame # toClient[j].frame

Pushed(f)     == IsPush(f) /\ f # NoFrame
OnItsWay(f)   == \/ \E i \in DOMAIN tempBuffer : tempBuffer[i].frame = f
                 \/ \E i \in DOMAIN wire : wire[i].frame = f
InTasks(f)    == \E i \in DOMAIN tasks : tasks[i] = f
WithClient(f) == \E i \in DOMAIN toClient : toClient[i].frame = f

(***************************************************************************)
(* The frames the server pushes reach the client in order, however the     *)
(* bytes are cut and whatever the client is waiting for in the meantime: a *)
(* pushed frame is on its way, waits for the executor, or is with the      *)
(* client, and only one of them.                                           *)
(***************************************************************************)
PushesInOrder ==
    /\ \A i \in DOMAIN toClient : LET f == toClient[i].frame IN
           Pushed(f) => f.n \in DOMAIN sent /\ sent[f.n] = f
    /\ \A i, j \in DOMAIN toClient :
           i < j /\ Pushed(toClient[i].frame) /\ Pushed(toClient[j].frame)
               => toClient[i].frame.n < toClient[j].frame.n
    /\ \A n \in DOMAIN sent : IsPush(sent[n]) =>
           /\ OnItsWay(sent[n]) <=> ~(InTasks(sent[n]) \/ WithClient(sent[n]))
           /\ ~(InTasks(sent[n]) /\ WithClient(sent[n]))

(***************************************************************************)
(* A pushed frame never overtakes an answer the server sent before it: its *)
(* task waits behind the one that reads the answer.  (The other way round  *)
(* happens, see ServerOrderKept; so does a push before an answer that came *)
(* too late.)                                                              *)
(***************************************************************************)
AnswersNotOvertaken ==
    \A i, j \in DOMAIN toClient :
        (/\ i < j /\ Pushed(toClient[i].frame)
         /\ toClient[j].call # NoRequest /\ toClient[j].frame.of = toClient[j].call)
            => toClient[i].frame.n < toClient[j].frame.n

(***************************************************************************)
(* onRead, "APPEND TO EXISTING BUFFER", and canRunEvent, "In case of       *)
(* missing data ask for more": bytes that end in the middle of a frame do  *)
(* not make the proxy close its channel to the server.                     *)
(***************************************************************************)
FragmentsJoined == channelOpen

(***************************************************************************)
(* "Create a two-way transparent proxy": the client gets the frames of the *)
(* server in the order the server sent them.                               *)
(***************************************************************************)
ServerOrderKept ==
    \A i, j \in DOMAIN toClient : i < j => toClient[i].frame.n < toClient[j].frame.n

(***************************************************************************)
(* Every frame the server has sent reaches the client, however it is cut   *)
(* and whatever came before it in the same bytes, unless the channel was   *)
(* closed; an answer may stay in received for good only after the wait for *)
(* a request like it ran out.  (None of these is undone, and the server    *)
(* sends so many frames only: again and again they hold of all it sent.)   *)
(***************************************************************************)
FramesDelivered ==
    []<>(\A n \in DOMAIN sent :
            \/ WithClient(sent[n])
            \/ ~channelOpen
            \/ ~IsPush(sent[n]) /\ Unsure(sent[n].of))
=============================================================================
