------------------------- MODULE ProxySocketProofs -------------------------
(***************************************************************************)
(* The socket to the server, for any protocols, kinds of requests, number  *)
(* of requests and number of pushed frames.                                *)
(***************************************************************************)
EXTENDS ProxySocket, TLAPS, FiniteSetTheorems, SequenceTheorems, WellFoundedInduction

FrameParts == [frame : Frames, part : 1..3]
Writes     == [frame : Frames \cup {NoFrame}, call : Requests \cup {NoRequest}]
PushesIn(frames) == {i \in DOMAIN frames : IsPush(frames[i])}

(* The types of TypeOK, of every variable.                                 *)
Typed ==
    /\ protocol \in Protocols
    /\ channelOpen \in BOOLEAN /\ gaveUp \subseteq Requests
    /\ ioPc \in {"idle", "onRead"} /\ callPc \in {"idle", "read", "found"}
    /\ call \in Requests \cup {NoRequest}
    /\ answer \in Frames \cup {NoFrame}
    /\ unanswered \in Seq(Requests) /\ sent \in Seq(Frames)
    /\ inputQueue \in Seq(Frames) /\ received \in Seq(Frames) /\ tasks \in Seq(Frames)
    /\ wire \in Seq(FrameParts) /\ tempBuffer \in Seq(FrameParts)
    /\ toClient \in Seq(Writes)

(* The server numbers its frames; it answers a request once, and sends no  *)
(* more than its bound of other frames.                                    *)
Numbered ==
    /\ \A i \in DOMAIN sent : sent[i].n = i
    /\ Cardinality(PushesIn(sent)) <= MaxPushes
    /\ Len(sent) - Cardinality(PushesIn(sent)) + Len(unanswered) <= call.n

(* A part is where the bytes of the server have it.                        *)
InPlace(frames, p, pos) ==
    /\ p.frame.n \in DOMAIN frames /\ p.frame = frames[p.frame.n]
    /\ 3 * (p.frame.n - 1) + p.part = pos

(* The first k frames were split off, the parts of the others are, in      *)
(* order, in tempBuffer and on the wire.                                   *)
Stream(k) ==
    /\ Len(tempBuffer) + Len(wire) = 3 * (Len(sent) - k)
    /\ \A i \in DOMAIN tempBuffer : InPlace(sent, tempBuffer[i], 3 * k + i)
    /\ \A i \in DOMAIN wire : InPlace(sent, wire[i], 3 * k + Len(tempBuffer) + i)

(* The frames calls may take, in the order they look at them.              *)
Held == received \o inputQueue

Known(frames, f, k) == f.n \in 1..k /\ frames[f.n] = f

(* Every frame past onRead is one of the first k the server sent; those    *)
(* for the calls are not pushed, the others are.                           *)
SplitOff(k) ==
    /\ \A i \in DOMAIN toClient : toClient[i].frame # NoFrame => Known(sent, toClient[i].frame, k)
    /\ \A i \in DOMAIN tasks : Known(sent, tasks[i], k) /\ IsPush(tasks[i])
    /\ \A i \in DOMAIN Held : Known(sent, Held[i], k) /\ ~IsPush(Held[i])
    /\ answer # NoFrame => Known(sent, answer, k) /\ ~IsPush(answer)

(* No frame is in two places.                                              *)
Once ==
    /\ \A i, j \in DOMAIN toClient :
          i # j /\ toClient[i].frame # NoFrame => toClient[i].frame # toClient[j].frame
    /\ \A i \in DOMAIN toClient : toClient[i].frame # NoFrame =>
          toClient[i].frame # answer /\ \A j \in DOMAIN Held : Held[j] # toClient[i].frame
    /\ answer # NoFrame => \A j \in DOMAIN Held : Held[j] # answer

(* Pushed frames stay in order and none of the first k is dropped; so do   *)
(* the frames for the calls.                                               *)
InOrder(k) ==
    /\ \A i, j \in DOMAIN toClient :
          i < j /\ Pushed(toClient[i].frame) /\ Pushed(toClient[j].frame)
              => toClient[i].frame.n < toClient[j].frame.n
    /\ \A i, j \in DOMAIN tasks : i < j => tasks[i].n < tasks[j].n
    /\ \A i \in DOMAIN toClient, j \in DOMAIN tasks :
          Pushed(toClient[i].frame) => toClient[i].frame.n < tasks[j].n
    /\ \A n \in 1..k : IsPush(sent[n]) => InTasks(sent[n]) \/ WithClient(sent[n])

HeldInOrder == \A i, j \in DOMAIN Held : i < j => Held[i].n < Held[j].n

(* Requests are answered in the order they were made, each once.           *)
MadeBefore(c, r) == r.n <= c.n /\ (r.n = c.n => r = c)
Asked ==
    /\ \A i \in DOMAIN unanswered : MadeBefore(call, unanswered[i])
    /\ \A i, j \in DOMAIN unanswered : i < j => unanswered[i].n < unanswered[j].n
    /\ \A n \in DOMAIN sent : ~IsPush(sent[n]) => MadeBefore(call, sent[n].of)
    /\ \A n \in DOMAIN sent, i \in DOMAIN unanswered :
          ~IsPush(sent[n]) => sent[n].of.n < unanswered[i].n
    /\ \A m, n \in DOMAIN sent :
          m < n /\ ~IsPush(sent[m]) /\ ~IsPush(sent[n]) => sent[m].of.n < sent[n].of.n

(* An answer that is still to come or to be taken is the one being read,   *)
(* or one after the wait for a request like it ran out.                    *)
Awaited(r) == (callPc = "read" /\ r = call) \/ Unsure(r)
Waits(k) ==
    /\ \A i \in DOMAIN unanswered : Awaited(unanswered[i])
    /\ \A n \in (k + 1)..Len(sent) : ~IsPush(sent[n]) => Awaited(sent[n].of)
    /\ \A i \in DOMAIN Held : Awaited(Held[i].of)

(* What the client got, and gets next, fits.                               *)
Fitting ==
    /\ \A i \in DOMAIN toClient : Fits(toClient[i].frame, toClient[i].call)
    /\ callPc = "found" => Fits(answer, call)
    /\ callPc # "found" => answer = NoFrame
    /\ callPc # "idle" => call \in Requests

(* While a call is made, no frame pushed after its answer is with the      *)
(* client.                                                                 *)
Ahead ==
    /\ AnswersNotOvertaken
    /\ callPc # "idle" =>
          \A i \in DOMAIN toClient, n \in DOMAIN sent :
              Pushed(toClient[i].frame) /\ sent[n].of = call => toClient[i].frame.n < n

Inv(k) == Stream(k) /\ SplitOff(k) /\ InOrder(k) /\ Waits(k)

SocketInv ==
    /\ Typed /\ Numbered /\ Asked
    /\ Once /\ HeldInOrder /\ Fitting /\ Ahead
    /\ \E k \in 0..Len(sent) : Inv(k)

-----------------------------------------------------------------------------
(* A request is told from none by its number.                              *)
LEMMA NoRequestIsNone == NoRequest \notin Requests
BY DEF Requests, NoRequest, Request

LEMMA NoFrameIsNone == NoFrame \notin Frames
BY DEF Frames, NoFrame, Frame

(* The frames pushed are counted: one more when one is, and no more than   *)
(* all the frames.                                                         *)
LEMMA PushesCounted ==
    ASSUME NEW frames \in Seq(Frames)
    PROVE  /\ IsFiniteSet(PushesIn(frames))
           /\ Cardinality(PushesIn(frames)) \in Nat
           /\ Cardinality(PushesIn(frames)) <= Len(frames)
<1>1. Len(frames) \in Nat /\ 1 \in Int /\ Len(frames) \in Int
    OBVIOUS
<1>2. IsFiniteSet(1..Len(frames)) /\ Cardinality(1..Len(frames)) = Len(frames)
    BY <1>1, FS_Interval
<1>3. PushesIn(frames) \in SUBSET (1..Len(frames))
    BY DEF PushesIn
<1> QED
    BY <1>2, <1>3, FS_Subset, FS_CardinalityType

LEMMA OnePushMore ==
    ASSUME NEW frames \in Seq(Frames), NEW f \in Frames
    PROVE  /\ IsPush(f) =>
                 Cardinality(PushesIn(Append(frames, f))) = Cardinality(PushesIn(frames)) + 1
           /\ ~IsPush(f) =>
                 Cardinality(PushesIn(Append(frames, f))) = Cardinality(PushesIn(frames))
<1>1. CASE IsPush(f)
    <2>1. PushesIn(Append(frames, f)) = PushesIn(frames) \cup {Len(frames) + 1}
        BY <1>1 DEF PushesIn
    <2>2. Len(frames) + 1 \notin PushesIn(frames)
        BY DEF PushesIn
    <2> QED
        BY <1>1, <2>1, <2>2, PushesCounted, FS_AddElement
<1>2. CASE ~IsPush(f)
    <2>1. PushesIn(Append(frames, f)) = PushesIn(frames)
        BY <1>2 DEF PushesIn
    <2> QED
        BY <1>2, <2>1
<1> QED
    BY <1>1, <1>2

(* No more frames are sent than the bounds allow.                          *)
LEMMA SentBounded ==
    ASSUME Typed, Numbered
    PROVE  /\ Len(sent) + Len(unanswered) <= MaxRequests + MaxPushes
           /\ Cardinality(PushesIn(sent)) < MaxPushes
                 => Len(sent) + Len(unanswered) < MaxRequests + MaxPushes
<1>1. Cardinality(PushesIn(sent)) \in Nat /\ Cardinality(PushesIn(sent)) <= Len(sent)
    BY PushesCounted DEF Typed
<1>2. call.n \in 0..MaxRequests
    BY ConstantsAssumption DEF Typed, Requests, NoRequest, Request
<1>3. Len(sent) \in Nat /\ Len(unanswered) \in Nat
    BY DEF Typed
<1> QED
    BY <1>1, <1>2, <1>3, ConstantsAssumption DEF Numbered

-----------------------------------------------------------------------------
(* Initially nothing was sent.                                             *)
LEMMA InitSocketInv == Init => SocketInv
<1> SUFFICES ASSUME Init PROVE SocketInv
    OBVIOUS
<1>1. Typed
    <2>1. channelOpen \in BOOLEAN /\ gaveUp \subseteq Requests
        BY Zenon DEF Init
    <2>2. /\ unanswered \in Seq(Requests) /\ sent \in Seq(Frames)
          /\ inputQueue \in Seq(Frames) /\ received \in Seq(Frames) /\ tasks \in Seq(Frames)
          /\ wire \in Seq(FrameParts) /\ tempBuffer \in Seq(FrameParts)
          /\ toClient \in Seq(Writes)
        BY EmptySeq DEF Init
    <2> QED
        BY <2>1, <2>2 DEF Init, Typed
<1>2. PushesIn(sent) = {}
    BY DEF Init, PushesIn
<1>3. Numbered
    <2>1. Cardinality(PushesIn(sent)) = 0 /\ Len(sent) = 0 /\ Len(unanswered) = 0 /\ call.n = 0
        BY <1>2, FS_EmptySet DEF Init, NoRequest, Request
    <2>2. sent = <<>>
        BY DEF Init
    <2> QED
        BY <2>1, <2>2, ConstantsAssumption DEF Numbered
<1>4. Held = <<>>
    BY DEF Init, Held
<1>5. Asked /\ Once /\ HeldInOrder /\ Fitting /\ Ahead
    BY <1>4 DEF Init, Asked, Once, HeldInOrder, Fitting, Ahead, AnswersNotOvertaken
<1>6. Inv(0) /\ 0 \in 0..Len(sent)
    BY <1>4 DEF Init, Inv, Stream, SplitOff, InOrder, Waits
<1> QED
    BY <1>1, <1>3, <1>5, <1>6 DEF SocketInv

LEMMA PartAt ==
    ASSUME NEW a \in Int, NEW b \in Int, NEW c \in Int, NEW k \in Int, NEW i \in Int,
           b + c = 3 * (a - k)
    PROVE  3 * a + (i - c) = 3 * k + b + i
OBVIOUS

(* What the server sends: the parts of the frame follow the others.        *)
LEMMA ServerSendsInPlace ==
    ASSUME SocketInv, NEW of \in Requests \cup {NoRequest}, NEW k \in 0..Len(sent), Stream(k),
           Len(sent) < MaxRequests + MaxPushes, ServerSends(of), UNCHANGED tempBuffer
    PROVE  /\ sent' = Append(sent, Frame(Len(sent) + 1, of))
           /\ Frame(Len(sent) + 1, of) \in Frames
           /\ Len(sent') = Len(sent) + 1
           /\ sent'[Len(sent) + 1].of = of
           /\ \A n \in 1..Len(sent) : sent'[n] = sent[n]
           /\ sent' \in Seq(Frames) /\ wire' \in Seq(FrameParts)
           /\ \A i \in DOMAIN sent' : sent'[i].n = i
           /\ k \in 0..Len(sent')
           /\ Stream(k)'
<1> DEFINE f == Frame(Len(sent) + 1, of)
<1>0. sent \in Seq(Frames) /\ wire \in Seq(FrameParts) /\ tempBuffer \in Seq(FrameParts)
    BY DEF SocketInv, Typed
<1>1. /\ Len(sent) \in Nat /\ Len(wire) \in Nat /\ Len(tempBuffer) \in Nat /\ k \in Nat
      /\ Len(tempBuffer) + Len(wire) = 3 * (Len(sent) - k)
      /\ DOMAIN sent = 1..Len(sent) /\ DOMAIN wire = 1..Len(wire)
    BY <1>0 DEF Stream
<1>2. f \in Frames /\ f.n = Len(sent) + 1 /\ f.of = of
    BY <1>1, ConstantsAssumption DEF Frames, Frame
<1>3. sent' = Append(sent, f) /\ wire' = wire \o Parts(f)
    BY DEF ServerSends
<1>4. Parts(f) \in Seq(FrameParts) /\ Len(Parts(f)) = 3
      /\ \A r \in 1..3 : Parts(f)[r].frame = f /\ Parts(f)[r].part = r
    BY <1>2 DEF Parts, FrameParts
<1> HIDE DEF f
<1>5. sent' \in Seq(Frames) /\ Len(sent') = Len(sent) + 1
    BY <1>0, <1>2, <1>3
<1>6. \A i \in DOMAIN sent' : sent'[i] = IF i = Len(sent) + 1 THEN f ELSE sent[i]
    BY <1>0, <1>1, <1>2, <1>3, <1>5
<1>7. \A i \in DOMAIN sent' : sent'[i].n = i
    <2> TAKE i \in DOMAIN sent'
    <2>1. i \in 1..(Len(sent) + 1)
        BY <1>5
    <2>2. CASE i = Len(sent) + 1
        BY <1>2, <1>6, <2>2
    <2>3. CASE i # Len(sent) + 1
        <3>1. i \in DOMAIN sent
            BY <1>1, <2>1, <2>3
        <3> QED
            BY <1>6, <2>3, <3>1 DEF SocketInv, Numbered
    <2> QED
        BY <2>2, <2>3
<1>8. wire' \in Seq(FrameParts) /\ Len(wire') = Len(wire) + 3
    <2>1. /\ wire \o Parts(f) \in Seq(FrameParts)
          /\ Len(wire \o Parts(f)) = Len(wire) + Len(Parts(f))
        BY <1>0, <1>4, ConcatProperties, Zenon
    <2> QED
        BY <1>3, <1>4, <2>1
<1>9. \A i \in DOMAIN wire' :
          wire'[i] = IF i <= Len(wire) THEN wire[i] ELSE Parts(f)[i - Len(wire)]
    BY <1>0, <1>1, <1>3, <1>4, <1>8
<1>10. ASSUME NEW p, NEW pos, InPlace(sent, p, pos)
       PROVE  InPlace(sent', p, pos)
    <2>1. p.frame.n \in DOMAIN sent /\ p.frame.n \in DOMAIN sent' /\ p.frame.n # Len(sent) + 1
        BY <1>1, <1>5, <1>10 DEF InPlace
    <2> QED
        BY <1>6, <1>10, <2>1 DEF InPlace
<1>11. \A i \in DOMAIN tempBuffer : InPlace(sent', tempBuffer[i], 3 * k + i)
    BY <1>10 DEF Stream
<1>12. ASSUME NEW i \in DOMAIN wire'
       PROVE  InPlace(sent', wire'[i], 3 * k + Len(tempBuffer) + i)
    <2>1. i \in 1..(Len(wire) + 3)
        BY <1>8
    <2>2. CASE i <= Len(wire)
        <3>1. i \in DOMAIN wire
            BY <1>1, <2>1, <2>2
        <3> QED
            BY <1>9, <1>10, <2>2, <3>1 DEF Stream
    <2>3. CASE ~(i <= Len(wire))
        <3>1. i - Len(wire) \in 1..3
            BY <1>1, <2>1, <2>3
        <3>2. wire'[i].frame = f /\ wire'[i].part = i - Len(wire)
            BY <1>4, <1>9, <2>3, <3>1
        <3>3. f.n \in DOMAIN sent' /\ sent'[f.n] = f
            BY <1>1, <1>2, <1>5, <1>6
        <3>4. 3 * (f.n - 1) + (i - Len(wire)) = 3 * k + Len(tempBuffer) + i
            <4>1. f.n - 1 = Len(sent) /\ i \in Int
                BY <1>1, <1>2, <2>1
            <4>2. Len(sent) \in Int /\ Len(wire) \in Int /\ Len(tempBuffer) \in Int /\ k \in Int
                BY <1>1
            <4>3. 3 * Len(sent) + (i - Len(wire)) = 3 * k + Len(tempBuffer) + i
                BY <1>1, <4>1, <4>2, PartAt
            <4> QED
                BY <4>1, <4>3, Zenon
        <3> QED
            BY <3>2, <3>3, <3>4 DEF InPlace
    <2> QED
        BY <2>2, <2>3
<1>13. Stream(k)'
    <2>1. Len(tempBuffer') + Len(wire') = 3 * (Len(sent') - k)
        BY <1>1, <1>5, <1>8
    <2> QED
        BY <2>1, <1>11, <1>12 DEF Stream
<1>14. sent'[Len(sent) + 1].of = of /\ \A n \in 1..Len(sent) : sent'[n] = sent[n]
    BY <1>1, <1>2, <1>5, <1>6
<1> QED
    BY <1>1, <1>2, <1>3, <1>5, <1>7, <1>8, <1>13, <1>14 DEF f

(* What is past onRead stays what it is while the server sends more.       *)
LEMMA SentMore ==
    ASSUME NEW k \in 0..Len(sent), Len(sent) \in Nat, SplitOff(k), InOrder(k),
           \A n \in 1..Len(sent) : sent'[n] = sent[n],
           UNCHANGED <<toClient, tasks, received, inputQueue, answer>>
    PROVE  SplitOff(k)' /\ InOrder(k)'
<1>1. \A n \in 1..k : sent'[n] = sent[n]
    OBVIOUS
<1>2. ASSUME NEW f, Known(sent, f, k) PROVE Known(sent', f, k)
    BY <1>1, <1>2 DEF Known
<1>3. SplitOff(k)'
    BY <1>2 DEF SplitOff, Held
<1>4. InOrder(k)'
    BY <1>1 DEF InOrder, InTasks, WithClient
<1> QED
    BY <1>3, <1>4

(* No frame pushed after the answer to the call is with the client, as the *)
(* server sends another one.                                               *)
LEMMA SentLater ==
    ASSUME NEW k \in 0..Len(sent), Len(sent) \in Nat, SplitOff(k), Ahead,
           \A n \in 1..Len(sent) : sent'[n] = sent[n],
           DOMAIN sent = 1..Len(sent), DOMAIN sent' = 1..(Len(sent) + 1),
           UNCHANGED <<toClient, callPc, call>>
    PROVE  Ahead'
<1>1. AnswersNotOvertaken'
    BY DEF Ahead, AnswersNotOvertaken
<1>2. ASSUME callPc # "idle", NEW i \in DOMAIN toClient, NEW n \in DOMAIN sent',
             Pushed(toClient[i].frame), sent'[n].of = call
      PROVE  toClient[i].frame.n < n
    <2>1. CASE n = Len(sent) + 1
        <3>1. toClient[i].frame.n \in 1..k
            BY <1>2 DEF SplitOff, Known, Pushed
        <3> QED
            BY <2>1, <3>1
    <2>2. CASE n # Len(sent) + 1
        <3>1. n \in DOMAIN sent /\ sent[n].of = call
            BY <1>2, <2>2
        <3> QED
            BY <1>2, <3>1 DEF Ahead
    <2> QED
        BY <2>1, <2>2
<1> QED
    BY <1>1, <1>2 DEF Ahead

LEMMA ServerAnswersKeeps ==
    ASSUME SocketInv, ServerAnswers
    PROVE  SocketInv'
<1> USE DEF server, io, caller, queues
<1>1. PICK k \in 0..Len(sent) : Inv(k)
    BY DEF SocketInv
<1> DEFINE of == Head(unanswered)
           f  == Frame(Len(sent) + 1, of)
<1>2. /\ sent \in Seq(Frames) /\ unanswered \in Seq(Requests)
      /\ Len(sent) \in Nat /\ Len(unanswered) \in Nat /\ k \in Nat /\ DOMAIN sent = 1..Len(sent)
    BY DEF SocketInv, Typed
<1>3. /\ of \in Requests /\ Tail(unanswered) \in Seq(Requests)
      /\ Len(Tail(unanswered)) = Len(unanswered) - 1 /\ Len(unanswered) > 0
      /\ of = unanswered[1] /\ 1 \in DOMAIN unanswered
    BY <1>2 DEF ServerAnswers
<1>4. Len(sent) < MaxRequests + MaxPushes
    BY <1>2, <1>3, SentBounded, ConstantsAssumption DEF SocketInv
<1> HIDE DEF of
<1>5. ServerSends(of)
    BY DEF ServerAnswers, of
<1>6. /\ sent' = Append(sent, f) /\ f \in Frames
      /\ Len(sent') = Len(sent) + 1
      /\ sent'[Len(sent) + 1].of = of
      /\ \A n \in 1..Len(sent) : sent'[n] = sent[n]
      /\ sent' \in Seq(Frames) /\ wire' \in Seq(FrameParts)
      /\ \A i \in DOMAIN sent' : sent'[i].n = i
      /\ k \in 0..Len(sent')
      /\ Stream(k)'
    BY <1>1, <1>3, <1>4, <1>5, ServerSendsInPlace DEF ServerAnswers, Inv
<1>7. ~IsPush(f)
    BY <1>3, NoRequestIsNone DEF IsPush, Frame
<1> HIDE DEF f
<1>8. Typed'
    BY <1>3, <1>6 DEF SocketInv, Typed, ServerAnswers, of
<1>9. Numbered'
    <2>1. Cardinality(PushesIn(sent')) = Cardinality(PushesIn(sent))
        BY <1>2, <1>6, <1>7, OnePushMore
    <2>2. Len(unanswered') = Len(unanswered) - 1
        BY <1>3 DEF ServerAnswers, of
    <2>3. Cardinality(PushesIn(sent)) \in Nat
        BY <1>2, PushesCounted
    <2>4. Len(sent') - Cardinality(PushesIn(sent')) + Len(unanswered') <= call.n
        BY <1>2, <1>6, <2>1, <2>2, <2>3 DEF SocketInv, Numbered
    <2> QED
        BY <1>6, <2>1, <2>4 DEF SocketInv, Numbered, ServerAnswers
<1>10. UNCHANGED <<protocol, gaveUp, toClient, tasks, received, inputQueue, answer, callPc, call>>
    BY DEF ServerAnswers
<1>11. DOMAIN sent' = 1..(Len(sent) + 1)
    BY <1>2, <1>6
<1>12. \A i \in DOMAIN unanswered' : i + 1 \in DOMAIN unanswered /\ unanswered'[i] = unanswered[i + 1]
    <2>1. unanswered' = Tail(unanswered)
        BY DEF ServerAnswers
    <2> QED
        BY <1>2, <1>3, <2>1
<1>13. ASSUME NEW n \in DOMAIN sent', n # Len(sent) + 1
       PROVE  n \in DOMAIN sent /\ sent'[n] = sent[n]
    BY <1>2, <1>6, <1>11, <1>13
<1>14. Asked'
    <2> DEFINE last == Len(sent) + 1
    <2>1. sent'[last].of = of
        BY <1>6
    <2>2. DOMAIN unanswered \subseteq Nat /\ DOMAIN unanswered' \subseteq Nat /\ last \in Nat
        BY <1>2, <1>8 DEF Typed
    <2>3. MadeBefore(call, of) /\ \A i \in DOMAIN unanswered' : of.n < unanswered'[i].n
        <3>1. \A i \in DOMAIN unanswered' : 1 < i + 1
            BY <1>8 DEF Typed
        <3> QED
            BY <1>3, <1>12, <3>1 DEF SocketInv, Asked
    <2>4. \A n \in DOMAIN sent : ~IsPush(sent[n]) => sent[n].of.n < of.n
        BY <1>3 DEF SocketInv, Asked
    <2>5. \A i \in DOMAIN unanswered' : MadeBefore(call, unanswered'[i])
        BY <1>12 DEF SocketInv, Asked
    <2>6. \A i, j \in DOMAIN unanswered' : i < j => unanswered'[i].n < unanswered'[j].n
        <3>1. \A i, j \in DOMAIN unanswered' : i < j => i + 1 < j + 1
            BY <1>8 DEF Typed
        <3> QED
            BY <1>12, <3>1 DEF SocketInv, Asked
    <2> HIDE DEF last
    <2>7. \A n \in DOMAIN sent' : ~IsPush(sent'[n]) => MadeBefore(call, sent'[n].of)
        BY <1>13, <2>1, <2>3 DEF SocketInv, Asked, last
    <2>8. \A n \in DOMAIN sent', i \in DOMAIN unanswered' :
              ~IsPush(sent'[n]) => sent'[n].of.n < unanswered'[i].n
        BY <1>12, <1>13, <2>1, <2>3 DEF SocketInv, Asked, last
    <2>9. ASSUME NEW m \in DOMAIN sent', NEW n \in DOMAIN sent', m < n,
                 ~IsPush(sent'[m]), ~IsPush(sent'[n])
          PROVE  sent'[m].of.n < sent'[n].of.n
        <3>1. m # last
            BY <1>11, <2>2, <2>9 DEF last
        <3>2. m \in DOMAIN sent /\ sent'[m] = sent[m]
            BY <1>13, <3>1 DEF last
        <3>3. CASE n = last
            BY <2>1, <2>4, <2>9, <3>2, <3>3
        <3>4. CASE n # last
            <4>1. n \in DOMAIN sent /\ sent'[n] = sent[n]
                BY <1>13, <3>4 DEF last
            <4> QED
                BY <2>9, <3>2, <4>1 DEF SocketInv, Asked
        <3> QED
            BY <3>3, <3>4
    <2> QED
        BY <1>10, <2>5, <2>6, <2>7, <2>8, <2>9 DEF Asked, MadeBefore
<1>15. Once' /\ HeldInOrder' /\ Fitting'
    BY <1>10 DEF SocketInv, Once, HeldInOrder, Held, Fitting, Fits, Unsure, Alike
<1>16. Ahead'
    BY <1>1, <1>2, <1>6, <1>10, <1>11, SentLater DEF SocketInv, Inv
<1>17. SplitOff(k)' /\ InOrder(k)'
    BY <1>1, <1>2, <1>6, <1>10, SentMore DEF Inv
<1>18. Waits(k)'
    <2>1. \A r : Awaited(r) => Awaited(r)'
        BY <1>10 DEF Awaited, Unsure, Alike
    <2>2. \A n \in (k + 1)..Len(sent') : n = Len(sent) + 1 \/ n \in (k + 1)..Len(sent)
        BY <1>2, <1>6
    <2>3. \A n \in (k + 1)..Len(sent) : sent'[n] = sent[n]
        BY <1>2, <1>6
    <2>4. Awaited(of)
        BY <1>1, <1>3 DEF Inv, Waits
    <2> QED
        BY <1>1, <1>6, <1>10, <1>12, <2>1, <2>2, <2>3, <2>4 DEF Inv, Waits, Held
<1> QED
    BY <1>6, <1>8, <1>9, <1>14, <1>15, <1>16, <1>17, <1>18 DEF SocketInv, Inv

LEMMA ServerPushesKeeps ==
    ASSUME SocketInv, ServerPushes
    PROVE  SocketInv'
<1> USE DEF server, io, caller, queues
<1>1. PICK k \in 0..Len(sent) : Inv(k)
    BY DEF SocketInv
<1> DEFINE f  == Frame(Len(sent) + 1, NoRequest)
<1>2. /\ sent \in Seq(Frames) /\ unanswered \in Seq(Requests)
      /\ Len(sent) \in Nat /\ Len(unanswered) \in Nat /\ k \in Nat /\ DOMAIN sent = 1..Len(sent)
    BY DEF SocketInv, Typed
<1>3. Cardinality(PushesIn(sent)) < MaxPushes /\ Cardinality(PushesIn(sent)) \in Nat
    BY <1>2, PushesCounted DEF ServerPushes, PushesIn
<1>4. Len(sent) < MaxRequests + MaxPushes
    BY <1>2, <1>3, SentBounded, ConstantsAssumption DEF SocketInv
<1>5. ServerSends(NoRequest)
    BY DEF ServerPushes
<1>6. /\ sent' = Append(sent, f) /\ f \in Frames
      /\ Len(sent') = Len(sent) + 1
      /\ sent'[Len(sent) + 1].of = NoRequest
      /\ \A n \in 1..Len(sent) : sent'[n] = sent[n]
      /\ sent' \in Seq(Frames) /\ wire' \in Seq(FrameParts)
      /\ \A i \in DOMAIN sent' : sent'[i].n = i
      /\ k \in 0..Len(sent')
      /\ Stream(k)'
    BY <1>1, <1>4, <1>5, ServerSendsInPlace DEF ServerPushes, Inv
<1>7. IsPush(f)
    BY DEF IsPush, Frame
<1> HIDE DEF f
<1>8. Typed'
    BY <1>6 DEF SocketInv, Typed, ServerPushes
<1>9. Numbered'
    <2>1. Cardinality(PushesIn(sent')) = Cardinality(PushesIn(sent)) + 1
        BY <1>2, <1>6, <1>7, OnePushMore
    <2>2. Len(sent') - Cardinality(PushesIn(sent')) + Len(unanswered') <= call.n
        BY <1>2, <1>3, <1>6, <2>1 DEF SocketInv, Numbered, ServerPushes
    <2>3. Cardinality(PushesIn(sent')) <= MaxPushes
        BY <1>3, <2>1, ConstantsAssumption
    <2> QED
        BY <1>6, <2>2, <2>3 DEF SocketInv, Numbered, ServerPushes
<1>10. UNCHANGED <<protocol, gaveUp, toClient, tasks, received, inputQueue, answer, callPc, call, unanswered>>
    BY DEF ServerPushes
<1>11. DOMAIN sent' = 1..(Len(sent) + 1)
    BY <1>2, <1>6
<1>12. \A n \in DOMAIN sent' : ~IsPush(sent'[n]) => n \in DOMAIN sent /\ sent'[n] = sent[n]
    BY <1>2, <1>6, <1>11 DEF IsPush
<1>13. Asked'
    BY <1>10, <1>12 DEF SocketInv, Asked, MadeBefore
<1>14. Once' /\ HeldInOrder' /\ Fitting'
    BY <1>10 DEF SocketInv, Once, HeldInOrder, Held, Fitting, Fits, Unsure, Alike
<1>15. Ahead'
    BY <1>1, <1>2, <1>6, <1>10, <1>11, SentLater DEF SocketInv, Inv
<1>16. SplitOff(k)' /\ InOrder(k)'
    BY <1>1, <1>2, <1>6, <1>10, SentMore DEF Inv
<1>17. Waits(k)'
    <2>1. \A r : Awaited(r) => Awaited(r)'
        BY <1>10 DEF Awaited, Unsure, Alike
    <2>2. \A n \in (k + 1)..Len(sent') : ~IsPush(sent'[n]) =>
              n \in (k + 1)..Len(sent) /\ sent'[n] = sent[n]
        BY <1>2, <1>6 DEF IsPush
    <2> QED
        BY <1>1, <1>10, <2>1, <2>2 DEF Inv, Waits, Held
<1> QED
    BY <1>6, <1>8, <1>9, <1>13, <1>14, <1>15, <1>16, <1>17 DEF SocketInv, Inv

-----------------------------------------------------------------------------
(* A sequence without its first elements.                                  *)
LEMMA Rest ==
    ASSUME NEW s \in Seq(FrameParts), NEW j \in 0..Len(s), NEW rest, rest = SubSeq(s, j + 1, Len(s))
    PROVE  /\ rest \in Seq(FrameParts) /\ Len(rest) = Len(s) - j
           /\ \A i \in 1..(Len(s) - j) : rest[i] = s[j + i]
<1>1. Len(s) \in Nat /\ j \in Nat /\ \A i \in 1..Len(s) : s[i] \in FrameParts
    OBVIOUS
<1>2. CASE j = Len(s)
    <2>1. rest = <<>>
        BY <1>1, <1>2
    <2> QED
        BY <1>1, <1>2, <2>1
<1>3. CASE j < Len(s)
    <2>1. j + 1 \in 1..Len(s) /\ Len(s) \in 1..Len(s)
        BY <1>1, <1>3
    <2> QED
        BY <1>1, <1>3, <2>1, SubSeqProperties
<1> QED
    BY <1>1, <1>2, <1>3

(* What does not depend on the bytes that are on their way.                *)
LEMMA OthersKeep ==
    ASSUME Numbered, Asked, Once, HeldInOrder, Fitting, Ahead,
           NEW k \in 0..Len(sent), SplitOff(k), InOrder(k), Waits(k),
           UNCHANGED <<protocol, unanswered, sent, tasks, Held, callPc, call, answer, toClient, gaveUp>>
    PROVE  Numbered' /\ Asked' /\ Once' /\ HeldInOrder' /\ Fitting' /\ Ahead'
           /\ SplitOff(k)' /\ InOrder(k)' /\ Waits(k)' /\ k \in 0..Len(sent')
<1>1. Numbered' /\ Asked'
    BY DEF Numbered, Asked, MadeBefore
<1>2. Once' /\ HeldInOrder'
    BY DEF Once, HeldInOrder
<1>3. Fitting' /\ Ahead'
    BY DEF Fitting, Fits, Unsure, Alike, Ahead, AnswersNotOvertaken
<1>4. SplitOff(k)' /\ InOrder(k)' /\ Waits(k)'
    BY DEF SplitOff, InOrder, InTasks, WithClient, Waits, Awaited, Unsure, Alike
<1> QED
    BY <1>1, <1>2, <1>3, <1>4

(* However many parts one read brings, none is lost or moved.              *)
LEMMA ChannelReadKeeps ==
    ASSUME SocketInv, ChannelRead
    PROVE  SocketInv'
<1> USE DEF server, io, caller, queues
<1>1. PICK k \in 0..Len(sent) : Inv(k)
    BY DEF SocketInv
<1>2. PICK j \in DOMAIN wire : /\ tempBuffer' = tempBuffer \o SubSeq(wire, 1, j)
                              /\ wire' = SubSeq(wire, j + 1, Len(wire))
    BY DEF ChannelRead
<1>3. /\ tempBuffer \in Seq(FrameParts) /\ wire \in Seq(FrameParts) /\ Len(sent) \in Nat
      /\ Len(tempBuffer) \in Nat /\ Len(wire) \in Nat /\ k \in Nat /\ j \in 1..Len(wire)
    BY DEF SocketInv, Typed
<1> DEFINE moved == SubSeq(wire, 1, j)
<1>4. /\ moved \in Seq(FrameParts) /\ Len(moved) = j
      /\ \A i \in 1..j : moved[i] = wire[i]
    BY <1>3
<1>5. /\ wire' \in Seq(FrameParts) /\ Len(wire') = Len(wire) - j
      /\ \A i \in 1..(Len(wire) - j) : wire'[i] = wire[j + i]
    <2>1. j \in 0..Len(wire)
        BY <1>3
    <2> QED
        BY <1>2, <1>3, <2>1, Rest
<1> HIDE DEF moved
<1>6. /\ tempBuffer' \in Seq(FrameParts) /\ Len(tempBuffer') = Len(tempBuffer) + j
      /\ \A i \in 1..(Len(tempBuffer) + j) :
            tempBuffer'[i] = IF i <= Len(tempBuffer) THEN tempBuffer[i]
                             ELSE moved[i - Len(tempBuffer)]
    <2>1. tempBuffer' = tempBuffer \o moved
        BY <1>2 DEF moved
    <2> QED
        BY <1>3, <1>4, <2>1, ConcatProperties
<1>7. Stream(k)'
    <2>1. UNCHANGED sent
        BY DEF ChannelRead
    <2>2. Len(tempBuffer') + Len(wire') = 3 * (Len(sent) - k)
        BY <1>1, <1>3, <1>5, <1>6 DEF Inv, Stream
    <2>3. ASSUME NEW i \in DOMAIN tempBuffer'
          PROVE  InPlace(sent, tempBuffer'[i], 3 * k + i)
        <3>1. i \in 1..(Len(tempBuffer) + j)
            BY <1>6
        <3>2. CASE i <= Len(tempBuffer)
            BY <1>1, <1>3, <1>6, <3>1, <3>2 DEF Inv, Stream
        <3>3. CASE ~(i <= Len(tempBuffer))
            <4> DEFINE h == i - Len(tempBuffer)
            <4>1. h \in 1..j /\ h \in DOMAIN wire /\ 3 * k + Len(tempBuffer) + h = 3 * k + i
                BY <1>3, <3>1, <3>3
            <4>2. tempBuffer'[i] = wire[h]
                BY <1>4, <1>6, <3>1, <3>3, <4>1
            <4> HIDE DEF h
            <4>3. InPlace(sent, wire[h], 3 * k + Len(tempBuffer) + h)
                BY <1>1, <4>1 DEF Inv, Stream
            <4> QED
                BY <4>1, <4>2, <4>3
        <3> QED
            BY <3>2, <3>3
    <2>4. ASSUME NEW i \in DOMAIN wire'
          PROVE  InPlace(sent, wire'[i], 3 * k + Len(tempBuffer') + i)
        <3> DEFINE h == j + i
        <3>1. /\ i \in 1..(Len(wire) - j) /\ h \in DOMAIN wire
              /\ 3 * k + Len(tempBuffer) + h = 3 * k + Len(tempBuffer') + i
            BY <1>3, <1>5, <1>6
        <3>2. wire'[i] = wire[h]
            BY <1>5, <3>1
        <3> HIDE DEF h
        <3>3. InPlace(sent, wire[h], 3 * k + Len(tempBuffer) + h)
            BY <1>1, <3>1 DEF Inv, Stream
        <3> QED
            BY <3>1, <3>2, <3>3
    <2> QED
        BY <2>1, <2>2, <2>3, <2>4 DEF Stream
<1>8. Typed'
    BY <1>5, <1>6 DEF SocketInv, Typed, ChannelRead
<1>9. UNCHANGED <<protocol, unanswered, sent, tasks, Held, callPc, call, answer, toClient, gaveUp>>
    BY DEF ChannelRead, Held
<1>10. Numbered' /\ Asked' /\ Once' /\ HeldInOrder' /\ Fitting' /\ Ahead'
       /\ SplitOff(k)' /\ InOrder(k)' /\ Waits(k)' /\ k \in 0..Len(sent')
    BY <1>1, <1>9, OthersKeep DEF SocketInv, Inv
<1> QED
    BY <1>7, <1>8, <1>10 DEF SocketInv, Inv

(* The buffer starts with the first part of the next frame.                *)
LEMMA NextFrame ==
    ASSUME Typed, Numbered, NEW k \in 0..Len(sent), Stream(k), tempBuffer # <<>>
    PROVE  /\ Len(sent) > k /\ k + 1 \in DOMAIN sent
           /\ tempBuffer[1].part = 1
           /\ tempBuffer[1].frame = sent[k + 1]
           /\ tempBuffer[1].frame.n = k + 1
<1>1. /\ tempBuffer \in Seq(FrameParts) /\ Len(tempBuffer) \in Nat /\ Len(tempBuffer) >= 1
      /\ 1 \in DOMAIN tempBuffer /\ tempBuffer[1] \in FrameParts
      /\ sent \in Seq(Frames) /\ Len(sent) \in Nat /\ k \in Nat /\ Len(wire) \in Nat
    BY DEF Typed
<1>2. tempBuffer[1].part \in 1..3 /\ tempBuffer[1].frame.n \in Nat
    BY <1>1 DEF FrameParts, Frames
<1>3. InPlace(sent, tempBuffer[1], 3 * k + 1)
    BY <1>1 DEF Stream
<1>4. tempBuffer[1].part = 1 /\ tempBuffer[1].frame.n = k + 1
    <2> DEFINE n == tempBuffer[1].frame.n
               r == tempBuffer[1].part
    <2>1. n \in Nat /\ r \in 1..3 /\ 3 * (n - 1) + r = 3 * k + 1
        BY <1>2, <1>3 DEF InPlace
    <2> HIDE DEF n, r
    <2>2. r = 1 /\ n = k + 1
        BY <1>1, <2>1
    <2> QED
        BY <2>2 DEF n, r
<1>5. Len(tempBuffer) + Len(wire) = 3 * (Len(sent) - k)
    BY DEF Stream
<1> QED
    BY <1>1, <1>3, <1>4, <1>5 DEF InPlace

(* One more frame for the calls is the last of those held.                 *)
LEMMA ConcatAppend ==
    ASSUME NEW a \in Seq(Frames), NEW b \in Seq(Frames), NEW f \in Frames
    PROVE  /\ DOMAIN (a \o Append(b, f)) = DOMAIN (a \o b) \cup {Len(a \o b) + 1}
           /\ \A i \in DOMAIN (a \o b) : (a \o Append(b, f))[i] = (a \o b)[i] /\ i < Len(a \o b) + 1
           /\ (a \o Append(b, f))[Len(a \o b) + 1] = f
           /\ Len(a \o b) + 1 \in Nat /\ DOMAIN (a \o b) \subseteq Nat
<1> DEFINE c == Append(b, f)
<1>1. /\ c \in Seq(Frames) /\ Len(c) = Len(b) + 1 /\ Len(a) \in Nat /\ Len(b) \in Nat
      /\ \A i \in 1..Len(b) : c[i] = b[i]
      /\ c[Len(b) + 1] = f
    OBVIOUS
<1> HIDE DEF c
<1>2. /\ a \o b \in Seq(Frames) /\ Len(a \o b) = Len(a) + Len(b)
      /\ \A i \in 1..(Len(a) + Len(b)) :
            (a \o b)[i] = IF i <= Len(a) THEN a[i] ELSE b[i - Len(a)]
    BY ConcatProperties
<1>3. /\ a \o c \in Seq(Frames) /\ Len(a \o c) = Len(a) + Len(c)
      /\ \A i \in 1..(Len(a) + Len(c)) :
            (a \o c)[i] = IF i <= Len(a) THEN a[i] ELSE c[i - Len(a)]
    BY <1>1, ConcatProperties
<1> DEFINE ab == a \o b
           ac == a \o c
<1>4. /\ DOMAIN ab = 1..(Len(a) + Len(b)) /\ DOMAIN ac = 1..(Len(a) + Len(b) + 1)
      /\ Len(ab) = Len(a) + Len(b)
    BY <1>1, <1>2, <1>3
<1>5. \A i \in 1..(Len(a) + Len(b)) : ac[i] = ab[i]
    BY <1>1, <1>2, <1>3
<1>6. ac[Len(a) + Len(b) + 1] = f
    BY <1>1, <1>3
<1> HIDE DEF ab, ac
<1>7. /\ DOMAIN ac = DOMAIN ab \cup {Len(ab) + 1}
      /\ \A i \in DOMAIN ab : ac[i] = ab[i] /\ i < Len(ab) + 1
      /\ ac[Len(ab) + 1] = f /\ Len(ab) + 1 \in Nat /\ DOMAIN ab \subseteq Nat
    <2>1. PICK n \in Nat : n = Len(ab)
        BY <1>1, <1>4
    <2>2. /\ DOMAIN ab = 1..n /\ DOMAIN ac = 1..(n + 1) /\ ac[n + 1] = f
          /\ \A i \in 1..n : ac[i] = ab[i]
        BY <1>4, <1>5, <1>6, <2>1
    <2>3. 1..(n + 1) = 1..n \cup {n + 1} /\ 1..n \subseteq Nat /\ \A i \in 1..n : i < n + 1
        OBVIOUS
    <2> QED
        BY <2>1, <2>2, <2>3
<1> QED
    BY <1>7 DEF ab, ac, c

(* onRead takes the next frame and what follows it moves up.               *)
LEMMA SplitFrameKeeps ==
    ASSUME SocketInv, SplitFrame
    PROVE  SocketInv'
<1> USE DEF server, io, caller, queues
<1>1. PICK k \in 0..Len(sent) : Inv(k)
    BY DEF SocketInv
<1> DEFINE f == tempBuffer[1].frame
<1>2. /\ tempBuffer \in Seq(FrameParts) /\ wire \in Seq(FrameParts) /\ Len(sent) \in Nat
      /\ Len(tempBuffer) \in Nat /\ Len(wire) \in Nat /\ k \in Nat
      /\ inputQueue \in Seq(Frames) /\ sent \in Seq(Frames) /\ sent' = sent /\ wire' = wire
    BY DEF SocketInv, Typed, SplitFrame
<1>3. Len(tempBuffer) >= 3
    BY DEF SplitFrame, GenericFrame
<1>4. Len(sent) > k /\ k + 1 \in DOMAIN sent /\ f = sent[k + 1] /\ f.n = k + 1 /\ f \in Frames
    <2>1. tempBuffer # <<>>
        BY <1>2, <1>3
    <2>2. Len(sent) > k /\ k + 1 \in DOMAIN sent /\ f = sent[k + 1] /\ f.n = k + 1
        BY <1>1, <2>1, NextFrame DEF SocketInv, Inv
    <2> QED
        BY <1>2, <2>2
<1>5. f # NoFrame
    BY <1>4, NoFrameIsNone
<1>6. /\ IsPush(f) => tasks' = Append(tasks, f) /\ inputQueue' = inputQueue
      /\ ~IsPush(f) => inputQueue' = Append(inputQueue, f) /\ tasks' = tasks
      /\ tempBuffer' = SubSeq(tempBuffer, 4, Len(tempBuffer))
    BY DEF SplitFrame, HandedOver
<1> HIDE DEF f
<1>7. /\ tempBuffer' \in Seq(FrameParts) /\ Len(tempBuffer') = Len(tempBuffer) - 3
      /\ \A i \in 1..(Len(tempBuffer) - 3) : tempBuffer'[i] = tempBuffer[3 + i]
    <2>1. 3 \in 0..Len(tempBuffer) /\ tempBuffer' = SubSeq(tempBuffer, 3 + 1, Len(tempBuffer))
        BY <1>2, <1>3, <1>6
    <2> QED
        BY <1>2, <2>1, Rest
<1>8. Stream(k + 1)'
    <2>1. Len(tempBuffer') + Len(wire') = 3 * (Len(sent') - (k + 1))
        BY <1>1, <1>2, <1>7 DEF Inv, Stream
    <2>2. ASSUME NEW i \in DOMAIN tempBuffer'
          PROVE  InPlace(sent', tempBuffer'[i], 3 * (k + 1) + i)
        <3> DEFINE h == 3 + i
        <3>1. i \in 1..(Len(tempBuffer) - 3) /\ h \in DOMAIN tempBuffer /\ 3 * (k + 1) + i = 3 * k + h
            BY <1>2, <1>3, <1>7
        <3>2. tempBuffer'[i] = tempBuffer[h]
            BY <1>7, <3>1
        <3> HIDE DEF h
        <3>3. InPlace(sent, tempBuffer[h], 3 * k + h)
            BY <1>1, <3>1 DEF Inv, Stream
        <3> QED
            BY <1>2, <3>1, <3>2, <3>3
    <2>3. ASSUME NEW i \in DOMAIN wire'
          PROVE  InPlace(sent', wire'[i], 3 * (k + 1) + Len(tempBuffer') + i)
        <3>1. i \in DOMAIN wire /\ wire' = wire /\ i \in Nat
            BY <1>2 DEF SplitFrame
        <3>2. InPlace(sent, wire[i], 3 * k + Len(tempBuffer) + i)
            BY <1>1, <3>1 DEF Inv, Stream
        <3>3. 3 * (k + 1) + Len(tempBuffer') + i = 3 * k + Len(tempBuffer) + i
            BY <1>2, <1>7, <3>1
        <3> QED
            BY <1>2, <3>1, <3>2, <3>3
    <2> QED
        BY <2>1, <2>2, <2>3 DEF Stream
<1>9. UNCHANGED <<protocol, unanswered, received, callPc, call, answer, toClient, gaveUp>>
    BY DEF SplitFrame
<1>10. Numbered' /\ Asked' /\ Fitting' /\ Ahead'
    <2>1. Numbered' /\ Asked'
        BY <1>2, <1>9 DEF SocketInv, Numbered, Asked, MadeBefore
    <2>2. Fitting' /\ Ahead'
        BY <1>2, <1>9 DEF SocketInv, Fitting, Fits, Unsure, Alike, Ahead, AnswersNotOvertaken
    <2> QED
        BY <2>1, <2>2
<1>11. ASSUME NEW g, Known(sent, g, k)
       PROVE  Known(sent, g, k + 1) /\ g.n \in Int /\ g.n < k + 1 /\ g # f
    BY <1>2, <1>4, <1>11 DEF Known
<1>12. Known(sent, f, k + 1)
    BY <1>2, <1>4 DEF Known
<1>13. \A r : Awaited(r) => Awaited(r)'
    BY <1>9 DEF Awaited, Unsure, Alike
<1>14. \A n \in (k + 1 + 1)..Len(sent) : n \in (k + 1)..Len(sent)
    BY <1>2
<1>15. k + 1 \in (k + 1)..Len(sent) /\ k + 1 \in 0..Len(sent)
    BY <1>2, <1>4
<1>16. SplitOff(k) /\ InOrder(k) /\ Waits(k) /\ Once /\ HeldInOrder
    BY <1>1 DEF SocketInv, Inv
<1>17. CASE IsPush(f)
    <2> DEFINE last == Len(tasks) + 1
    <2>1. /\ tasks' \in Seq(Frames)
          /\ DOMAIN tasks' = DOMAIN tasks \cup {last}
          /\ \A i \in DOMAIN tasks : tasks'[i] = tasks[i] /\ i < last
          /\ tasks'[last] = f /\ last \in DOMAIN tasks' /\ last \in Nat /\ DOMAIN tasks \subseteq Nat
        <3>1. tasks \in Seq(Frames) /\ tasks' = Append(tasks, f)
            BY <1>6, <1>17 DEF SocketInv, Typed
        <3> QED
            BY <1>4, <3>1
    <2>2. Held' = Held
        BY <1>6, <1>9, <1>17 DEF Held
    <2> HIDE DEF last
    <2>3. Typed'
        BY <1>6, <1>7, <1>9, <1>17, <2>1 DEF SocketInv, Typed, SplitFrame
    <2>4. Once' /\ HeldInOrder'
        BY <1>9, <1>16, <2>2 DEF Once, HeldInOrder
    <2>5. SplitOff(k + 1)'
        <3>1. \A i \in DOMAIN tasks' : Known(sent, tasks'[i], k + 1) /\ IsPush(tasks'[i])
            BY <1>11, <1>12, <1>16, <1>17, <2>1 DEF SplitOff
        <3> QED
            BY <1>2, <1>9, <1>11, <1>16, <2>2, <3>1 DEF SplitOff
    <2>6. InOrder(k + 1)'
        <3>1. ASSUME NEW i \in DOMAIN tasks', NEW j \in DOMAIN tasks', i < j
              PROVE  tasks'[i].n < tasks'[j].n
            <4>1. i \in DOMAIN tasks
                BY <2>1, <3>1
            <4>2. CASE j = last
                BY <1>4, <1>11, <1>16, <2>1, <4>1, <4>2 DEF SplitOff
            <4>3. CASE j # last
                BY <1>16, <2>1, <3>1, <4>1, <4>3 DEF InOrder
            <4> QED
                BY <4>2, <4>3
        <3>2. ASSUME NEW i \in DOMAIN toClient, NEW j \in DOMAIN tasks', Pushed(toClient[i].frame)
              PROVE  toClient[i].frame.n < tasks'[j].n
            <4>1. CASE j = last
                BY <1>4, <1>11, <1>16, <2>1, <3>2, <4>1 DEF SplitOff, Pushed
            <4>2. CASE j # last
                BY <1>16, <2>1, <3>2, <4>2 DEF InOrder
            <4> QED
                BY <4>1, <4>2
        <3>3. ASSUME NEW n \in 1..(k + 1), IsPush(sent[n])
              PROVE  InTasks(sent[n])' \/ WithClient(sent[n])'
            <4>1. CASE n = k + 1
                BY <1>2, <1>4, <2>1, <4>1 DEF InTasks
            <4>2. CASE n # k + 1
                <5>1. n \in 1..k
                    BY <1>2, <4>2
                <5>2. InTasks(sent[n]) \/ WithClient(sent[n])
                    BY <1>16, <3>3, <5>1 DEF InOrder
                <5> QED
                    BY <1>2, <1>9, <2>1, <5>2 DEF InTasks, WithClient
            <4> QED
                BY <4>1, <4>2
        <3> QED
            BY <1>2, <1>9, <1>16, <3>1, <3>2, <3>3 DEF InOrder
    <2>7. Waits(k + 1)'
        BY <1>2, <1>9, <1>13, <1>14, <1>16, <2>2 DEF Waits
    <2> QED
        BY <1>2, <1>8, <1>10, <1>15, <2>3, <2>4, <2>5, <2>6, <2>7 DEF SocketInv, Inv
<1>18. CASE ~IsPush(f)
    <2> DEFINE last == Len(Held) + 1
    <2>1. /\ inputQueue' = Append(inputQueue, f) /\ tasks' = tasks
          /\ inputQueue' \in Seq(Frames) /\ received \in Seq(Frames)
        <3>1. inputQueue' = Append(inputQueue, f) /\ tasks' = tasks
            BY <1>6, <1>18
        <3> QED
            BY <1>2, <1>4, <3>1, AppendProperties DEF SocketInv, Typed
    <2>2. /\ DOMAIN Held' = DOMAIN Held \cup {last}
          /\ \A i \in DOMAIN Held : Held'[i] = Held[i] /\ i < last
          /\ Held'[last] = f /\ last \in Nat /\ DOMAIN Held \subseteq Nat
        <3>1. Held' = received \o Append(inputQueue, f)
            BY <1>9, <2>1 DEF Held
        <3>2. /\ DOMAIN (received \o Append(inputQueue, f)) = DOMAIN Held \cup {last}
              /\ \A i \in DOMAIN Held : (received \o Append(inputQueue, f))[i] = Held[i] /\ i < last
              /\ (received \o Append(inputQueue, f))[last] = f /\ last \in Nat
              /\ DOMAIN Held \subseteq Nat
            <4>1. received \in Seq(Frames) /\ inputQueue \in Seq(Frames) /\ f \in Frames
                BY <1>2, <1>4, <2>1
            <4> QED
                BY <4>1, ConcatAppend DEF Held
        <3> QED
            BY <3>1, <3>2
    <2> HIDE DEF last
    <2>3. Typed'
        BY <1>7, <1>9, <2>1 DEF SocketInv, Typed, SplitFrame
    <2>4. \A i \in DOMAIN toClient : toClient[i].frame # NoFrame => toClient[i].frame # f
        BY <1>11, <1>16 DEF SplitOff
    <2>5. answer # NoFrame => answer # f
        BY <1>11, <1>16 DEF SplitOff
    <2>6. Once'
        BY <1>9, <1>16, <2>2, <2>4, <2>5 DEF Once
    <2>7. HeldInOrder'
        <3> SUFFICES ASSUME NEW i \in DOMAIN Held', NEW j \in DOMAIN Held', i < j
                     PROVE  Held'[i].n < Held'[j].n
            BY DEF HeldInOrder
        <3>1. i \in DOMAIN Held
            BY <2>2
        <3>2. CASE j = last
            BY <1>4, <1>11, <1>16, <2>2, <3>1, <3>2 DEF SplitOff
        <3>3. CASE j # last
            BY <1>16, <2>2, <3>1, <3>3 DEF HeldInOrder
        <3> QED
            BY <3>2, <3>3
    <2>8. SplitOff(k + 1)'
        <3>1. \A i \in DOMAIN Held' : Known(sent, Held'[i], k + 1) /\ ~IsPush(Held'[i])
            BY <1>11, <1>12, <1>16, <1>18, <2>2 DEF SplitOff
        <3> QED
            BY <1>2, <1>9, <1>11, <1>16, <2>1, <3>1 DEF SplitOff
    <2>9. InOrder(k + 1)'
        <3>1. \A n \in 1..(k + 1) : IsPush(sent[n]) => n \in 1..k
            BY <1>2, <1>4, <1>18
        <3> QED
            BY <1>2, <1>9, <1>16, <2>1, <3>1 DEF InOrder, InTasks, WithClient
    <2>10. Waits(k + 1)'
        <3>1. Awaited(f.of)
            BY <1>4, <1>15, <1>16, <1>18 DEF Waits
        <3> QED
            BY <1>2, <1>9, <1>13, <1>14, <1>16, <2>2, <3>1 DEF Waits
    <2> QED
        BY <1>2, <1>8, <1>10, <1>15, <2>3, <2>6, <2>7, <2>8, <2>9, <2>10 DEF SocketInv, Inv
<1> QED
    BY <1>17, <1>18

(* The other steps of the I/O thread move nothing.                         *)
LEMMA NothingMovesKeeps ==
    ASSUME SocketInv, NothingToSplit \/ SplitFails \/ UNCHANGED vars
    PROVE  SocketInv'
<1> USE DEF server, io, caller, queues
<1>1. PICK k \in 0..Len(sent) : Inv(k)
    BY DEF SocketInv
<1>2. /\ UNCHANGED <<protocol, server, wire, tempBuffer, queues, received, caller, toClient, gaveUp>>
      /\ channelOpen' \in BOOLEAN /\ ioPc' \in {"idle", "onRead"}
    BY DEF NothingToSplit, SplitFails, vars, SocketInv, Typed
<1>3. Typed'
    BY <1>2 DEF SocketInv, Typed
<1>4. Stream(k)'
    BY <1>1, <1>2 DEF Inv, Stream
<1>5. Numbered' /\ Asked' /\ Once' /\ HeldInOrder' /\ Fitting' /\ Ahead'
      /\ SplitOff(k)' /\ InOrder(k)' /\ Waits(k)' /\ k \in 0..Len(sent')
    <2>1. UNCHANGED Held
        BY <1>2 DEF Held
    <2> QED
        BY <1>1, <1>2, <2>1, OthersKeep DEF SocketInv, Inv
<1> QED
    BY <1>3, <1>4, <1>5 DEF SocketInv, Inv

-----------------------------------------------------------------------------
(* A request is made when no call is under way: the answers that are still *)
(* to come are late ones.                                                  *)
LEMMA SendAndExpectKeeps ==
    ASSUME SocketInv, NEW kind \in Kinds, SendAndExpect(kind)
    PROVE  SocketInv'
<1> USE DEF server, io, caller, queues
<1>1. PICK k \in 0..Len(sent) : Inv(k)
    BY DEF SocketInv
<1>2. /\ call' \in Requests /\ call'.n = call.n + 1 /\ call.n \in Nat
      /\ unanswered \in Seq(Requests) /\ Len(unanswered) \in Nat /\ Len(sent) \in Nat
      /\ sent \in Seq(Frames)
    BY ConstantsAssumption DEF SendAndExpect, SocketInv, Typed, Requests, NoRequest, Request
<1>3. \/ unanswered' = Append(unanswered, call') /\ callPc' = "read"
      \/ unanswered' = unanswered /\ callPc' = "idle"
    BY DEF SendAndExpect
<1>4. /\ UNCHANGED <<protocol, sent, wire, channelOpen, tempBuffer, ioPc, inputQueue, tasks, received, answer,
                     toClient, gaveUp>>
      /\ callPc = "idle"
    BY DEF SendAndExpect
<1>5. unanswered' \in Seq(Requests) /\ Len(unanswered') <= Len(unanswered) + 1 /\ Len(unanswered') \in Nat
    BY <1>2, <1>3
<1>6. Typed'
    <2>1. callPc' \in {"idle", "read", "found"}
        BY <1>3
    <2> QED
        BY <1>2, <1>4, <1>5, <2>1 DEF SocketInv, Typed
<1>7. Numbered'
    <2>1. Cardinality(PushesIn(sent)) \in Nat
        BY PushesCounted DEF SocketInv, Typed
    <2>2. Len(sent) - Cardinality(PushesIn(sent)) + Len(unanswered') <= call'.n
        BY <1>2, <1>5, <2>1 DEF SocketInv, Numbered
    <2> QED
        BY <1>4, <2>2 DEF SocketInv, Numbered
<1> DEFINE last == Len(unanswered) + 1
<1>8. /\ \A i \in DOMAIN unanswered' :
            \/ i \in DOMAIN unanswered /\ unanswered'[i] = unanswered[i] /\ i < last
            \/ i = last /\ unanswered'[i] = call' /\ callPc' = "read"
      /\ last \in Nat
    <2>1. CASE unanswered' = Append(unanswered, call') /\ callPc' = "read"
        <3>1. /\ Len(unanswered') = last /\ unanswered' \in Seq(Requests)
              /\ \A i \in 1..Len(unanswered) : unanswered'[i] = unanswered[i]
              /\ unanswered'[last] = call'
            BY <1>2, <2>1, AppendProperties
        <3>2. \A i \in 1..last : (i \in 1..Len(unanswered) /\ i < last) \/ i = last
            BY <1>2
        <3> QED
            BY <1>2, <2>1, <3>1, <3>2
    <2>2. CASE unanswered' = unanswered
        <3>1. \A i \in DOMAIN unanswered : i < last
            BY <1>2
        <3> QED
            BY <1>2, <2>2, <3>1
    <2> QED
        BY <1>3, <2>1, <2>2
<1> HIDE DEF last
<1>9. ASSUME NEW r, r.n \in Int, MadeBefore(call, r)
      PROVE  MadeBefore(call', r) /\ r.n < call'.n /\ r # call'
    BY <1>2, <1>9 DEF MadeBefore
<1>10. /\ \A i \in DOMAIN unanswered : unanswered[i].n \in Int
       /\ \A n \in DOMAIN sent : ~IsPush(sent[n]) => sent[n].of.n \in Int
    <2>1. \A f \in Frames : ~IsPush(f) => f.of \in Requests
        BY DEF Frames, IsPush
    <2>2. \A r \in Requests : r.n \in Int
        BY DEF Requests
    <2>3. \A n \in DOMAIN sent : sent[n] \in Frames
        BY <1>2
    <2>4. \A i \in DOMAIN unanswered : unanswered[i] \in Requests
        BY <1>2
    <2> QED
        BY <2>1, <2>2, <2>3, <2>4
<1>11. Asked'
    <2>1. \A i \in DOMAIN unanswered' : MadeBefore(call', unanswered'[i])
        <3>1. MadeBefore(call', call')
            BY <1>2 DEF MadeBefore
        <3> QED
            BY <1>8, <1>9, <1>10, <3>1 DEF SocketInv, Asked
    <2>2. ASSUME NEW i \in DOMAIN unanswered', NEW j \in DOMAIN unanswered', i < j
          PROVE  unanswered'[i].n < unanswered'[j].n
        <3>1. i # last
            BY <1>8, <2>2
        <3>2. i \in DOMAIN unanswered /\ unanswered'[i] = unanswered[i]
            BY <1>8, <3>1
        <3> QED
            BY <1>8, <1>9, <1>10, <2>2, <3>2 DEF SocketInv, Asked
    <2>3. \A n \in DOMAIN sent : ~IsPush(sent[n]) => MadeBefore(call', sent[n].of)
        BY <1>9, <1>10 DEF SocketInv, Asked
    <2>4. \A n \in DOMAIN sent, i \in DOMAIN unanswered' :
              ~IsPush(sent[n]) => sent[n].of.n < unanswered'[i].n
        BY <1>8, <1>9, <1>10 DEF SocketInv, Asked
    <2> QED
        BY <1>4, <2>1, <2>2, <2>3, <2>4 DEF SocketInv, Asked
<1>12. Once' /\ HeldInOrder'
    BY <1>4 DEF SocketInv, Once, HeldInOrder, Held
<1>13. Fitting'
    BY <1>2, <1>3, <1>4 DEF SocketInv, Fitting, Fits, Unsure, Alike
<1>14. Ahead'
    <2>1. ASSUME NEW n \in DOMAIN sent PROVE sent[n].of # call'
        <3>1. CASE IsPush(sent[n])
            BY <1>2, <3>1, NoRequestIsNone DEF IsPush
        <3>2. CASE ~IsPush(sent[n])
            BY <1>9, <1>10, <3>2 DEF SocketInv, Asked
        <3> QED
            BY <3>1, <3>2
    <2> QED
        BY <1>4, <2>1 DEF SocketInv, Ahead, AnswersNotOvertaken
<1>15. Stream(k)' /\ k \in 0..Len(sent')
    BY <1>1, <1>4 DEF Inv, Stream
<1>16. SplitOff(k)' /\ InOrder(k)'
    BY <1>1, <1>4 DEF Inv, SplitOff, InOrder, InTasks, WithClient, Held
<1>17. Waits(k)'
    <2>1. \A r : Awaited(r) => Awaited(r)'
        BY <1>4 DEF Awaited, Unsure, Alike
    <2>2. ASSUME NEW i \in DOMAIN unanswered'
          PROVE  (callPc' = "read" /\ unanswered'[i] = call') \/ Unsure(unanswered[i])'
        <3>1. CASE i \in DOMAIN unanswered /\ unanswered'[i] = unanswered[i]
            <4>1. Unsure(unanswered[i])
                BY <1>1, <1>4, <3>1 DEF Inv, Waits, Awaited
            <4> QED
                BY <1>4, <3>1, <4>1 DEF Unsure, Alike
        <3> QED
            BY <1>8, <3>1
    <2> QED
        BY <1>1, <1>4, <2>1, <2>2 DEF Inv, Waits, Awaited, Held
<1> QED
    BY <1>6, <1>7, <1>11, <1>12, <1>13, <1>14, <1>15, <1>16, <1>17 DEF SocketInv, Inv

(* The first of some indices is one of them.                               *)
LEMMA FirstIsOne ==
    ASSUME NEW hits \in SUBSET Nat, hits # {}
    PROVE  First(hits) \in hits
<1>1. PICK x \in hits : \A y \in hits : ~ (<<y, x>> \in OpToRel(<, Nat))
    BY WFMin, NatLessThanWellFounded
<1>2. \A y \in hits : ~ (y < x)
    BY <1>1 DEF OpToRel
<1>3. \A y \in hits : x <= y
    BY <1>2
<1> QED
    BY <1>3 DEF First

(* What is left when one element is taken out.                             *)
LEMMA RemoveAtIs ==
    ASSUME NEW frames \in Seq(Frames), NEW h \in DOMAIN frames
    PROVE  /\ RemoveAt(frames, h) \in Seq(Frames)
           /\ Len(RemoveAt(frames, h)) = Len(frames) - 1
           /\ \A i \in 1..(Len(frames) - 1) :
                 RemoveAt(frames, h)[i] = frames[IF i < h THEN i ELSE i + 1]
<1> DEFINE before == SubSeq(frames, 1, h - 1)
           after  == SubSeq(frames, h + 1, Len(frames))
<1>1. Len(frames) \in Nat /\ h \in 1..Len(frames) /\ \A i \in 1..Len(frames) : frames[i] \in Frames
    OBVIOUS
<1>2. /\ before \in Seq(Frames) /\ Len(before) = h - 1
      /\ \A i \in 1..(h - 1) : before[i] = frames[i]
    BY <1>1, SubSeqProperties
<1>3. /\ after \in Seq(Frames) /\ Len(after) = Len(frames) - h
      /\ \A i \in 1..(Len(frames) - h) : after[i] = frames[h + i]
    BY <1>1, SubSeqProperties
<1>4. RemoveAt(frames, h) = before \o after
    BY DEF RemoveAt
<1> HIDE DEF before, after
<1>5. /\ RemoveAt(frames, h) \in Seq(Frames)
      /\ Len(RemoveAt(frames, h)) = Len(frames) - 1
      /\ \A i \in 1..(Len(frames) - 1) :
            RemoveAt(frames, h)[i] = IF i <= h - 1 THEN before[i] ELSE after[i - (h - 1)]
    <2>1. /\ before \o after \in Seq(Frames)
          /\ Len(before \o after) = Len(before) + Len(after)
          /\ \A i \in 1..(Len(before) + Len(after)) :
                (before \o after)[i] = IF i <= Len(before) THEN before[i] ELSE after[i - Len(before)]
        BY <1>2, <1>3, ConcatProperties, Zenon
    <2>2. Len(before) + Len(after) = Len(frames) - 1
        BY <1>1, <1>2, <1>3
    <2> QED
        BY <1>1, <1>2, <1>4, <2>1, <2>2
<1>6. ASSUME NEW i \in 1..(Len(frames) - 1)
      PROVE  RemoveAt(frames, h)[i] = frames[IF i < h THEN i ELSE i + 1]
    <2>1. CASE i < h
        <3>1. i \in 1..(h - 1) /\ i <= h - 1
            BY <1>1, <2>1
        <3> QED
            BY <1>2, <1>5, <2>1, <3>1
    <2>2. CASE ~(i < h)
        <3>1. i - (h - 1) \in 1..(Len(frames) - h) /\ h + (i - (h - 1)) = i + 1 /\ ~(i <= h - 1)
            BY <1>1, <2>2
        <3> QED
            BY <1>3, <1>5, <2>2, <3>1
    <2> QED
        BY <2>1, <2>2
<1> QED
    BY <1>5, <1>6

(* The others stay, in their order.                                        *)
LEMMA OthersStay ==
    ASSUME NEW frames \in Seq(Frames), NEW h \in DOMAIN frames, NEW rest, rest = RemoveAt(frames, h),
           \A i, j \in DOMAIN frames : i < j => frames[i].n < frames[j].n
    PROVE  /\ \A i \in DOMAIN rest : \E j \in DOMAIN frames :
                 rest[i] = frames[j] /\ frames[j].n # frames[h].n
           /\ \A i, j \in DOMAIN rest : i < j => rest[i].n < rest[j].n
<1> DEFINE from(i) == IF i < h THEN i ELSE i + 1
<1>1. /\ Len(frames) \in Nat /\ h \in 1..Len(frames) /\ DOMAIN frames = 1..Len(frames)
      /\ \A i \in 1..Len(frames) : frames[i].n \in Int
    <2>1. \A f \in Frames : f.n \in Int
        BY DEF Frames
    <2>2. \A i \in 1..Len(frames) : frames[i] \in Frames
        OBVIOUS
    <2> QED
        BY <2>1, <2>2
<1>2. DOMAIN rest = 1..(Len(frames) - 1) /\ \A i \in DOMAIN rest : rest[i] = frames[from(i)]
    <2>1. rest \in Seq(Frames) /\ Len(rest) = Len(frames) - 1
        BY RemoveAtIs
    <2>2. DOMAIN rest = 1..(Len(frames) - 1)
        BY <1>1, <2>1
    <2>3. \A i \in 1..(Len(frames) - 1) : rest[i] = frames[IF i < h THEN i ELSE i + 1]
        BY RemoveAtIs
    <2> QED
        BY <2>2, <2>3
<1>3. \A i \in DOMAIN rest : from(i) \in DOMAIN frames /\ (from(i) < h \/ h < from(i))
    BY <1>1, <1>2
<1>4. \A i, j \in DOMAIN rest : i < j => from(i) < from(j)
    BY <1>1, <1>2
<1> HIDE DEF from
<1>5. \A i \in DOMAIN rest : frames[from(i)].n # frames[h].n
    BY <1>1, <1>3
<1> QED
    BY <1>2, <1>3, <1>4, <1>5

(***************************************************************************)
(* read takes the first frame its state can run: the answer to the call,   *)
(* or an earlier one after a wait ran out, and then the answer to the call *)
(* itself will be a late one.                                              *)
(***************************************************************************)
LEMMA ReadKeeps ==
    ASSUME SocketInv, Read
    PROVE  SocketInv'
<1> USE DEF server, io, caller, queues
<1>1. PICK k \in 0..Len(sent) : Inv(k)
    BY DEF SocketInv
<1> DEFINE hits == Hits(Held)
           h == First(hits)
<1>2. received \in Seq(Frames) /\ inputQueue \in Seq(Frames) /\ k \in Nat /\ Len(sent) \in Nat
      /\ sent \in Seq(Frames) /\ DOMAIN sent = 1..Len(sent) /\ k <= Len(sent)
    BY DEF SocketInv, Typed
<1>3. Held \in Seq(Frames)
    BY <1>2, ConcatProperties DEF Held
<1>4. hits \in SUBSET Nat /\ hits \subseteq DOMAIN Held /\ \A i \in hits : CanRun(Held[i])
    BY <1>3 DEF Hits
<1>5. /\ hits = {} => received' = Held /\ callPc' = callPc /\ answer' = answer
      /\ hits # {} => received' = RemoveAt(Held, h) /\ answer' = Held[h] /\ callPc' = "found"
      /\ inputQueue' = <<>> /\ callPc = "read"
    BY DEF Read, Held
<1>6. UNCHANGED <<protocol, unanswered, sent, wire, channelOpen, tempBuffer, ioPc, tasks, call, toClient, gaveUp>>
    BY DEF Read
<1> HIDE DEF hits, h
<1>7. hits # {} => h \in DOMAIN Held /\ CanRun(Held[h])
    BY <1>4, FirstIsOne DEF h
<1>8. /\ received' \in Seq(Frames) /\ answer' \in Frames \cup {NoFrame}
      /\ callPc' \in {"idle", "read", "found"} /\ inputQueue' \in Seq(Frames)
    <2>1. inputQueue' \in Seq(Frames)
        BY <1>5, EmptySeq
    <2>2. CASE hits = {}
        BY <1>3, <1>5, <2>1, <2>2 DEF SocketInv, Typed
    <2>3. CASE hits # {}
        <3>1. RemoveAt(Held, h) \in Seq(Frames) /\ Held[h] \in Frames
            BY <1>3, <1>7, <2>3, RemoveAtIs
        <3> QED
            BY <1>5, <2>1, <2>3, <3>1
    <2> QED
        BY <2>2, <2>3
<1>9. Typed'
    BY <1>6, <1>8 DEF SocketInv, Typed
<1>10. Stream(k)' /\ k \in 0..Len(sent')
    BY <1>1, <1>6 DEF Inv, Stream
<1>11. Held' = received'
    <2>1. Held' = received' \o <<>>
        BY <1>5 DEF Held
    <2> QED
        BY <1>8, <2>1, ConcatEmptySeq
<1>12. CASE hits = {}
    <2>1. UNCHANGED <<Held, callPc, answer>>
        BY <1>5, <1>11, <1>12
    <2>2. Numbered' /\ Asked' /\ Once' /\ HeldInOrder' /\ Fitting' /\ Ahead'
          /\ SplitOff(k)' /\ InOrder(k)' /\ Waits(k)' /\ k \in 0..Len(sent')
        BY <1>1, <1>6, <2>1, OthersKeep DEF SocketInv, Inv
    <2> QED
        BY <1>9, <1>10, <2>2 DEF SocketInv, Inv
<1>13. CASE hits # {}
    <2> DEFINE f == Held[h]
    <2>1. /\ SplitOff(k) /\ InOrder(k) /\ Waits(k)
          /\ Asked /\ Once /\ HeldInOrder /\ Fitting /\ Ahead
        BY <1>1 DEF SocketInv, Inv
    <2>2. h \in DOMAIN Held /\ CanRun(f) /\ f \in Frames /\ Known(sent, f, k) /\ ~IsPush(f)
        BY <1>3, <1>7, <1>13, <2>1 DEF SplitOff
    <2>3. /\ \A i \in DOMAIN Held' : \E j \in DOMAIN Held : Held'[i] = Held[j] /\ Held[j].n # f.n
          /\ \A i, j \in DOMAIN Held' : i < j => Held'[i].n < Held'[j].n
        BY <1>3, <1>5, <1>11, <1>13, <2>1, <2>2, OthersStay DEF HeldInOrder
    <2>4. answer' = f /\ callPc' = "found" /\ f # NoFrame
        BY <1>5, <1>13, <2>2, NoFrameIsNone
    <2>5. \A i \in DOMAIN toClient : toClient[i].frame # NoFrame => toClient[i].frame # f
        BY <2>1, <2>2 DEF Once
    <2> HIDE DEF f
    <2>6. /\ f.n \in DOMAIN sent /\ sent[f.n] = f /\ f.n \in 1..k
          /\ f.of \in Requests /\ f.of.n \in Int
        <3>1. f.of \in Requests
            BY <2>2 DEF Frames, IsPush
        <3> QED
            BY <1>2, <2>2, <3>1 DEF Known, Requests
    <2>7. Numbered' /\ Asked'
        BY <1>6, <2>1 DEF SocketInv, Numbered, Asked, MadeBefore
    <2>8. Once' /\ HeldInOrder'
        <3>1. \A j \in DOMAIN Held' : Held'[j] # f
            BY <2>3
        <3>2. HeldInOrder'
            BY <2>3 DEF HeldInOrder
        <3> QED
            BY <1>6, <2>1, <2>3, <2>4, <2>5, <3>1, <3>2 DEF Once
    <2>9. Awaited(f.of) /\ MadeBefore(call, f.of)
        BY <2>1, <2>2, <2>6 DEF Waits, Asked, f
    <2>10. call \in Requests /\ call.n \in Int
        BY <1>5, <2>1 DEF Fitting, Requests
    <2>11. Alike(f.of, call)
        BY <2>2 DEF CanRun, Alike
    <2>12. f.of = call \/ (f.of.n < call.n /\ Unsure(f.of))
        BY <2>6, <2>9, <2>10 DEF Awaited, MadeBefore
    <2>13. Fits(f, call)
        BY <2>2, <2>4, <2>11, <2>12 DEF Fits
    <2>14. Fitting'
        <3>1. \A g, r : Fits(g, r) => Fits(g, r)'
            BY <1>6 DEF Fits, Unsure, Alike
        <3> QED
            BY <1>6, <2>1, <2>4, <2>10, <2>13, <3>1 DEF Fitting
    <2>15. Ahead'
        BY <1>5, <1>6, <2>1, <2>4 DEF Ahead, AnswersNotOvertaken
    <2>16. SplitOff(k)' /\ InOrder(k)'
        <3>1. SplitOff(k)'
            BY <1>6, <2>1, <2>2, <2>3, <2>4 DEF SplitOff
        <3>2. InOrder(k)'
            BY <1>6, <2>1 DEF InOrder, InTasks, WithClient
        <3> QED
            BY <3>1, <3>2
    <2>17. Waits(k)'
        <3>1. f.of # call => Unsure(call)
            <4> SUFFICES ASSUME f.of # call PROVE Unsure(call)
                OBVIOUS
            <4>1. PICK g \in gaveUp : g.n <= f.of.n /\ Alike(g, f.of)
                BY <2>12 DEF Unsure
            <4>2. g.n \in Int
                BY <4>1 DEF SocketInv, Typed, Requests
            <4>3. g.n <= call.n
                BY <2>6, <2>10, <2>12, <4>1, <4>2
            <4>4. Alike(g, call)
                BY <2>11, <4>1 DEF Alike
            <4> QED
                BY <4>3, <4>4 DEF Unsure
        <3>2. \A r : Awaited(r) /\ (f.of = call => r # call) => Unsure(r)
            BY <3>1 DEF Awaited
        <3>3. \A i \in DOMAIN unanswered : Unsure(unanswered[i])
            <4>1. \A i \in DOMAIN unanswered : f.of.n < unanswered[i].n
                BY <2>1, <2>2, <2>6 DEF Asked
            <4>2. \A i \in DOMAIN unanswered : f.of # unanswered[i]
                BY <2>6, <4>1
            <4> QED
                BY <2>1, <3>2, <4>2 DEF Waits
        <3>4. ASSUME NEW n \in DOMAIN sent, ~IsPush(sent[n]), n # f.n, Awaited(sent[n].of)
              PROVE  Unsure(sent[n].of)
            <4>1. n < f.n \/ f.n < n
                BY <1>2, <2>6, <3>4
            <4>2. sent[n].of.n < f.of.n \/ f.of.n < sent[n].of.n
                BY <2>1, <2>2, <2>6, <3>4, <4>1 DEF Asked
            <4>3. sent[n].of # f.of
                BY <2>6, <4>2
            <4> QED
                BY <3>2, <3>4, <4>3
        <3>5. \A n \in (k + 1)..Len(sent) : ~IsPush(sent[n]) => Unsure(sent[n].of)
            <4>1. \A n \in (k + 1)..Len(sent) : n \in DOMAIN sent /\ n # f.n
                BY <1>2, <2>6
            <4> QED
                BY <2>1, <3>4, <4>1 DEF Waits
        <3>6. ASSUME NEW i \in DOMAIN Held' PROVE Unsure(Held'[i].of)
            <4>1. PICK j \in DOMAIN Held : Held'[i] = Held[j] /\ Held[j].n # f.n
                BY <2>3
            <4>2. /\ Held[j].n \in DOMAIN sent /\ sent[Held[j].n] = Held[j] /\ ~IsPush(Held[j])
                  /\ Awaited(Held[j].of)
                BY <1>2, <2>1 DEF SplitOff, Known, Waits
            <4> QED
                BY <3>4, <4>1, <4>2
        <3>7. \A r : Unsure(r) => Awaited(r)'
            BY <1>6 DEF Awaited, Unsure, Alike
        <3>8. \A i \in DOMAIN Held' : Awaited(Held[i].of)'
            BY <3>6, <3>7
        <3> QED
            BY <1>6, <3>3, <3>5, <3>7, <3>8 DEF Waits
    <2> QED
        BY <1>9, <1>10, <2>7, <2>8, <2>14, <2>15, <2>16, <2>17 DEF SocketInv, Inv
<1> QED
    BY <1>12, <1>13

(* When the two seconds are over the answer to the call is a late one.     *)
LEMMA ReadTimesOutKeeps ==
    ASSUME SocketInv, ReadTimesOut
    PROVE  SocketInv'
<1> USE DEF server, io, caller, queues
<1>1. PICK k \in 0..Len(sent) : Inv(k)
    BY DEF SocketInv
<1>2. /\ \/ answer' = NoFrame /\ callPc' = "found"
         \/ answer' = answer /\ callPc' = "idle"
      /\ gaveUp' = gaveUp \cup {call} /\ callPc = "read"
    BY DEF ReadTimesOut
<1>3. UNCHANGED <<protocol, unanswered, sent, wire, channelOpen, io, queues, received, call, toClient>>
    BY DEF ReadTimesOut
<1>4. answer = NoFrame /\ call \in Requests
    BY <1>2 DEF SocketInv, Fitting
<1>5. Typed'
    <2>1. answer' \in Frames \cup {NoFrame} /\ callPc' \in {"idle", "read", "found"}
        BY <1>2 DEF SocketInv, Typed
    <2>2. gaveUp' \subseteq Requests
        BY <1>2, <1>4 DEF SocketInv, Typed
    <2> QED
        BY <1>3, <2>1, <2>2 DEF SocketInv, Typed
<1>6. UNCHANGED <<Held, answer>>
    BY <1>2, <1>3, <1>4 DEF Held
<1>7. Numbered' /\ Asked'
    BY <1>3 DEF SocketInv, Numbered, Asked, MadeBefore
<1>8. Once' /\ HeldInOrder'
    BY <1>3, <1>6 DEF SocketInv, Once, HeldInOrder
<1>9. \A r : Unsure(r) => Unsure(r)'
    BY <1>2, <1>3 DEF Unsure, Alike
<1>10. Fitting'
    <2>1. \A f, r : Fits(f, r) => Fits(f, r)'
        BY <1>2, <1>3, <1>9 DEF Fits, Alike
    <2>2. Fits(NoFrame, call)'
        BY <1>2, <1>3 DEF Fits
    <2> QED
        BY <1>2, <1>3, <1>4, <1>6, <2>1, <2>2 DEF SocketInv, Fitting
<1>11. Ahead'
    BY <1>2, <1>3 DEF SocketInv, Ahead, AnswersNotOvertaken
<1>12. Stream(k)' /\ SplitOff(k)' /\ InOrder(k)' /\ k \in 0..Len(sent')
    BY <1>1, <1>3, <1>6 DEF Inv, Stream, SplitOff, InOrder, InTasks, WithClient
<1>13. Waits(k)'
    <2>1. Unsure(call)'
        <3>1. call.n \in Int
            BY <1>4 DEF Requests
        <3> QED
            BY <1>2, <1>3, <3>1 DEF Unsure, Alike
    <2>2. \A r : Awaited(r) => Awaited(r)'
        BY <1>3, <1>9, <2>1 DEF Awaited
    <2> QED
        BY <1>1, <1>3, <1>6, <2>2 DEF Inv, Waits
<1> QED
    BY <1>5, <1>7, <1>8, <1>10, <1>11, <1>12, <1>13 DEF SocketInv, Inv

(* What is written is the last the client has.                             *)
LEMMA WrittenIs ==
    ASSUME toClient \in Seq(Writes), NEW f \in Frames \cup {NoFrame},
           NEW r \in Requests \cup {NoRequest}, Written(f, r), NEW last, last = Len(toClient) + 1
    PROVE  /\ toClient' \in Seq(Writes)
           /\ DOMAIN toClient' = DOMAIN toClient \cup {last}
           /\ \A i \in DOMAIN toClient : toClient'[i] = toClient[i] /\ i < last
           /\ toClient'[last].frame = f /\ toClient'[last].call = r
           /\ last \in Nat /\ DOMAIN toClient \subseteq Nat
<1> DEFINE written == [frame |-> f, call |-> r]
<1>1. written \in Writes /\ written.frame = f /\ written.call = r
    BY DEF Writes
<1>2. toClient' = Append(toClient, written)
    BY DEF Written
<1> HIDE DEF written
<1> QED
    BY <1>1, <1>2

(* The answer found is written; it is no pushed frame.                     *)
LEMMA AnswerClientKeeps ==
    ASSUME SocketInv, AnswerClient
    PROVE  SocketInv'
<1> USE DEF server, io, caller, queues
<1>1. PICK k \in 0..Len(sent) : Inv(k)
    BY DEF SocketInv
<1> DEFINE last == Len(toClient) + 1
<1>2. /\ answer' = NoFrame /\ callPc' = "idle" /\ callPc = "found"
      /\ UNCHANGED <<protocol, unanswered, sent, wire, channelOpen, io, queues, received, call, gaveUp>>
    BY DEF AnswerClient
<1>3. /\ toClient' \in Seq(Writes)
      /\ DOMAIN toClient' = DOMAIN toClient \cup {last}
      /\ \A i \in DOMAIN toClient : toClient'[i] = toClient[i] /\ i < last
      /\ toClient'[last].frame = answer /\ toClient'[last].call = call
      /\ last \in Nat /\ DOMAIN toClient \subseteq Nat
    BY WrittenIs DEF SocketInv, Typed, AnswerClient
<1> HIDE DEF last
<1>4. UNCHANGED Held
    BY <1>2 DEF Held
<1>5. /\ Asked /\ Once /\ HeldInOrder /\ Fitting /\ Ahead
      /\ SplitOff(k) /\ InOrder(k) /\ Waits(k) /\ Stream(k)
    BY <1>1 DEF SocketInv, Inv
<1>6. Typed'
    BY <1>2, <1>3 DEF SocketInv, Typed
<1>7. Numbered' /\ Asked'
    BY <1>2 DEF SocketInv, Numbered, Asked, MadeBefore
<1>8. ~Pushed(answer)
    BY <1>5 DEF SplitOff, Pushed
<1>9. \A i \in DOMAIN toClient' : Pushed(toClient'[i].frame) =>
          i \in DOMAIN toClient /\ toClient'[i] = toClient[i]
    BY <1>3, <1>8
<1>10. Once' /\ HeldInOrder'
    <2>1. ASSUME NEW i \in DOMAIN toClient', NEW j \in DOMAIN toClient', i # j, toClient'[i].frame # NoFrame
          PROVE  toClient'[i].frame # toClient'[j].frame
        BY <1>3, <1>5, <2>1 DEF Once
    <2>2. ASSUME NEW i \in DOMAIN toClient', toClient'[i].frame # NoFrame, NEW j \in DOMAIN Held
          PROVE  Held[j] # toClient'[i].frame
        BY <1>3, <1>5, <2>2 DEF Once
    <2>3. HeldInOrder'
        BY <1>4, <1>5 DEF HeldInOrder
    <2> QED
        BY <1>2, <1>4, <2>1, <2>2, <2>3 DEF Once
<1>11. Fitting'
    <2>1. \A f, r : Fits(f, r) => Fits(f, r)'
        BY <1>2 DEF Fits, Unsure, Alike
    <2>2. \A i \in DOMAIN toClient' : Fits(toClient[i].frame, toClient[i].call)'
        <3>1. \A i \in DOMAIN toClient' : Fits(toClient'[i].frame, toClient'[i].call)
            BY <1>2, <1>3, <1>5 DEF Fitting
        <3> QED
            BY <2>1, <3>1
    <2> QED
        BY <1>2, <2>2 DEF Fitting
<1>12. Ahead'
    <2> SUFFICES ASSUME NEW i \in DOMAIN toClient', NEW j \in DOMAIN toClient',
                        i < j, Pushed(toClient'[i].frame),
                        toClient'[j].call # NoRequest, toClient'[j].frame.of = toClient'[j].call
                 PROVE  toClient'[i].frame.n < toClient'[j].frame.n
        BY <1>2 DEF Ahead, AnswersNotOvertaken
    <2>1. i \in DOMAIN toClient /\ toClient'[i] = toClient[i]
        BY <1>9
    <2>2. CASE j = last
        <3>1. answer.of = call /\ call # NoRequest
            BY <1>3, <2>2
        <3>2. answer # NoFrame
            BY <3>1 DEF NoFrame, Frame
        <3>3. answer.n \in 1..k /\ sent[answer.n] = answer
            BY <1>5, <3>2 DEF SplitOff, Known
        <3>4. answer.n \in DOMAIN sent
            <4>1. sent \in Seq(Frames) /\ Len(sent) \in Nat
                BY DEF SocketInv, Typed
            <4> QED
                BY <3>3, <4>1
        <3> QED
            BY <1>2, <1>3, <1>5, <2>1, <2>2, <3>1, <3>3, <3>4 DEF Ahead
    <2>3. CASE j # last
        BY <1>3, <1>5, <2>1, <2>3 DEF Ahead, AnswersNotOvertaken
    <2> QED
        BY <2>2, <2>3
<1>13. Stream(k)' /\ k \in 0..Len(sent')
    BY <1>2, <1>5 DEF Stream
<1>14. SplitOff(k)'
    <2>1. \A i \in DOMAIN toClient' : toClient'[i].frame # NoFrame => Known(sent, toClient'[i].frame, k)
        BY <1>3, <1>5 DEF SplitOff
    <2> QED
        BY <1>2, <1>4, <1>5, <2>1 DEF SplitOff
<1>15. InOrder(k)'
    <2>1. \A n \in 1..k : WithClient(sent[n]) => WithClient(sent[n])'
        BY <1>2, <1>3 DEF WithClient
    <2>2. \A n \in 1..k : InTasks(sent[n]) => InTasks(sent[n])'
        BY <1>2 DEF InTasks
    <2> QED
        BY <1>2, <1>5, <1>9, <2>1, <2>2 DEF InOrder
<1>16. Waits(k)'
    <2>1. \A r : Awaited(r) => Awaited(r)'
        BY <1>2 DEF Awaited, Unsure, Alike
    <2> QED
        BY <1>2, <1>4, <1>5, <2>1 DEF Waits
<1> QED
    BY <1>6, <1>7, <1>10, <1>11, <1>12, <1>13, <1>14, <1>15, <1>16 DEF SocketInv, Inv

(* The first of the pushed frames that wait is written, between two calls. *)
LEMMA PushClientKeeps ==
    ASSUME SocketInv, PushClient
    PROVE  SocketInv'
<1> USE DEF server, io, caller, queues
<1>1. PICK k \in 0..Len(sent) : Inv(k)
    BY DEF SocketInv
<1> DEFINE last == Len(toClient) + 1
<1>2. PICK f : f = tasks[1]
    OBVIOUS
<1>3. /\ callPc = "idle" /\ Written(f, NoRequest) /\ tasks' = Tail(tasks) /\ tasks # <<>>
      /\ UNCHANGED <<protocol, unanswered, sent, wire, channelOpen, io, inputQueue, received, caller, gaveUp>>
    BY <1>2 DEF PushClient, SocketInv, Typed
<1>4. /\ tasks \in Seq(Frames) /\ 1 \in DOMAIN tasks /\ f \in Frames /\ f # NoFrame
      /\ tasks' \in Seq(Frames) /\ DOMAIN tasks \subseteq Nat /\ DOMAIN tasks' \subseteq Nat
      /\ \A i \in DOMAIN tasks' : i + 1 \in DOMAIN tasks /\ tasks'[i] = tasks[i + 1] /\ 1 < i + 1
      /\ \A i \in DOMAIN tasks : i # 1 => i - 1 \in DOMAIN tasks' /\ tasks'[i - 1] = tasks[i]
    <2>1. tasks \in Seq(Frames)
        BY DEF SocketInv, Typed
    <2> QED
        BY <1>2, <1>3, <2>1, NoFrameIsNone
<1>5. /\ toClient' \in Seq(Writes)
      /\ DOMAIN toClient' = DOMAIN toClient \cup {last}
      /\ \A i \in DOMAIN toClient : toClient'[i] = toClient[i] /\ i < last
      /\ toClient'[last].frame = f /\ toClient'[last].call = NoRequest
      /\ last \in Nat /\ DOMAIN toClient \subseteq Nat
    BY <1>3, <1>4, WrittenIs DEF SocketInv, Typed
<1> HIDE DEF last
<1>6. UNCHANGED Held
    BY <1>3 DEF Held
<1>7. /\ Asked /\ Once /\ HeldInOrder /\ Fitting /\ Ahead
      /\ SplitOff(k) /\ InOrder(k) /\ Waits(k) /\ Stream(k)
    BY <1>1 DEF SocketInv, Inv
<1>8. Known(sent, f, k) /\ IsPush(f) /\ f.n \in Int
    BY <1>2, <1>4, <1>7 DEF SplitOff, Known
<1>9. Typed'
    BY <1>3, <1>4, <1>5 DEF SocketInv, Typed
<1>10. Numbered' /\ Asked'
    BY <1>3 DEF SocketInv, Numbered, Asked, MadeBefore
<1>11. \A i \in DOMAIN toClient : Pushed(toClient[i].frame) => toClient[i].frame.n < f.n
    BY <1>2, <1>4, <1>7 DEF InOrder
<1>12. \A i \in DOMAIN toClient : toClient[i].frame # f
    <2>1. Pushed(f)
        BY <1>4, <1>8 DEF Pushed
    <2> QED
        BY <1>8, <1>11, <2>1
<1>13. answer = NoFrame
    BY <1>3, <1>7 DEF Fitting
<1>14. Once' /\ HeldInOrder'
    <2>1. ASSUME NEW i \in DOMAIN toClient', NEW j \in DOMAIN toClient', i # j, toClient'[i].frame # NoFrame
          PROVE  toClient'[i].frame # toClient'[j].frame
        BY <1>5, <1>7, <1>12, <2>1 DEF Once
    <2>2. ASSUME NEW i \in DOMAIN toClient', toClient'[i].frame # NoFrame, NEW j \in DOMAIN Held
          PROVE  Held[j] # toClient'[i].frame
        <3>1. CASE i = last
            BY <1>5, <1>7, <1>8, <3>1 DEF SplitOff
        <3>2. CASE i # last
            BY <1>5, <1>7, <2>2, <3>2 DEF Once
        <3> QED
            BY <3>1, <3>2
    <2>3. HeldInOrder'
        BY <1>6, <1>7 DEF HeldInOrder
    <2> QED
        BY <1>3, <1>6, <1>13, <2>1, <2>2, <2>3 DEF Once
<1>15. Fitting'
    <2>1. \A g, r : Fits(g, r) => Fits(g, r)'
        BY <1>3 DEF Fits, Unsure, Alike
    <2>2. Fits(f, NoRequest)
        BY <1>4, <1>8 DEF Fits, IsPush
    <2>3. \A i \in DOMAIN toClient' : Fits(toClient[i].frame, toClient[i].call)'
        <3>1. \A i \in DOMAIN toClient' : Fits(toClient'[i].frame, toClient'[i].call)
            BY <1>5, <1>7, <2>2 DEF Fitting
        <3> QED
            BY <2>1, <3>1
    <2> QED
        BY <1>3, <1>13, <2>3 DEF Fitting
<1>16. Ahead'
    <2> SUFFICES ASSUME NEW i \in DOMAIN toClient', NEW j \in DOMAIN toClient',
                        i < j, Pushed(toClient'[i].frame),
                        toClient'[j].call # NoRequest, toClient'[j].frame.of = toClient'[j].call
                 PROVE  toClient'[i].frame.n < toClient'[j].frame.n
        BY <1>3 DEF Ahead, AnswersNotOvertaken
    <2>1. j # last
        BY <1>5
    <2>2. j \in DOMAIN toClient /\ i # last
        BY <1>5, <2>1
    <2>3. i \in DOMAIN toClient
        BY <1>5, <2>2
    <2> QED
        BY <1>5, <1>7, <2>2, <2>3 DEF Ahead, AnswersNotOvertaken
<1>17. Stream(k)' /\ k \in 0..Len(sent')
    BY <1>3, <1>7 DEF Stream
<1>18. SplitOff(k)'
    <2>1. \A i \in DOMAIN toClient' : toClient'[i].frame # NoFrame => Known(sent, toClient'[i].frame, k)
        BY <1>5, <1>7, <1>8 DEF SplitOff
    <2>2. \A i \in DOMAIN tasks' : Known(sent, tasks'[i], k) /\ IsPush(tasks'[i])
        BY <1>4, <1>7 DEF SplitOff
    <2> QED
        BY <1>3, <1>6, <1>7, <2>1, <2>2 DEF SplitOff
<1>19. InOrder(k)'
    <2>1. ASSUME NEW i \in DOMAIN toClient', NEW j \in DOMAIN toClient', i < j,
                 Pushed(toClient'[i].frame), Pushed(toClient'[j].frame)
          PROVE  toClient'[i].frame.n < toClient'[j].frame.n
        <3>1. i \in DOMAIN toClient
            BY <1>5, <2>1
        <3>2. CASE j = last
            BY <1>5, <1>11, <2>1, <3>1, <3>2
        <3>3. CASE j # last
            BY <1>5, <1>7, <2>1, <3>1, <3>3 DEF InOrder
        <3> QED
            BY <3>2, <3>3
    <2>2. \A i, j \in DOMAIN tasks' : i < j => tasks'[i].n < tasks'[j].n
        <3>1. \A i, j \in DOMAIN tasks' : i < j => i + 1 < j + 1
            BY <1>4
        <3> QED
            BY <1>4, <1>7, <3>1 DEF InOrder
    <2>3. ASSUME NEW i \in DOMAIN toClient', NEW j \in DOMAIN tasks', Pushed(toClient'[i].frame)
          PROVE  toClient'[i].frame.n < tasks'[j].n
        <3>1. CASE i = last
            <4>1. tasks[1].n < tasks[j + 1].n
                BY <1>4, <1>7 DEF InOrder
            <4> QED
                BY <1>2, <1>4, <1>5, <3>1, <4>1
        <3>2. CASE i # last
            BY <1>4, <1>5, <1>7, <2>3, <3>2 DEF InOrder
        <3> QED
            BY <3>1, <3>2
    <2>4. ASSUME NEW n \in 1..k, IsPush(sent[n])
          PROVE  InTasks(sent[n])' \/ WithClient(sent[n])'
        <3>1. CASE WithClient(sent[n])
            BY <1>3, <1>5, <3>1 DEF WithClient
        <3>2. CASE InTasks(sent[n])
            <4>1. PICK i \in DOMAIN tasks : tasks[i] = sent[n]
                BY <3>2 DEF InTasks
            <4>2. CASE i = 1
                BY <1>2, <1>3, <1>5, <4>1, <4>2 DEF WithClient
            <4>3. CASE i # 1
                BY <1>3, <1>4, <4>1, <4>3 DEF InTasks
            <4> QED
                BY <4>2, <4>3
        <3> QED
            BY <1>7, <2>4, <3>1, <3>2 DEF InOrder
    <2> QED
        BY <1>3, <2>1, <2>2, <2>3, <2>4 DEF InOrder
<1>20. Waits(k)'
    <2>1. \A r : Awaited(r) => Awaited(r)'
        BY <1>3 DEF Awaited, Unsure, Alike
    <2> QED
        BY <1>3, <1>6, <1>7, <2>1 DEF Waits
<1> QED
    BY <1>9, <1>10, <1>14, <1>15, <1>16, <1>17, <1>18, <1>19, <1>20 DEF SocketInv, Inv

-----------------------------------------------------------------------------
(* SocketInv is an invariant of the socket.                                *)
LEMMA SocketInvariant == Spec => []SocketInv
<1>1. Init => SocketInv
    BY InitSocketInv
<1>2. SocketInv /\ [Next]_vars => SocketInv'
    BY ServerAnswersKeeps, ServerPushesKeeps, ChannelReadKeeps, SplitFrameKeeps, NothingMovesKeeps,
       SendAndExpectKeeps, ReadKeeps, ReadTimesOutKeeps, AnswerClientKeeps, PushClientKeeps
       DEF Next, IoThread, Executor
<1> QED
    BY <1>1, <1>2, PTL DEF Spec

(***************************************************************************)
(* The types of the socket hold for any protocols, kinds and bounds; in    *)
(* particular onRead always finds the first byte of a frame at the start   *)
(* of tempBuffer, and no pushed frame waits in inputQueue.                 *)
(***************************************************************************)
THEOREM SocketTypes == Spec => []TypeOK
<1>1. SocketInv => TypeOK
    <2> SUFFICES ASSUME SocketInv PROVE TypeOK
        OBVIOUS
    <2>1. PICK k \in 0..Len(sent) : Inv(k)
        BY DEF SocketInv
    <2>2. tempBuffer # <<>> => Head(tempBuffer).part = 1
        <3>1. tempBuffer # <<>> => tempBuffer[1].part = 1
            BY <2>1, NextFrame DEF SocketInv, Inv
        <3>2. tempBuffer \in Seq(FrameParts)
            BY DEF SocketInv, Typed
        <3> QED
            BY <3>1, <3>2
    <2>3. ASSUME NEW i \in DOMAIN inputQueue PROVE ~IsPush(inputQueue[i])
        <3>1. received \in Seq(Frames) /\ inputQueue \in Seq(Frames)
            BY DEF SocketInv, Typed
        <3>2. Len(received) + i \in DOMAIN Held /\ Held[Len(received) + i] = inputQueue[i]
            BY <3>1, ConcatProperties DEF Held
        <3> QED
            BY <2>1, <3>2 DEF Inv, SplitOff
    <2>4. \A i \in DOMAIN tasks : IsPush(tasks[i])
        BY <2>1 DEF Inv, SplitOff
    <2> QED
        BY <2>2, <2>3, <2>4 DEF SocketInv, Typed, TypeOK, FrameParts, Writes
<1> QED
    BY <1>1, SocketInvariant, PTL

(***************************************************************************)
(* For any number of requests and however the server's bytes are cut, what *)
(* sendAndExpect returns to the client is the server's answer to that      *)
(* request and given once; one made up, or an older one left in received,  *)
(* comes only after the two seconds of a request like it ran out.          *)
(***************************************************************************)
THEOREM AnswersCorrect == Spec => []AnswersMatch
<1>1. SocketInv => AnswersMatch
    BY DEF SocketInv, Fitting, Once, AnswersMatch
<1> QED
    BY <1>1, SocketInvariant, PTL

(***************************************************************************)
(* For any number of pushed frames, no frame the server pushed after an    *)
(* answer is written to the client before that answer, unless the answer   *)
(* came too late for its request.                                          *)
(***************************************************************************)
THEOREM OvertakingCorrect == Spec => []AnswersNotOvertaken
<1>1. SocketInv => AnswersNotOvertaken
    BY DEF SocketInv, Ahead
<1> QED
    BY <1>1, SocketInvariant, PTL

(* The first part of a frame stands where no other does.                   *)
LEMMA FrameAtPlace ==
    ASSUME NEW n \in Nat, NEW k \in Nat, NEW m \in Nat, NEW r \in 1..3,
           3 * (m - 1) + r = 3 * k + (3 * (n - k - 1) + 1)
    PROVE  m = n
OBVIOUS

(* The frames that are on their way are those that were not split off.     *)
LEMMA OnItsWayIs ==
    ASSUME Typed, Numbered, NEW k \in 0..Len(sent), Stream(k), NEW n \in DOMAIN sent
    PROVE  OnItsWay(sent[n]) <=> n > k
<1> DEFINE pos == 3 * (n - k - 1) + 1
<1>1. /\ tempBuffer \in Seq(FrameParts) /\ wire \in Seq(FrameParts) /\ sent \in Seq(Frames)
      /\ Len(tempBuffer) \in Nat /\ Len(wire) \in Nat /\ Len(sent) \in Nat
      /\ k \in Nat /\ n \in 1..Len(sent) /\ sent[n].n = n
      /\ Len(tempBuffer) + Len(wire) = 3 * (Len(sent) - k)
    BY DEF Typed, Numbered, Stream
<1>2. ASSUME NEW p \in FrameParts, NEW at \in Nat, InPlace(sent, p, 3 * k + at), at > 0
      PROVE  p.frame = sent[n] => n > k
    <2>1. p.part \in 1..3 /\ p.frame.n \in Nat
        BY DEF FrameParts, Frames
    <2>2. p.frame = sent[n] => p.frame.n = n
        BY <1>1
    <2>3. p.frame.n > k
        <3> DEFINE m == p.frame.n
                   r == p.part
        <3>1. m \in Nat /\ r \in 1..3 /\ 3 * (m - 1) + r = 3 * k + at
            BY <1>2, <2>1 DEF InPlace
        <3> HIDE DEF m, r
        <3>2. m > k
            BY <1>1, <1>2, <3>1
        <3> QED
            BY <3>2 DEF m
    <2> QED
        BY <2>2, <2>3
<1>3. ASSUME OnItsWay(sent[n]) PROVE n > k
    <2>1. CASE \E i \in DOMAIN tempBuffer : tempBuffer[i].frame = sent[n]
        <3>1. PICK i \in DOMAIN tempBuffer : tempBuffer[i].frame = sent[n]
            BY <2>1
        <3>2. i \in Nat /\ i > 0 /\ tempBuffer[i] \in FrameParts /\ InPlace(sent, tempBuffer[i], 3 * k + i)
            BY <1>1, <3>1 DEF Stream
        <3> QED
            BY <1>2, <3>1, <3>2
    <2>2. CASE \E i \in DOMAIN wire : wire[i].frame = sent[n]
        <3>1. PICK i \in DOMAIN wire : wire[i].frame = sent[n]
            BY <2>2
        <3> DEFINE at == Len(tempBuffer) + i
        <3>2. at \in Nat /\ at > 0 /\ wire[i] \in FrameParts /\ 3 * k + at = 3 * k + Len(tempBuffer) + i
            <4>1. i \in Nat /\ i > 0 /\ wire[i] \in FrameParts
                BY <1>1, <3>1
            <4> QED
                BY <1>1, <4>1
        <3>3. InPlace(sent, wire[i], 3 * k + Len(tempBuffer) + i)
            BY <3>1 DEF Stream
        <3> HIDE DEF at
        <3> QED
            BY <1>2, <3>1, <3>2, <3>3
    <2> QED
        BY <1>3, <2>1, <2>2 DEF OnItsWay
<1>4. ASSUME NEW p \in FrameParts, InPlace(sent, p, 3 * k + pos)
      PROVE  p.frame = sent[n]
    <2>1. p.part \in 1..3 /\ p.frame.n \in Nat
        BY DEF FrameParts, Frames
    <2>2. p.frame.n = n
        <3> DEFINE m == p.frame.n
                   r == p.part
        <3>1. m \in Nat /\ r \in 1..3 /\ 3 * (m - 1) + r = 3 * k + pos
            BY <1>4, <2>1 DEF InPlace
        <3> HIDE DEF m, r
        <3>2. n \in Nat /\ k \in Nat
            BY <1>1
        <3>3. m = n
            BY <3>1, <3>2, FrameAtPlace, Zenon
        <3> QED
            BY <3>3 DEF m
    <2> QED
        BY <1>4, <2>2 DEF InPlace
<1>5. ASSUME n > k PROVE OnItsWay(sent[n])
    <2>1. pos \in Nat /\ pos > 0 /\ pos <= Len(tempBuffer) + Len(wire)
        BY <1>1, <1>5
    <2> HIDE DEF pos
    <2>2. CASE pos <= Len(tempBuffer)
        <3>1. pos \in DOMAIN tempBuffer /\ tempBuffer[pos] \in FrameParts
            BY <1>1, <2>1, <2>2
        <3>2. InPlace(sent, tempBuffer[pos], 3 * k + pos)
            BY <3>1 DEF Stream
        <3> QED
            BY <1>4, <3>1, <3>2 DEF OnItsWay
    <2>3. CASE ~(pos <= Len(tempBuffer))
        <3> DEFINE i == pos - Len(tempBuffer)
        <3>1. /\ i \in DOMAIN wire /\ wire[i] \in FrameParts
              /\ 3 * k + Len(tempBuffer) + i = 3 * k + pos
            BY <1>1, <2>1, <2>3
        <3> HIDE DEF i
        <3>2. InPlace(sent, wire[i], 3 * k + Len(tempBuffer) + i)
            BY <3>1 DEF Stream
        <3> QED
            BY <1>4, <3>1, <3>2 DEF OnItsWay
    <2> QED
        BY <2>2, <2>3
<1> QED
    BY <1>3, <1>5

(***************************************************************************)
(* For any number of pushed frames and however the bytes are cut, each     *)
(* frame the server pushed is on its way, a task of the executor or with   *)
(* the client, never two of these, and the client gets them in the order   *)
(* the server sent them.                                                   *)
(***************************************************************************)
THEOREM PushesCorrect == Spec => []PushesInOrder
<1>1. SocketInv => PushesInOrder
    <2> SUFFICES ASSUME SocketInv PROVE PushesInOrder
        OBVIOUS
    <2>1. PICK k \in 0..Len(sent) : Inv(k)
        BY DEF SocketInv
    <2>2. sent \in Seq(Frames) /\ Len(sent) \in Nat /\ k \in Nat /\ k <= Len(sent)
        BY DEF SocketInv, Typed
    <2>3. SplitOff(k) /\ InOrder(k)
        BY <2>1 DEF Inv
    <2>4. ASSUME NEW i \in DOMAIN toClient, Pushed(toClient[i].frame)
          PROVE  /\ toClient[i].frame.n \in 1..k
                 /\ toClient[i].frame.n \in DOMAIN sent
                 /\ sent[toClient[i].frame.n] = toClient[i].frame
        BY <2>2, <2>3, <2>4 DEF SplitOff, Known, Pushed
    <2>5. ASSUME NEW n \in DOMAIN sent, IsPush(sent[n])
          PROVE  /\ OnItsWay(sent[n]) <=> ~(InTasks(sent[n]) \/ WithClient(sent[n]))
                 /\ ~(InTasks(sent[n]) /\ WithClient(sent[n]))
        <3>1. OnItsWay(sent[n]) <=> n > k
            BY <2>1, OnItsWayIs DEF SocketInv, Inv
        <3>2. sent[n].n = n /\ Pushed(sent[n]) /\ n \in 1..Len(sent)
            BY <2>2, <2>5, NoFrameIsNone DEF SocketInv, Numbered, Pushed
        <3>3. InTasks(sent[n]) => n \in 1..k
            BY <2>3, <3>2 DEF InTasks, SplitOff, Known
        <3>4. WithClient(sent[n]) => n \in 1..k
            BY <2>4, <3>2 DEF WithClient
        <3>5. n \in 1..k => InTasks(sent[n]) \/ WithClient(sent[n])
            BY <2>3, <2>5 DEF InOrder
        <3>6. ~(InTasks(sent[n]) /\ WithClient(sent[n]))
            BY <2>2, <2>3, <3>2 DEF InTasks, WithClient, InOrder
        <3>7. n > k <=> ~(n \in 1..k)
            BY <2>2, <3>2
        <3> QED
            BY <3>1, <3>3, <3>4, <3>5, <3>6, <3>7
    <2>6. \A i, j \in DOMAIN toClient :
              i < j /\ Pushed(toClient[i].frame) /\ Pushed(toClient[j].frame)
                  => toClient[i].frame.n < toClient[j].frame.n
        BY <2>3 DEF InOrder
    <2> QED
        BY <2>4, <2>5, <2>6 DEF PushesInOrder
<1> QED
    BY <1>1, SocketInvariant, PTL
=============================================================================
