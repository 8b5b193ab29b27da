------------------------------ MODULE MCReplay ------------------------------
(* A subscriber that also publishes and a publisher; two callbacks whose   *)
(* timestamps are not in the order of their ids, one before any call.      *)
EXTENDS Replay

CONSTANTS c1, c2, chat, news

Line(t, c, on, at) == [type |-> t, client |-> c, queue |-> on, at |-> at]

Flow == << Line("RESPONSE", c1, chat, 0), Line("Subscribe", c1, chat, 1),
           Line("Publish", c2, chat, 2), Line("RESPONSE", c1, chat, 4), Line("RESPONSE", c1, chat, 3),
           Line("Publish", c1, news, 5) >>

Mode(t, o, b) == [tagged |-> t, ordered |-> o, blockExternal |-> b, ignoreTrivialCalls |-> TRUE]

(* Redis in the order of the recording, MQTT in any order, and MQTT with   *)
(* the server reachable.                                                   *)
Tried == {Mode(FALSE, TRUE, TRUE), Mode(TRUE, FALSE, TRUE), Mode(TRUE, TRUE, FALSE)}
=============================================================================
