-------------------------- MODULE MCProtoContext --------------------------
(***************************************************************************)
(* The protocols each run of ProtoContext explores.  MySQL and MongoDB     *)
(* have no translator: their leaves ask for more data themselves, which    *)
(* only the run about incomplete frames lets happen, and the next frame    *)
(* comes once the last one was reacted to, with everything it unfolds      *)
(* into.  MySQL's context runs its events on the thread that reads         *)
(* (sendTotallyAsync() is false); a client of MongoDB waits for the reply. *)
(* Behind a translator a second frame may wait beside the event in hand,   *)
(* except when two channels are open.                                      *)
(***************************************************************************)
EXTENDS ProtoContext, Protocols

TwoChannels == [Amqp({"1", "2"}) EXCEPT !.name = "amqp, two channels"]
MCServed    == {Redis, Postgres, Amqp({"1"}), TwoChannels, MySQL, Mongo}
MCFragments == {[MySQL EXCEPT !.events = @ \cup {Partial}]}
MCMqtt      == {Mqtt({"1"})}

MCPipelined(m) == IF m.interrupts = <<>> \/ m.name = TwoChannels.name THEN 0 ELSE 1
=============================================================================
