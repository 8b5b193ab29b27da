----------------------------- MODULE Protocols -----------------------------
(***************************************************************************)
(* The declarations of the protocols, as initializeProtocol() of each      *)
(* descriptor builds them.  The leaves of a machine are state classes; an  *)
(* event carries the name of the class whose canRun is written for it, or  *)
(* one of the names of raw bytes:                                          *)
(*    Empty    a BytesEvent with an empty buffer,                          *)
(*    Bytes    one complete frame for the translator of the protocol,      *)
(*    Partial  the beginning of a frame, its length field included,        *)
(*    Stub     a fragment no leaf completes: less than the header of a     *)
(*             frame, or a piece of a start-up packet,                     *)
(*    Short    a frame but for its last byte.                              *)
(* A frame has the event it decodes to as its body.                        *)
(*    takes     the events a leaf runs, if not just the one of its name     *)
(*    more      those on which its canRun throws AskMoreDataException       *)
(*    forwards  the leaves that send the body of their frame                *)
(*    throws    the events on which the leaf that takes them throws         *)
(*    stops     the leaves that return a Stop step                          *)
(*    meant     the leaves a client means by a frame, if not all it can run *)
(*    greets    sendImmediateGreeting()                                     *)
(***************************************************************************)
EXTENDS ProtoStates, TLC

Message(name, tag) == [name |-> name, tag |-> tag, raw |-> FALSE, body |-> <<>>]
Raw(name, body)    == [name |-> name, tag |-> <<>>, raw |-> TRUE, body |-> body]

RawFrames(names)    == {Raw(n, <<>>) : n \in names}
Frames(names, tag)  == {Raw("Bytes", <<Message(n, tag)>>) : n \in names}
Partial == Raw("Partial", <<>>)
Cuts    == RawFrames({"Partial", "Stub", "Short"})

NoLeaf == [leaf \in {} |-> {}]

-----------------------------------------------------------------------------
(* Redis: the translator is an interrupt; Resp3PullState takes whatever    *)
(* the client sends.                                                       *)
RedisStart ==
    While("w", << SwitchCase("s", <<
        Sequence("q", <<State("Resp3Subscribe"), State("Resp3Unsubscribe")>>),
        State("Resp3PullState") >>) >>)

RedisMessages == {"Resp3Subscribe", "Resp3Unsubscribe", "Resp3Command"}

Redis == [
    name |-> "redis", roots |-> TaggedStates(RedisStart), declared |-> Declared(RedisStart),
    leaves |-> Leaves(RedisStart), interrupts |-> <<"Resp3MessageTranslator">>,
    takes |-> "Resp3PullState" :> RedisMessages @@ "Resp3MessageTranslator" :> {"Bytes"},
    more |-> "Resp3MessageTranslator" :> {"Partial"},
    forwards |-> {"Resp3MessageTranslator"}, throws |-> {}, stops |-> {}, meant |-> NoLeaf,
    greets |-> FALSE,
    events |-> Frames(RedisMessages, <<>>) \cup {Partial}]

(* MySQL without TLS: no interrupt, Auth and Command take any complete     *)
(* packet and ask for more on an incomplete one.                           *)
MySQLStart ==
    Sequence("root", <<
        State("ConnectionEstablished"),
        Sequence("ssl", <<asOptional(State("SSLRequest")), asOptional(State("SSLHandshake"))>>),
        State("Auth"),
        While("wait", <<asOptional(State("NetworkWait"))>>),
        While("commands", <<
            State("Command"),
            SwitchCase("command", <<
                State("ComQuery"), State("ComStmtPrepare"), State("ComStmtExecute"),
                State("ComRefresh"), State("ComInitDb"), State("ComPing"), State("ComQuit")>>) >>) >>)

MySQLCommands == {"ComQuery", "ComStmtPrepare", "ComStmtExecute", "ComRefresh", "ComInitDb",
                  "ComPing", "ComQuit"}

MySQL == [
    name |-> "mysql", roots |-> TaggedStates(MySQLStart), declared |-> Declared(MySQLStart),
    leaves |-> Leaves(MySQLStart), interrupts |-> <<>>,
    takes |-> "ConnectionEstablished" :> {"Empty"} @@ "NetworkWait" :> {"Empty"}
                @@ "Auth" :> {"Login", "Packet"} @@ "Command" :> {"Login", "Packet"}
                @@ "SSLRequest" :> {} @@ "SSLHandshake" :> {},
    more |-> "Auth" :> {"Partial"} @@ "Command" :> {"Partial"},
    forwards |-> {"Command"}, throws |-> {}, stops |-> {"ComQuit"},
    meant |-> "Login" :> {"Auth"} @@ "Packet" :> {"Command"},
    greets |-> TRUE,
    events |-> {Raw("Packet", <<Message(c, <<>>)>>) : c \in MySQLCommands}
                 \cup {Raw("Login", <<Message("UNKNOWN", <<>>)>>)}]

(* PostgreSQL: a packet has one byte more than its length says and the     *)
(* translator runs as soon as it has as many bytes as that: a packet       *)
(* without its last byte throws.  Of less than five bytes it does not run. *)
PostgresStart ==
    Sequence("root", <<
        Sequence("ssl", <<asOptional(State("SSLRequest")), asOptional(State("SSLHandshake"))>>),
        State("StartupMessage"),
        asOptional(State("PasswordMessage")),
        While("loop", << SwitchCase("message", <<
            State("Query"),
            Sequence("parse", <<
                State("Parse"),
                asOptional(Sequence("run", <<
                    asOptional(State("Bind")), asOptional(State("Describe")), State("Execute")>>)) >>),
            Sequence("bind", <<State("Bind"), State("Execute")>>),
            State("Sync"), State("Close"), State("Terminate") >>) >>),
        State("Terminate") >>)

PostgresRaw == {"SSLRequest", "SSLHandshake", "StartupMessage"}

Postgres == [
    name |-> "postgres", roots |-> TaggedStates(PostgresStart), declared |-> Declared(PostgresStart),
    leaves |-> Leaves(PostgresStart),
    interrupts |-> <<"CancelRequest", "PostgresPacketTranslator">>,
    takes |-> "PostgresPacketTranslator" :> {"Bytes", "Short"},
    more |-> "PostgresPacketTranslator" :> {"Partial"},
    forwards |-> {"PostgresPacketTranslator"}, throws |-> {"Short"},
    stops |-> {"Terminate", "CancelRequest"}, meant |-> NoLeaf, greets |-> FALSE,
    events |-> Frames(Leaves(PostgresStart) \ PostgresRaw, <<>>)
                 \cup RawFrames(PostgresRaw \cup {"CancelRequest"}) \cup Cuts]

(* Mongo: CmdSaslContinue takes what CmdSaslStart takes.                   *)
MongoStart ==
    SwitchCase("root", << While("loop", <<
        asOptional(State("OpCompressed")),
        SwitchCase("op", <<
            Sequence("msg", <<
                State("OpMsg"),
                SwitchCase("cmd", <<
                    State("CmdGeneric"), State("CmdHello"), State("CmdSaslStart"),
                    While("sasl", <<asOptional(State("CmdSaslContinue"))>>) >>) >>),
            Sequence("query", <<State("OpQuery"), State("QueryHello")>>) >>) >>) >>)

MongoOps == {Raw("OpMsg", <<Message(c, <<>>)>>) : c \in {"CmdGeneric", "CmdHello", "CmdSaslStart"}}
              \cup {Raw("OpQuery", <<Message("QueryHello", <<>>)>>)}

Mongo == [
    name |-> "mongo", roots |-> TaggedStates(MongoStart), declared |-> Declared(MongoStart),
    leaves |-> Leaves(MongoStart), interrupts |-> <<>>,
    takes |-> "CmdSaslContinue" :> {"CmdSaslStart"},
    more |-> [leaf \in {"OpCompressed", "OpMsg", "OpQuery"} |-> {"Partial"}],
    forwards |-> {"OpCompressed", "OpMsg", "OpQuery"}, throws |-> {}, stops |-> {},
    meant |-> NoLeaf, greets |-> FALSE,
    events |-> MongoOps \cup {Raw("OpCompressed", <<[op EXCEPT !.raw = FALSE]>>) : op \in MongoOps}]

-----------------------------------------------------------------------------
(* AMQP: frames of channel n > 0 carry the tag CHANNEL:n.  The operations  *)
(* of a single frame, all leaves of one SwitchCase, are three here; its    *)
(* HearthBeatFrame is never reached, the interrupt being tried first.  The *)
(* translator runs without the end octet, which it then reads, and does    *)
(* not run on less than eight bytes.                                       *)
AmqpStart ==
    Sequence("root", <<
        State("ProtocolHeader"), State("ConnectionStartOk"), State("ConnectionTuneOk"),
        State("ConnectionOpen"),
        Tagged(<<"CHANNEL">>, While("channel", << Sequence("session", <<
            State("ChannelOpen"),
            While("work", << SwitchCase("op", <<
                State("QueueDeclare"),
                State("BasicConsume"),
                Sequence("publish", <<State("BasicPublish"), State("HeaderFrame"), State("BodyFrame")>>),
                State("BasicAck") >>) >>),
            State("ChannelClose") >>) >>)),
        State("ConnectionClose") >>)

AmqpConnection == {"ProtocolHeader", "ConnectionStartOk", "ConnectionTuneOk", "ConnectionOpen",
                   "ConnectionClose"}
AmqpChannel == {"ChannelOpen", "QueueDeclare", "BasicConsume", "BasicPublish", "HeaderFrame",
                "BodyFrame", "BasicAck", "ChannelClose"}

Amqp(channels) == [
    name |-> "amqp", roots |-> TaggedStates(AmqpStart), declared |-> Declared(AmqpStart),
    leaves |-> AmqpConnection \cup AmqpChannel,
    interrupts |-> <<"HearthBeatFrame", "AmqpFrameTranslator">>,
    takes |-> "AmqpFrameTranslator" :> {"Bytes", "Short"},
    more |-> "AmqpFrameTranslator" :> {"Partial"},
    forwards |-> {"AmqpFrameTranslator"}, throws |-> {"Short"}, stops |-> {}, meant |-> NoLeaf,
    greets |-> FALSE,
    events |-> {Raw("ProtocolHeader", <<>>)} \cup Cuts
                 \cup Frames((AmqpConnection \ {"ProtocolHeader"}) \cup {"HearthBeatFrame"}, <<>>)
                 \cup UNION {Frames(AmqpChannel, << <<"CHANNEL", c>> >>) : c \in channels}]

(* MQTT: packets with an identifier carry the tag PACKET.                  *)
MqttStart ==
    Sequence("root", <<
        State("Connect"),
        While("loop", << SwitchCase("packet", <<
            Tagged(<<"PACKET">>, SwitchCase("exchange", <<
                Sequence("publish", <<State("Publish"), asOptional(State("PublishRel"))>>),
                State("Subscribe"),
                State("PublishAck"),
                Sequence("receive", <<State("PublishRec"), State("PublishComp")>>) >>)),
            State("PingReq") >>) >>) >>)

MqttExchange == {"Publish", "PublishRel", "Subscribe", "PublishAck", "PublishRec", "PublishComp"}

Mqtt(ids) == [
    name |-> "mqtt", roots |-> TaggedStates(MqttStart), declared |-> Declared(MqttStart),
    leaves |-> MqttExchange \cup {"Connect", "PingReq"},
    interrupts |-> <<"MqttPacketTranslator", "Disconnect">>,
    takes |-> "MqttPacketTranslator" :> {"Bytes"},
    more |-> "MqttPacketTranslator" :> {"Partial"},
    forwards |-> {"MqttPacketTranslator"}, throws |-> {}, stops |-> {"Disconnect"}, meant |-> NoLeaf,
    greets |-> FALSE,
    events |-> Frames({"Connect", "PingReq", "Disconnect"}, <<>>) \cup {Partial}
                 \cup UNION {Frames(MqttExchange \ {"Subscribe"}, << <<"PACKET", "P" \o i>> >>) : i \in ids}
                 \cup UNION {Frames({"Subscribe"}, << <<"PACKET", "S" \o i>> >>) : i \in ids}]
=============================================================================
