SPECIFICATION FairSpec
CONSTANTS
    Protocols = {"amqp", "redis", "mqtt"}
    Kinds = {"declare", "delete"}
    Optional = {"delete"}
    MaxRequests = 3
    MaxPushes = 2
INVARIANTS
    TypeOK
    AnswersMatch
    PushesInOrder
    AnswersNotOvertaken
PROPERTIES
    FramesDelivered
CHECK_DEADLOCK FALSE
