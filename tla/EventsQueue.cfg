SPECIFICATION FairSpec
CONSTANTS
    Senders = {s1}
    Handlers = {main, store}
    Main = main
    MaxEvents = 2
    MaxInstances = 2
INVARIANTS
    TypeOK
    HandledInOrder
    IsEmptyMeansIdle
PROPERTIES
    ImplementsDelivery
    EventuallyHandled
    EmptyAgain
CHECK_DEADLOCK FALSE
