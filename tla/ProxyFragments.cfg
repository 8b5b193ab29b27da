SPECIFICATION Spec
CONSTANTS
    Protocols = {"redis"}
    Kinds = {"command"}
    Optional = {}
    MaxRequests = 2
    MaxPushes = 1
INVARIANTS
    FragmentsJoined
CHECK_DEADLOCK FALSE
