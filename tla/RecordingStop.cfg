SPECIFICATION Spec
CONSTANTS
    Instances = {mysql}
    Callers = {c1, c2}
    Quits = {"api", "main"}
    Hasty = FALSE
    MaxCalls = 2
    MaxSwitches = 3
    MaxStarts = 2
    MaxCrashes = 1
INVARIANTS
    TypeOK
    RecordingComplete
    IndexDescribesFiles
PROPERTIES
    NothingOverwritten
CHECK_DEADLOCK FALSE
