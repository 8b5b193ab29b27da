SPECIFICATION FairSpec
CONSTANTS
    Instances = {mysql}
    Callers = {c1}
    Quits = {"api", "main"}
    Hasty = TRUE
    MaxCalls = 2
    MaxSwitches = 3
    MaxStarts = 2
    MaxCrashes = 0
PROPERTIES
    RecordingEnds
CHECK_DEADLOCK FALSE
