SPECIFICATION Spec
CONSTANTS
    Tabs = {t1, t2}
    Protocols <- NoProtocols
    Remembered = {"none", "open"}
    MaxVisits = 2
    MaxActs = 3
    MaxCommands = 0
    MaxCleans = 1
INVARIANTS
    LastStatusStored
CHECK_DEADLOCK FALSE
