SPECIFICATION Spec
CONSTANTS
    Tabs = {t1}
    Protocols <- OneProtocol
    Remembered = {"open"}
    MaxVisits = 1
    MaxActs = 2
    MaxCommands = 2
    MaxCleans = 0
INVARIANTS
    TypeOK
    OpenIsStored
    RestIsAsStored
    ChangeIsComing
CHECK_DEADLOCK FALSE
