SPECIFICATION Spec
CONSTANTS
    Tabs = {t1}
    Protocols <- TwoProtocols
    Remembered = {"none"}
    MaxVisits = 1
    MaxActs = 1
    MaxCommands = 1
    MaxCleans = 0
INVARIANTS
    ProtocolPanelsFresh
CHECK_DEADLOCK FALSE
