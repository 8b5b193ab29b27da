SPECIFICATION FairSpec
CONSTANTS
    Calls = {c1, c2}
    Loads = {l1}
    MaxClicks = 2
INVARIANTS
    TypeOK
    TimerForEveryNote
PROPERTIES
    NotesVanish
CHECK_DEADLOCK FALSE
