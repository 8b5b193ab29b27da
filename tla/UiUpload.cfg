SPECIFICATION FairSpec
CONSTANTS
    Files = {f1, f2}
    Ancestors = 11
    BoxLevel = 2
    OutputLevel = 0
    MaxChoices = 3
    MaxUploads = 2
INVARIANTS
    TypeOK
    NamedFileSent
PROPERTIES
    NamedFileArrives
CHECK_DEADLOCK FALSE
