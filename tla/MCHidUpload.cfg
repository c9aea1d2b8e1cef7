SPECIFICATION FairSpec
CONSTANTS
    f = f
    g = g
    ADBD = ADBD
    Paths <- MCPaths
    Kinds <- MCBoth
    MAX_CHUNKS = 3
    CAPACITY = 3
    SESSIONS = 3
    MAX_FAULTS = 1
    MAX_REBOOTS = 1
INVARIANTS
    FreshUploadLands
    ReturnedMeansAdbd
    SurvivesUntilRefusal
PROPERTY CallsEnd
CHECK_DEADLOCK FALSE
