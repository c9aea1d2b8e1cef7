SPECIFICATION Spec
CONSTANTS
    f = f
    g = g
    ADBD = ADBD
    Paths <- MCPaths
    Kinds <- MCFileOnly
    MAX_CHUNKS = 1
    CAPACITY = 1
    SESSIONS = 2
    MAX_FAULTS = 0
    MAX_REBOOTS = 0
INVARIANT UploadLands
CHECK_DEADLOCK FALSE
