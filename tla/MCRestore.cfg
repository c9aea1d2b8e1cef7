SPECIFICATION FairSpec
CONSTANTS
    a = a
    b = b
    c = c
    Units <- MCUnits
    CAMERA = a
    STOCK <- MCStock
    INVOCATIONS = 2
    MAX_POWER_CYCLES = 2
INVARIANTS
    CompleteMeansRestored
    OwnConfirmedContent
    PreparedTrigger
PROPERTIES
    AcceptedComesBack
    RunEnds
CHECK_DEADLOCK FALSE
