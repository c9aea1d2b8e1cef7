SPECIFICATION FairSpec
CONSTANTS
    HOOKS = 4
    BOOTS = 1
    BY_HAND = 1
    RESTARTS = 2
INVARIANTS
    FixLeavesConfig
    CleanBootFixes
PROPERTIES
    NoCameraWithoutConfig
    NotUnderCamera
    BootEnds
CHECK_DEADLOCK FALSE
