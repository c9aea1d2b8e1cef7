SPECIFICATION FairSpec
CONSTANTS
    CELLS = 3
    LIVE <- MCLive
    MAX_VERSION = 2
    REQUIRED_IDENTICAL_READS = 3
    MAX_READ_ATTEMPTS = 5
INVARIANTS
    TypeOK
    IInv
    AcceptedSnapshot
    RefusedMeansChanged
    EvidenceLoads
PROPERTY Terminates
CHECK_DEADLOCK FALSE
