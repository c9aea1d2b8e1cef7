SPECIFICATION FairSpec
CONSTANTS
    PACKETS = 2
    SESSIONS = 2
    MAX_FAULTS = 6
    MAX_POWER_CYCLES = 1
INVARIANTS
    EraseOnlyVerified
    AcceptedVerified
    CleanTransferAgrees
PROPERTY AcceptedIsProgrammed
CHECK_DEADLOCK FALSE
