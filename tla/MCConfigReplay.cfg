SPECIFICATION Spec
CONSTANTS
    WRITES = 3
    EVENTS = 1
    CAPACITY = 6
INVARIANTS
    PreservesExactly
    SerialIsHeld
    SerialRecoverable
    NotRefused
    InternalChecksHold
CHECK_DEADLOCK FALSE
