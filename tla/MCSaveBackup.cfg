SPECIFICATION Spec
CONSTANTS
    a = a
    b = b
    c = c
    Publishers <- MCPublishers
    NONE = NONE
    FOREIGN = FOREIGN
    MAX_POWER_LOSSES = 1
INVARIANT NeverHalfBackup
PROPERTY Publishes
SYMMETRY Symmetry
CHECK_DEADLOCK FALSE
