SPECIFICATION Spec
CONSTANTS
    a = a
    b = b
    c = c
    Publishers <- MCPublishers
    NONE = NONE
    FOREIGN = FOREIGN
    FILES = 2
PROPERTY Publishes
SYMMETRY Symmetry
CHECK_DEADLOCK FALSE
