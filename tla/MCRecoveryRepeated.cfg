SPECIFICATION Spec
CONSTANTS
    attr = attr
    hook = hook
    NONE = NONE
    Names <- MCNames
    Copies <- MCCopies
    CAPACITY = 4
    FIRST_BLOCK = 2
    MAX_DUMPS = 2
    MAX_CONFIRM = 2
    MAX_BAD = 1
INVARIANT UnitConfirmed
