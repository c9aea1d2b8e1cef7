SPECIFICATION FairSpec
CONSTANTS
    attr = attr
    hook = hook
    NONE = NONE
    Names <- MCNames
    Copies <- MCCopies
    CAPACITY = 4
    FIRST_BLOCK = 2
    MAX_DUMPS = 3
    MAX_CONFIRM = 2
    MAX_BAD = 2
INVARIANTS
    IdentityKept
    RegionsSuffice
    OwnFilesSurvive
    DefaultsWhole
PROPERTY BootsComeUp
