SPECIFICATION Spec
CONSTANTS
    Features <- MCFeatures
    RUNS = 3
    MAX_POWER_LOSSES = 1
    MAX_OTHERS = 1
INVARIANTS
    RunnerHasHook
    InstalledIsDurable
PROPERTY
    NoOverwrite
CHECK_DEADLOCK FALSE
