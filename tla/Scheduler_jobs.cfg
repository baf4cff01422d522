SPECIFICATION FairSpec
CONSTANTS
    Keys = {k1, k2}
    EveryBound = {k1}
    AfterBound = {k2}
    Fails = {k1}
    None = None
    BatchMax = 1
    OpMax = 2
    RestartMax = 1
INVARIANTS JobsInv
PROPERTIES AfterRunsOnce DueGetsTurn
CHECK_DEADLOCK FALSE
