SPECIFICATION Spec
CONSTANTS
    Keys = {k1, k2}
    EveryBound = {k1}
    AfterBound = {}
    Fails = {}
    None = None
    BatchMax = 2
    OpMax = 1
    RestartMax = 0
INVARIANT CancelledIsGone
CHECK_DEADLOCK FALSE
