SPECIFICATION FairSpec
CONSTANTS
    Callers = {c1}
    Worker = w
    Keys = {k}
    None = None
    RfnQueueMax = 1
    PacketMax = 1
    RotateMax = 0
    HostMax = 3
PROPERTIES DrainSeesEveryCall QueryReturns LoopComesFree ReloadEnds
CHECK_DEADLOCK FALSE
