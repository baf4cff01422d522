SPECIFICATION Spec
CONSTANTS
    Callers = {c1, c2}
    Worker = w
    Keys = {k}
    None = None
    RfnQueueMax = 1
    PacketMax = 1
    RotateMax = 1
    HostMax = 1
INVARIANTS AnswerHeard RegisteredIsOpen WaitersCounted
SYMMETRY CallerSymmetry
CHECK_DEADLOCK FALSE
