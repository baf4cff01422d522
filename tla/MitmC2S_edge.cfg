SPECIFICATION FairSpec
CONSTANTS
    RealSids = {r}
    SmallSids = {}
    r = r
    s = s
    k1 = k1
    k2 = k2
    Keys = {k1}
    Control = Control
    Odd = Odd
    Bodies <- OneKey
    NoKey = NoKey
    Garbage = Garbage
    NoSid = NoSid
    Slow = {"client", "upstream"}
    First = 6
    SeqMod = 8
    QueueMax = 1
    ObserveMax = 1
    BatchMax = 2
    ClientMax = 2
    ChunkMax = 2
    InjectMax = 2
INVARIANTS Numbered AnsweredInjections
PROPERTIES AcceptedIsWritten CloseEnds
CHECK_DEADLOCK FALSE
