SPECIFICATION Spec
CONSTANTS
    RealSids = {r}
    SmallSids = {s}
    r = r
    s = s
    k1 = k1
    k2 = k2
    Keys = {k1, k2}
    Control = Control
    Odd = Odd
    Bodies <- TwoKeys
    NoKey = NoKey
    Garbage = Garbage
    NoSid = NoSid
    Slow = {}
    First = 5
    SeqMod = 8
    QueueMax = 1
    ObserveMax = 1
    BatchMax = 2
    ClientMax = 3
    ChunkMax = 2
    InjectMax = 2
INVARIANTS InOrderButForTheWaiting BodyRepeatsHeader BaselineIsReal
PROPERTY NumbersPromise
CHECK_DEADLOCK FALSE
