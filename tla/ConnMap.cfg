SPECIFICATION Spec
CONSTANTS
    GameEps = {a, b}
    ProxyEps = {p}
    Origins = {x, y}
    None = None
    MapLimit = 1
    ScanInterval = 2
    EpTtl = 2
    PidTtl = 1
    CacheLimit = 1
    PersistAfter = 1
    MaxAge = 2
    KeepFor = 3
    TimeMax = 7
    GameMax = 2
    DialMax = 2
    FaultMax = 1
INVARIANTS RepliesFind NeverLooped
PROPERTIES MapIsTrusted StaysRedirected
SYMMETRY Alike
CHECK_DEADLOCK FALSE
