SPECIFICATION HalfSpec
CONSTANTS
    Scripts = {s1, s2}
    Outsiders = {o}
    Kv = {1, 2}
    Docs = {3, 4}
    Blobs = {5}
    Values = {v}
    None = None
    OpMax = 3
    TimeMax = 3
    CacheKeys = {k}
    Buffers = {b}
    Session = {k, b}
    Limits = {0, 2}
    MemoryOps = 4
    RotateMax = 2
INVARIANTS LossIsConfined ReadersAgree MemoryInv
PROPERTY StoreIsTransaction
SYMMETRY ScriptSymmetry
CHECK_DEADLOCK FALSE
