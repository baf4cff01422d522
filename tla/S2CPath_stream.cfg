SPECIFICATION FairSpec
CONSTANTS
    Keys = {k1, k2}
    Data = Data
    NoKey = NoKey
    ObserveMax = 2
    PacketMax = 3
    ReadMax = 3
    SwitchMax = 2
INVARIANTS ClientStream KeyHeld
PROPERTIES KeyArrives PacketsFlow
CHECK_DEADLOCK FALSE
