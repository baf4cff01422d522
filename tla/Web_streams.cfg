SPECIFICATION WebSpec
CONSTANTS
    Viewers = {v1}
    Capacity = 2
    HistoryMax = 2
    Replay = 2
    QueueMax = 2
    RfnMax = 1
    BatchMax = 2
    WatchedMax = 2
    PacketMax = 3
    ResetMax = 1
    PassingMax = 1
    SessionMax = 2
    Keys = {k1, k2}
    NoteMax = 1
    AckMax = 2
    StatusMax = 1
INVARIANTS FeedInv ResetSeparates UpdateIsOfItsPacket StatusInv
PROPERTIES InjectFindsOpen QueuedIsSettled
CHECK_DEADLOCK FALSE
