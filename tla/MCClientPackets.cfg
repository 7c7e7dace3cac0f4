SPECIFICATION PacketsSpec
CONSTANTS
    SeqNumbers = 16
    FirstSeq = 12
    UnitSize = 3
    MaxPackets = 6
    JitterMax = 3
    JitterMin = 2
    QueueMax = 1
    NackAttempts = 1
    MaxTroubles = 1
    p1 = p1
    p2 = p2
    Peers <- MCPeers
    Nobody = Nobody
    MaxChanges = 3
    MaxFrames = 1
    Orders <- MCOrders
    Capacity = 2
    MaxPts = 2
    MaxStarts = 2
    SeqBits = 3
    BlpBits = 2
    RateBits = 6
    MantissaBits = 3
    MaxExp = 5
    LostBits = 3
    Losses <- MCLosses
    Ssrcs = {1, 2}
    MaxCompound = 2
    Sfus = {s1, s2}
    NoSfu = NoSfu
    Attempts = 2
    MaxSetups = 2
    MaxPending = 1
    MaxTold = 2
INVARIANTS  CameraCurrent ReportsRead
PROPERTY NoStepBack
CHECK_DEADLOCK FALSE
