SPECIFICATION FairSpec
CONSTANTS
    FrameSizes = {0, 2, 3}
    MaxFrames = 1
    MaxUnits = 3
    Datagrams <- MCDatagrams
    MaxHeld = 3
    MaxReplies = 2
    QueueSize = 1
    MaxAddrs = 2
    MaxWait = 5
    Limits = {0, 2}
    FlushAt = 2
INVARIANTS TypeOK SessionSettles IdleMeansIdle
PROPERTY NobodyWaitsForever
CHECK_DEADLOCK FALSE
