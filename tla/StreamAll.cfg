\* Two batches, a snapshot in two chunks, and everything but a short snapshot.
CONSTANTS
    Heartbeat = 2
    Idle = 5
    MinBackoff = 2
    MaxBackoff = 3
    Latency = 1
    ApplyTime = 1
    ChunkGap = 1
    Chunks = 2
    Capacity = 3
    MaxBatches = 2
    Faults = {"silence", "drop", "close", "diverge", "dial", "refuse", "fence"}
    MaxFaults = 1
    None = None
SPECIFICATION FairSpec
INVARIANTS
    ResponseIsLeftAlone
    WorkingConnectionIsKept
PROPERTIES
    BacksOff
    FramesStayWhole
    DeadConnectionEnds
    StreamsEnd
    EverythingArrives
