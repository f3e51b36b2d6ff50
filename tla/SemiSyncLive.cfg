\* One slot, so that a stream never overlaps its successor; drops, no failed posts.
CONSTANTS
    Node = {n1}
    Id = {i1}
    Conn = {c1}
    Write = {w1, w2}
    None = None
    Term = 2
    Need = 1
    FirstSeq = 1
    MaxSeq = 3
    MaxPipe = 1
    MaxPosts = 1
    MaxFaults = 2
    Faults = {"drop", "close"}
    InitialApplied <- FreshOrCurrent
    MayDiverge = TRUE
SPECIFICATION FairSpec

CHECK_DEADLOCK FALSE
PROPERTY WritesAreReached
