\* A follower with an empty store.
CONSTANTS
    Node = {n1}
    Id = {i1}
    Conn = {c1}
    Write = {w1}
    None = None
    Term = 2
    Need = 1
    FirstSeq = 1
    MaxSeq = 2
    MaxPipe = 1
    MaxPosts = 1
    MaxFaults = 0
    Faults = {}
    InitialApplied <- Fresh
    MayDiverge = FALSE
SPECIFICATION Spec

CHECK_DEADLOCK FALSE
INVARIANT PromiseKept
