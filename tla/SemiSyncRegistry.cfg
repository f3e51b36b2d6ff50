\* One node: connections that drop and overlap, restarts under another id, posts
\* late, lost or out of order, and a leader that closes its streams or is fenced.
CONSTANTS
    Node = {n1}
    Id = {i1, i2}
    Conn = {c1, c2}
    Write = {w1}
    None = None
    Term = 2
    Need = 1
    FirstSeq = 2
    MaxSeq = 3
    MaxPipe = 1
    MaxPosts = 2
    MaxFaults = 3
    Faults = {"drop", "post", "restart", "close"}
    InitialApplied <- AnyHistory
    MayDiverge = TRUE
SPECIFICATION Spec
SYMMETRY Interchangeable
CHECK_DEADLOCK FALSE
INVARIANTS
    RegisteredIsServed
    RegistryBacked
    AcksAreHonest
    NoLostWakeup
    StreamIsContiguous
PROPERTY RegistryNeverRewinds
