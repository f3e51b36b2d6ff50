\* Two nodes that start current on a leader that merges nothing away.
CONSTANTS
    Node = {n1, n2}
    Id = {i1, i2, i3, i4}
    Conn = {c1, c2, c3}
    Write = {w1, w2}
    None = None
    Term = 2
    Need = 2
    FirstSeq = 1
    MaxSeq = 3
    MaxPipe = 1
    MaxPosts = 2
    MaxFaults = 1
    Faults = {"drop", "post"}
    InitialApplied <- Current
    MayDiverge = FALSE
SPECIFICATION Spec
SYMMETRY Interchangeable
CHECK_DEADLOCK FALSE
INVARIANTS
    PromiseKept
PROPERTY CopiesKeepThePromise
