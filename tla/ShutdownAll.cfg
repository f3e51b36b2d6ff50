\* A replica that is stopped among a promotion, an enlistment, a write and a stream.
CONSTANTS
    Leader = {l1}
    Follower = {f1, f2}
    Write = {w1}
    Promotion = {p1}
    Closing = {q1, q2}
    Enlistment = {e1}
    Starting = TRUE
    MaxTerm = 2
    Stream = {s1}
    WaitFor = TRUE
    SlowFollowers = TRUE
    None = None
SPECIFICATION FairProcess
CHECK_DEADLOCK FALSE
INVARIANTS
    NoneTurnedAway
    AcceptedIsStored
PROPERTIES
    StoreClosesAlone
    ShutdownEnds
