\* A failover, the snapshots it makes necessary and a store that closes, under a read.
CONSTANTS
    Node = {a, b, d}
    Write = {w1, w2}
    Read = {r1}
    First = a
    Closable = {d}
    MaxTerm = 2
    MaxResets = 0
    None = None
SPECIFICATION FairSpec
CHECK_DEADLOCK FALSE
INVARIANTS
    PositionsAgree
PROPERTIES
    ReadYourWrites
    ReadsEnd
