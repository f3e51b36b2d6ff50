\* Promotions, a close and enlistments at once, on a node started with -leader.
CONSTANTS
    Leader = {l1, l2}
    Follower = {f1, f2}
    Write = {w1}
    Promotion = {p1}
    Closing = {q1}
    Enlistment = {e1, e2}
    Starting = TRUE
    MaxTerm = 2
    None = None
SPECIFICATION FairSpec
CHECK_DEADLOCK FALSE
INVARIANTS
    RoleIsTheFollower
    EveryFollowerHasAStopper
PROPERTIES
    OwnFollowerEndsFirst
    StopsEnd
