\* Two controllers and a Lease that moves; one node dies, and the Service may not be moved.
CONSTANTS
    Node = {a, b, d}
    Birth = a
    Controller = {c, e}
    WaitFor = 1
    RequireWaitFor = TRUE
    Grace = 0
    Missable = {"point"}
    MaxMisses = 1
    Listed <- ByName
    SlowReturn = TRUE
    EnlistedDies = TRUE
    EmptyStores = FALSE
    MaxTerm = 2
    MaxWrites = 1
    MaxCrashes = 1
    None = None
SPECIFICATION Spec
VIEW WithoutLabels
SYMMETRY Interchangeable
CHECK_DEADLOCK FALSE
INVARIANTS
    
    OneLeaderPerTerm
PROPERTIES
    LeaderIsNeverEnlisted
