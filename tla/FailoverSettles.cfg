\* Two deaths, one probe missed or call refused, though not the one that moves the traffic.
CONSTANTS
    Node = {a, b, d}
    Birth = a
    Controller = {c}
    WaitFor = 1
    RequireWaitFor = TRUE
    Grace = 0
    Missable = {"probe", "act", "label"}
    MaxMisses = 1
    Listed <- ByName
    SlowReturn = FALSE
    EnlistedDies = FALSE
    EmptyStores = FALSE
    MaxTerm = 3
    MaxWrites = 1
    MaxCrashes = 2
    None = None
SPECIFICATION FairSpec
CHECK_DEADLOCK FALSE
PROPERTIES
    Settles

