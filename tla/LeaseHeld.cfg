\* Half a lease duration and a GET fit into the seconds that are written.
CONSTANTS
    Controller = {a, b}
    None = None
    LeaseDuration = 5
    LeaseSeconds = 4
    MaxLatency = 1
    MaxTime = 7
    MaxVersion = 3
    MaxLate = 1
    MaxStarts = 1
SPECIFICATION Spec
SYMMETRY Interchangeable
CHECK_DEADLOCK FALSE
INVARIANTS
    FreshIsHolder
    EntitledIsHolder
PROPERTIES
    SeizedOnlyWhenSilent
    HandsOverInTime
