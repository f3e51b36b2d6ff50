\* Two requests of any kind, bodies in any pieces, over an empty and a full store.
CONSTANTS
    Request = {r1, r2}
    Text = {"", "a", "fffd"}
    Binary = {"bin"}
    Empty = ""
    Replacement = "fffd"
    Surrogate = "d800"
    Oversized = {"fffd"}
    Ordered <- Keys
    Begins <- Beginning
    Bodies <- Posted
    Contents <- Held
    MaxBatch = 5
    MaxScan = 3
    Buffer = 8
    Queries <- Asked
    Malformed = Malformed
    None = None
SPECIFICATION Spec
SYMMETRY Symmetry
CHECK_DEADLOCK FALSE
INVARIANTS
    TypeOK
    BlamesTheRightThing
    RoundTrip
PROPERTIES
    AllOrNothing
