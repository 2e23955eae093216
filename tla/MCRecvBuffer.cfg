SPECIFICATION Spec
CONSTANTS
    Unit = 2
    Segments = 2
    Modulus = 11
    InitialWindow = 6
    MaxPayload = 3
    MaxOffset = 12
    MaxRead = 3
    Value = {v1, v2}
    Modes = {"stream", "monitor"}
    Overlap = "FIRST"
INVARIANTS
    Reassembled
    ContentIntact
    ReadIntact
PROPERTIES
    AcceptedIsStored
    OutrunIsAnnounced
SYMMETRY Same
CHECK_DEADLOCK FALSE
