SPECIFICATION Spec
CONSTANTS
    Readers = {r}
    Writers = {w}
    Size = 2
    MaxLen = 3
    MaxData = 5
INVARIANTS
    RingInOrder
    NobodyWaitsInVain
    FreedUnused
PROPERTIES
    WrittenIsRead
    EndIsReported
CHECK_DEADLOCK FALSE
