SPECIFICATION Spec
CONSTANTS
    s1 = s1
    s2 = s2
    Socket = {s1}
    Kind = {"IN"}
    MaxEvents = 1
    MaxAvail = 3
    Setups <- MCServer
INVARIANT ConnectionIsReported
CHECK_DEADLOCK FALSE
