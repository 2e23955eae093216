SPECIFICATION FairSpec
CONSTANTS
    s1 = s1
    s2 = s2
    Socket = {s1, s2}
    Kind = {"IN"}
    MaxEvents = 1
    MaxAvail = 2
    Setups <- MCSetups
INVARIANT MarkedIsQueued
INVARIANT NoSleepOnReady
PROPERTY ReadyIsReported
CHECK_DEADLOCK FALSE
