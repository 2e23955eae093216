SPECIFICATION Spec
CONSTANTS
    Flight = 2
    Rcvbuf = 4
    TCP_INITIAL_WINDOW = 5
    Timeout = 2
    Setups <- MCSetups
INVARIANT DataIsSeen
INVARIANT StateIsTrue
INVARIANT OverIsReleased
PROPERTY EndIsReal
CHECK_DEADLOCK FALSE
