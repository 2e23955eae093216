SPECIFICATION Spec
CONSTANTS
    Flight = 2
    Rcvbuf = 2
    TCP_INITIAL_WINDOW = 5
    Timeout = 2
    Setups <- MCLong
INVARIANT NewDataIsStored
CHECK_DEADLOCK FALSE
