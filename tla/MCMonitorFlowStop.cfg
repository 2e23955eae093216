SPECIFICATION Spec
CONSTANTS
    Flight = 2
    Rcvbuf = 4
    TCP_INITIAL_WINDOW = 5
    Timeout = 2
    Setups <- MCClient
PROPERTY OtherSideStays
CHECK_DEADLOCK FALSE
