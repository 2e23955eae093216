SPECIFICATION FairSpec
CONSTANTS
    MaxRtx = 2
    MaxSynRetry = 1
    TcpTimeout = FALSE
    MaxData = 1
    PeerSends = {"SYN/ACK", "ACK", "OLD", "FIN"}
    AppCalls = {"connect", "write", "close"}
INVARIANT FinPending
PROPERTIES
    ClosedIsReleased
