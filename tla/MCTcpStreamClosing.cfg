SPECIFICATION Spec
CONSTANTS
    MaxRtx = 2
    MaxSynRetry = 1
    TcpTimeout = FALSE
    MaxData = 1
    PeerSends = {"SYN/ACK", "ACK", "FIN"}
    AppCalls = {"connect", "close"}
INVARIANTS
    ClosingSendsFinOrAck
