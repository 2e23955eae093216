SPECIFICATION Spec
CONSTANTS
    MaxRtx = 2
    MaxSynRetry = 1
    TcpTimeout = TRUE
    MaxData = 2
    PeerSends = {"SYN", "SYN/ACK", "ACK", "OLD", "DUP3", "DATA", "FIN", "RST"}
    AppCalls = {"connect", "accept", "write", "read", "close", "abort"}
INVARIANTS
    TimerLinkExclusive
    GracefulCloseDelivers
    FinIsLast
    RetransmissionArmed
