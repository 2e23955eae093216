SPECIFICATION FairSpec
CONSTANTS
    MaxRtx = 2
    MaxSynRetry = 1
    TcpTimeout = FALSE
    MaxData = 1
    PeerSends = {"SYN/ACK", "ACK", "RST"}
    AppCalls = {"connect", "close"}
PROPERTIES ClosedIsReleased
