SPECIFICATION Spec
CONSTANTS
    MaxRtx = 2
    MaxSynRetry = 1
    TcpTimeout = FALSE
    MaxData = 2
    PeerSends = {"SYN/ACK", "ACK", "DUP3", "LATE3"}
    AppCalls = {"connect", "write"}
INVARIANT SequenceIsValid
