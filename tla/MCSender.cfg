SPECIFICATION FairSpec
CONSTANTS
    s1 = s1
    s2 = s2
    a1 = a1
    a2 = a2
    Stream = {s1, s2}
    Addr = {a1, a2}
    Dest <- MCDest
    Answering = {a1, a2}
    Windows = {2}
    Room = 2
    MaxAcks = 1
    MaxRtx = 1
    MaxLost = 1
    Setups <- MCSetups
INVARIANTS
    ListsAgree
    FinAfterData
    UnsentIsQueued
PROPERTIES
    ControlIsSent
    DataIsSent
    OwedIsAcked
