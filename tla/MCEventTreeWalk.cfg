SPECIFICATION Spec
CONSTANTS
    Listener = listener
    Streams = {s1}
    Hooks = {"rcv", "snd"}
    NumBev = 1
    Banned <- OneBanned
    Filter = {f1}
    MaxUde = 0
    Callback = {c1, c2}
    Entries = 1
    MaxCalls = 2
    Again = FALSE
INVARIANT WalkedTreeLives
SYMMETRY Same
