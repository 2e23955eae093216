SPECIFICATION Spec
CONSTANTS
    Listener = listener
    Streams = {s1}
    Hooks = {"rcv", "snd"}
    NumBev = 1
    Banned <- OneBanned
    Filter = {f1}
    MaxUde = 2
    Callback = {c1, c2}
    Entries = 1
    MaxCalls = 3
    Again = FALSE
INVARIANTS
    RefIsHolders
    CallbacksAsRegistered
SYMMETRY Same
