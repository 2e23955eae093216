SPECIFICATION Spec
CONSTANTS
    s1 = s1
    s2 = s2
    None = None
    Stream = {s1, s2}
    RTO_HASH = 4
    W = 32
    Initial = 1
    Estimates = {1, 2}
    MaxGap = 1
    Thresh = 2
    MaxRtx = 1
    MaxBackoff = 1
SYMMETRY MCSymmetry
INVARIANT SlotIsTime
INVARIANT NeverEarly
INVARIANT LateByTurns
