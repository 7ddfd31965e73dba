SPECIFICATION Spec
CONSTANTS
    c1 = c1
    c2 = c2
    Keys = {c1}
    StreamingKeys = {c1}
    Closers = {k1, k2}
    MaxSeq = 4
    MaxRetries = 1
    MaxFaults = 1
    Noise = {}
SYMMETRY CloserSymmetry
INVARIANTS
    ReadsLog
    OneOutcome
    OneCancel
    NoLostWakeup
CHECK_DEADLOCK FALSE
