SPECIFICATION Spec
CONSTANTS
    Keys = {k1, k2}
    RequestKinds <- BothShapes
    MaxSeq = 3
    MaxConcurrency = 2
    MaxAppends = 1
    MaxRequests = 2
    MaxCancels = 0
    MaxNoise = 0
    Noise = {}
    MaxFaults = 1
    Failures = {60003}
SYMMETRY KeySymmetry
INVARIANTS
    AtMostOneProviderCall
    ViewMatchesLog
    RecoveredClosed
CHECK_DEADLOCK FALSE
