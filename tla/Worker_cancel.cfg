SPECIFICATION Spec
CONSTANTS
    Keys = {k1, k2}
    RequestKinds <- SomeRejected
    MaxSeq = 2
    MaxConcurrency = 1
    MaxAppends = 0
    MaxRequests = 2
    MaxCancels = 1
    MaxNoise = 0
    Noise = {}
    MaxFaults = 1
    Failures = {60003}
SYMMETRY KeySymmetry
INVARIANTS
    TypeOK
    SlotAccounting
    NoForgottenRequest
    BodyOwned
    AbortReaches
    DuplicatesRejected
CHECK_DEADLOCK FALSE
