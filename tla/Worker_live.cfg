SPECIFICATION LiveSpec
CONSTANTS
    Keys = {k1}
    RequestKinds <- BothShapes
    MaxSeq = 2
    MaxConcurrency = 1
    MaxAppends = 0
    MaxRequests = 2
    MaxCancels = 0
    MaxNoise = 0
    Noise = {}
    MaxFaults = 1
    Failures = {60003}
PROPERTIES
    EveryRequestResolved
    ImplementsCallProtocol
CHECK_DEADLOCK FALSE
