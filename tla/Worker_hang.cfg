SPECIFICATION HangSpec
CONSTANTS
    Keys = {k1}
    RequestKinds <- StreamingOnly
    MaxSeq = 1
    MaxConcurrency = 1
    MaxAppends = 2
    MaxRequests = 1
    MaxCancels = 1
    MaxNoise = 1
    Noise = {"system", "invalid", "foreign"}
    MaxFaults = 1
    Failures = {60003, 60008}
INVARIANTS
    ChainIntact
    ReaderNeverFaults
    FaultStopsReader
PROPERTIES
    DecidedTaskEnds
CHECK_DEADLOCK FALSE
