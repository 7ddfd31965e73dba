SPECIFICATION LiveSpec
CONSTANTS
    c1 = c1
    c2 = c2
    Keys = {c1, c2}
    StreamingKeys = {c1}
    Closers = {k1}
    MaxSeq = 2
    MaxRetries = 0
    MaxFaults = 1
    Noise = {}
PROPERTIES
    OutcomeArrives
    FailureEndsAll
CHECK_DEADLOCK FALSE
