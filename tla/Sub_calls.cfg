SPECIFICATION Spec
CONSTANTS
    c1 = c1
    c2 = c2
    Keys = {c1, c2}
    StreamingKeys = {c1}
    Closers = {}
    MaxSeq = 3
    MaxRetries = 0
    MaxFaults = 1
    Noise = {"system", "invalid", "astray"}
INVARIANTS
    TypeOK
    Routed
    SeqsAgree
    FailureReaches
    CallbackLast
    NoLostWakeup
CHECK_DEADLOCK FALSE
