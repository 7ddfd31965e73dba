SPECIFICATION Spec
CONSTANTS
    Stoppers = {"s1", "s2"}
    SignalHandler = FALSE
    MaxRetries = 1
    MaxStreams = 3
INVARIANTS
    NoCompetingStreams
PROPERTIES
    StopEndsRun
