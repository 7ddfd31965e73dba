SPECIFICATION Spec
CONSTANTS
    Stoppers = {"handler"}
    SignalHandler = TRUE
    MaxRetries = 1
    MaxStreams = 3
PROPERTIES
    StopEndsRun
CHECK_DEADLOCK FALSE
