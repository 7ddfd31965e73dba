SPECIFICATION LiveSpec
CONSTANTS
    Aborters = {a1, a2}
    MaxAddresses = 2
    HeaderBudget = 3
    IdleBudget = 2
    MaxLate = 1
    MaxPause = 2
    Limit = 2
    MaxPending = 2
    MaxBuffered = 1
INVARIANTS
    TypeOK
    SocketsClosed
    AbortedIsClosed
    FirstCause
PROPERTIES
    ImplementsIterator
