SPECIFICATION FairSpec
CONSTANTS
    MaxQueued = 3
    MaxQueuedBytes = 3
    MaxInt64 = 5
    BatchLimit = 2
    Sizes = {1}
    Times = {0, 1, 2}
    MaxNow = 1
    Senders = 2
    MaxWire = 2
    MaxConnections = 2
INVARIANTS
    NoSilentGap
    CaughtUpIsTrue
    NoUnreportedGap
PROPERTIES
    ImplementsHistory
CHECK_DEADLOCK FALSE
