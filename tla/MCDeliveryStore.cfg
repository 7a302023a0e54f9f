SPECIFICATION StoreSpec
CONSTANTS
    MaxQueued = 3
    MaxQueuedBytes = 4
    MaxInt64 = 6
    BatchLimit = 2
    Sizes = {1, 2}
    Times = {0, 1, 2}
INVARIANTS
    HistoryComplete
    BatchContiguous
    EvictionIsTheLoop
