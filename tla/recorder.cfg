SPECIFICATION FairSpec
CONSTANTS
    MaxSize = 3
    TrimSize = 2
    MaxChunk = 2
    QueueCap = 1
    MaxOld = 3
    MaxBytes = 4
    MaxFaults = 1
    MaxCrashes = 1
    MayShutdown = TRUE
INVARIANTS FlushedWhenGone Retained SizeBound
PROPERTIES StopFlushes ImplementsJournal
CHECK_DEADLOCK FALSE
