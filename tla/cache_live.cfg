\* Two tasks merge, use and fill two dirty sets while they are written; every operation ends.
SPECIFICATION DirtyFairSpec
CONSTANTS
    b1 = b1
    b2 = b2
    b3 = b3
    Tasks = {t1, t2}
    IoThreads = {i1}
    Blocks = {b1, b2, b3}
    Txns <- FullTxns
    Warm = {b1, b2, b3}
    QueueDepth = 9
    DirtyLimit = 3
    WritebackThresh = 3
    SetLimit = 3
    Garbage = {0}
    MaxSets = 6
    MaxOps = 1
    MaxErrors = 0
    MaxAllocFails = 0
\* a task can hang after a stale_set race or a late merge, which OpsEnd excludes
CHECK_DEADLOCK FALSE
PROPERTY
    OpsEnd
