\* A sync returns before its blocks are written.
SPECIFICATION Spec
CONSTANTS
    b1 = b1
    b2 = b2
    b3 = b3
    Tasks = {t1, t2}
    IoThreads = {i1}
    Blocks = {b1, b2}
    Txns <- MergeTxns
    Warm = {b1, b2}
    QueueDepth = 9
    DirtyLimit = 2
    WritebackThresh = 2
    SetLimit = 3
    Garbage = {0}
    MaxSets = 4
    MaxOps = 1
    MaxErrors = 0
    MaxAllocFails = 0
INVARIANT
    SyncWritesAll
