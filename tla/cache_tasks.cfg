\* Two tasks, two transport threads, a failed read and a failed allocation.
SPECIFICATION Spec
CONSTANTS
    b1 = b1
    b2 = b2
    b3 = b3
    Tasks = {t1, t2}
    IoThreads = {i1, i2}
    Blocks = {b1, b2}
    Txns <- TasksTxns
    Warm = {b1}
    QueueDepth = 9
    DirtyLimit = 3
    WritebackThresh = 2
    SetLimit = 3
    Garbage = {0}
    MaxSets = 4
    MaxOps = 1
    MaxErrors = 1
    MaxAllocFails = 1
CONSTRAINT NoRace
SYMMETRY Perms
INVARIANTS
    DirtyingExclusive
    
    TxnTogether
    RefCounts
    SyncDurable
    SyncErrorLatch
