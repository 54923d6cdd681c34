\* One task executing three transactions; sets merge and reach the limits.
SPECIFICATION Spec
CONSTANTS
    b1 = b1
    b2 = b2
    b3 = b3
    Tasks = {t1}
    IoThreads = {i1}
    Blocks = {b1, b2, b3}
    Txns <- OpsTxns
    Warm = {b1, b2}
    QueueDepth = 9
    DirtyLimit = 2
    WritebackThresh = 2
    SetLimit = 2
    Garbage = {0, 1}
    MaxSets = 4
    MaxOps = 3
    MaxErrors = 1
    MaxAllocFails = 1
CONSTRAINT NoRace
INVARIANTS
    TypeOK
    WritebackQueue
    NoLostDirty
    NrWriteback
    NoBug
