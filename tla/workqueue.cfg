\* Two tasks and the worker itself queue two works six times; the queue may be destroyed.
\* A queue that nobody queues to, or that is destroyed, stops.
SPECIFICATION FairSpec
CONSTANTS
    w1 = w1
    w2 = w2
    t1 = t1
    t2 = t2
    Works = {w1, w2}
    Tasks = {t1, t2}
    Worker = Worker
    Destroyer = Destroyer
    Dummy = Dummy
    Head = Head
    None = None
    MaxQueues = 6
CHECK_DEADLOCK FALSE
INVARIANTS
    NodeClean
PROPERTIES
    IsWorkSpec
    DestroyEnds
