\* Two threads with a buffer of two events each, three events that are not dropped, a flush or a tear down.
\* A process that nobody uses, or that has exited, stops.
SPECIFICATION FairSpec
CONSTANTS
    t1 = t1
    t2 = t2
    Storers = {t1, t2}
    Main = Main
    Writer = Writer
    NR_BUFS = 1
    BUF_SIZE = 2
    None = None
    MaxEvents = 3
CHECK_DEADLOCK FALSE
INVARIANTS
    StoreExclusive
    WritingOnce
    NoEventLost
PROPERTIES
    BufsReturn
    TeardownEnds
