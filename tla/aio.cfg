\* Three blocks, three iocbs, four submissions; the transport may be destroyed at any time.
SPECIFICATION Spec
CONSTANTS
    a = a
    b = b
    c = c
    Blocks = {a, b, c}
    QueueDepth = 3
    MaxSubmits = 4
INVARIANTS
    IocbOwned
    PageHeld
PROPERTIES
    IsTransport
    DestroyEnds
