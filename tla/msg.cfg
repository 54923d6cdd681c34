\* Two senders, a peer that may connect from outside while they send to it, and a tear down.
\* A process that has nothing to send waits: the system may stop.
SPECIFICATION FairSpec
CONSTANTS
    t1 = t1
    t2 = t2
    x = x
    Tasks = {t1, t2}
    Addrs = {x}
    AcceptAddrs = {x}
    MaxSends = 2
    MaxAccepts = 1
    MaxFails = 1
CHECK_DEADLOCK FALSE
CONSTRAINT NoRace
INVARIANTS
    PeerRefs
    FreedUnused
    OrderedDelivery
PROPERTIES
    SendProgress
