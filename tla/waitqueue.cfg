\* Two waiters, two wakers, a counter that wraps after three wake ups.
SPECIFICATION WaitFairSpec
CONSTANTS
    Waiters = {w1, w2}
    Wakers = {k1, k2}
    W = 3
INVARIANTS
    NoLostWakeup
    WaitInv
PROPERTY
    WaitEnds
