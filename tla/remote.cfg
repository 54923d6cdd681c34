\* Clients one after the other; devd may be stopped, killed and restarted.
SPECIFICATION FairSpec
CONSTANTS
    c1 = c1
    c2 = c2
    Clients = {c1, c2}
    Blocks = {6, 7}
    Addrs <- TwiceListed
    Uses <- InTurn
    Overlap = FALSE
    MaxCmds = 3
    MaxErrors = 1
    MaxLosses = 1
    MaxStarts = 2
\* every process may have ended
CHECK_DEADLOCK FALSE
INVARIANTS
    AckedDurable
    ReadsLatest
    OneAnswer
PROPERTY
    BlocksEnd
