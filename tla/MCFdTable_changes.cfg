SPECIFICATION FairSpec
CONSTANTS
    t1 = t1
    t2 = t2
    Threads = {t1, t2}
    FdCap = 2
    OfdCap = 2
    MaxLost = 0
    StdFds = {0}
    Ops <- OneChanges
    Disciplined = FALSE
CONSTRAINT RefsBounded
INVARIANT FdBookkeeping
PROPERTY ClosesReturn
