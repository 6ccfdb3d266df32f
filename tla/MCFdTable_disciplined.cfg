SPECIFICATION Spec
CONSTANTS
    t1 = t1
    t2 = t2
    Threads = {t1, t2}
    FdCap = 3
    OfdCap = 2
    MaxLost = 1
    StdFds = {0}
    Ops <- Careful
    Disciplined = TRUE
INVARIANTS TablesExact DescriptionsLive
