SPECIFICATION Spec
CONSTANTS
    Threads = {t1, t2}
    Cap = 1
    SeqMask = 8
    Keys = {k1}
    Nsems = 1
    SemWord = 4
    Batches <- TakeAndPut
    Values = {1}
    MaxSeq = 1
    MaxTime = 0
    Ops = {"semget", "semop", "setval"}
    Serialised = FALSE
CONSTRAINT NetBounded
INVARIANT NeverNegative
CHECK_DEADLOCK FALSE
