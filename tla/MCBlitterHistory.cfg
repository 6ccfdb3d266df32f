SPECIFICATION MCSpec
CONSTANTS
    b1 = b1
    b2 = b2
    st = st
    g1 = g1
    Threads = {t1, t2, t3}
    PtrCount = 2
    WordSize = 1
    ByteBits = 1
    RoundTrips = 2
    LockTries = 1
    Ops = {"acquire", "release"}
SYMMETRY Symmetry
INVARIANTS TypeOK ExclusiveOwnership AvailTracksBitmap AllocatorsExact TablesTruthful ScopesSound
PROPERTIES ImplementsPool FailsOnlyWhenFull
