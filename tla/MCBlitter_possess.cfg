SPECIFICATION MCFairSpec
CONSTANTS
    Threads = {t1, t2}
    PtrCount = 1
    WordSize = 2
    ByteBits = 1
    RoundTrips = 2
    LockTries = 2
    Ops = {"acquire", "obtain", "possess", "release"}
CONSTRAINT DriftBound
INVARIANT NoLeak
PROPERTY CallsReturn
