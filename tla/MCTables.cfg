SPECIFICATION TablesSpec
CONSTANTS
    m1 = m1
    m2 = m2
    m3 = m3
    m4 = m4
    q1 = q1
    Threads = {t1, t2}
    Cap = 1
    SeqMask = 8
    Keys = {k1}
    Nsems = 2
    SemWord = 4
    Batches <- Mixed
    Values = {4}
    MaxSeq = 2
    MaxTime = 1
    Ops = {"semget", "semop", "setval", "rmid"}
    Serialised = TRUE
    Slots = 2
    Msgs = {m1, m2}
    Type <- OneAndTwo
    Sels <- OneOfEach
    Segments = 2
    MaxSegments = 4
    MaxAttached = 2
SYMMETRY Symmetry
CONSTRAINT NetBounded
INVARIANTS CountsExact IdsNameOneObject SymbolsSound CodeSound
PROPERTIES ImplementsSemaphores ImplementsQueue ImplementsBox
CHECK_DEADLOCK FALSE
