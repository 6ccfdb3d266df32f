SPECIFICATION FairSpec
CONSTANTS
    Threads = {t1, t2}
    Names = {q1}
    Cap = 1
    Slots = 1
    Limits = {1}
    Msgs = {m1, m2}
    Prio <- EqualPriorities
    Word = 3
    MaxTime = 1
    MaxLives = 1
    Ops = {"open", "unlink", "setattr", "send", "receive"}
    Serialised = FALSE
 
PROPERTY TimedCallsReturn
CHECK_DEADLOCK FALSE
