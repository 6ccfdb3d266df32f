SPECIFICATION PartsSpec
CONSTANTS
    Threads = {t1, t2}
    BrkCap = 3
    MaxCalls = 4
    Waiters = {1, 2}
    Last = 2
    Budgets <- OnceOrTwice
    MaxSets = 2
    MaxExpiries = 2
CONSTRAINT Uncrossed
INVARIANTS LocksGuard ChildrenReported ReturnsExact NodesExact
PROPERTIES NoStaleAlarm AlarmsServed CallsEnd ImplementsSortedKeys
CHECK_DEADLOCK FALSE
