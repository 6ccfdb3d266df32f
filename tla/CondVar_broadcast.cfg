SPECIFICATION FairSpec
CONSTANTS
    Callers = {a, b, s}
    Waiters = {a, b}
    Timed = {}
    Signallers = {s}
    Nobody = Nobody
    MaxCalls = 1
    Systems <- PrivateBroadcast
PROPERTIES SignalledReturn
CHECK_DEADLOCK FALSE
