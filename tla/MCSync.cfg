SPECIFICATION SyncSpec
CONSTANTS
  Thread = {m, a, b}
  Main = m
  NSlots = 1
  Discipline = {"serial", "gate", "meet"}
  MayFail = TRUE
  None = None
  Spare = Spare
CHECK_DEADLOCK FALSE
INVARIANTS CreationExact StartsAsCreated DaemonSparesTheProcess MemoryOutlivesThread SyncExact StacksLive WakesReach
PROPERTIES JoinReturns SyncReturns
