SPECIFICATION FairSpec
CONSTANTS
  Thread = {m, a, b}
  Main = m
  NSlots = 1
  Discipline = {"serial", "meet"}
  MayFail = FALSE
  None = None
  Spare = Spare
CHECK_DEADLOCK FALSE
PROPERTIES JoinReturns
