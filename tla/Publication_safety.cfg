SPECIFICATION Spec
CONSTANTS
  None = None
  A = A
  B = B
  v1 = v1
  Run = {1, 2}
  Rerunnable = {}
  List <- OneList
  Visitor = {v1}
  TicksPerDay = 2
  CarryDays = 1
  FallbackDays = 1
  RefreshTicks = 2
  RollbackWorks = TRUE
  Daily = FALSE
  MaxTick = 3
  MaxCommit = 1
  MaxSequence = 3
INVARIANTS StatedAgeIsTrue LiveWasVerified NothingPending SequenceNamesOneBundle
PROPERTY CodeNeverRegresses
CHECK_DEADLOCK FALSE
