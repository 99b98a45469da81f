SPECIFICATION FairSpec
CONSTANTS
  None = None
  A = A
  B = B
  v1 = v1
  Run = {1, 2}
  Rerunnable = {1}
  List <- OneList
  Visitor = {v1}
  TicksPerDay = 1
  CarryDays = 1
  FallbackDays = 1
  RefreshTicks = 1
  RollbackWorks = FALSE
  Daily = TRUE
  MaxTick = 2
  MaxCommit = 0
  MaxSequence = 3
PROPERTY VisitorsConverge
CHECK_DEADLOCK FALSE
