SPECIFICATION DeskSpec
CONSTANTS
  c1 = c1
  c2 = c2
  n1 = n1
  n2 = n2
  Customer = {c1, c2}
  Order <- DeskOrder
  Names = {n1, n2}
  NoRow = NoRow
  Unread = Unread
  Matched <- DeskMatched
  PageSize = 1
  MaxVersion = 2
  MaxTasks = 2
  MaxDecisions = 1
INVARIANT ClearIsTrue
CHECK_DEADLOCK FALSE
