CONSTANTS
  NoLog = NoLog
  Logs <- TwoLogs
  Date <- Dates
  MaxInMemory = 2
  Granularity = 1
  Hasty = TRUE
  Rematches = FALSE
  MayCrash = FALSE
  MaxTasks = 3
  MaxTime = 2

SPECIFICATION Spec

INVARIANTS
  NoLogIsLost

CHECK_DEADLOCK FALSE
