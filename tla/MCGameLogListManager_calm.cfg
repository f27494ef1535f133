CONSTANTS
  NoLog = NoLog
  Logs <- TwoLogs
  Date <- Dates
  MaxInMemory = 1
  Granularity = 1
  Hasty = FALSE
  Rematches = FALSE
  MayCrash = TRUE
  MaxTasks = 5
  MaxTime = 2

SPECIFICATION Spec

INVARIANTS
  LogsTypeOK
  NoLogIsLost
  DeletedStaysAway
  ListedFilesExist
  DeletionsCanBeUndone

CHECK_DEADLOCK FALSE
