CONSTANTS
  m1 = m1
  d1 = d1
  NoMove = NoMove
  NActivities = 1
  Moves = {m1, d1}
  Drops = {d1}
  MaxPlies = 4
  InitMayFail = FALSE
  PlayerTypes <- BlackHuman
  MaxUndos = 2
  SavedGames <- NoSavedGames
  MatedBoards <- NoMatedBoards
  RotateWhen <- NoRotation
  LeaveWhen <- OnceStarted
  TouchDuringUndo = TRUE

SPECIFICATION Spec

INVARIANTS
  UndoTakesTheLastMoves

CHECK_DEADLOCK FALSE
