CONSTANTS
  m1 = m1
  d1 = d1
  NoMove = NoMove
  NActivities = 2
  Moves = {m1, d1}
  Drops = {d1}
  MaxPlies = 3
  InitMayFail = FALSE
  PlayerTypes <- BlackHuman
  MaxUndos = 2
  SavedGames <- NoSavedGames
  MatedBoards <- NoMatedBoards
  RotateWhen <- WhileWaiting
  LeaveWhen <- OnceStarted
  TouchDuringUndo = FALSE

SPECIFICATION Spec

INVARIANTS
  EvenEntriesAreBlack

CHECK_DEADLOCK FALSE
