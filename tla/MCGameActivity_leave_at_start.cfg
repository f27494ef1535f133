CONSTANTS
  m1 = m1
  d1 = d1
  NoMove = NoMove
  NActivities = 2
  Moves = {d1}
  Drops = {d1}
  MaxPlies = 2
  InitMayFail = FALSE
  PlayerTypes <- BlackHuman
  MaxUndos = 2
  SavedGames <- NoSavedGames
  MatedBoards <- NoMatedBoards
  RotateWhen <- NoRotation
  LeaveWhen <- AnySituation
  TouchDuringUndo = FALSE

SPECIFICATION FairSpec

PROPERTIES
  TurnComesBack

CHECK_DEADLOCK FALSE
