CONSTANTS
  m1 = m1
  d1 = d1
  NoMove = NoMove
  NActivities = 3
  Moves = {d1}
  Drops = {d1}
  MaxPlies = 2
  InitMayFail = TRUE
  PlayerTypes <- BlackHuman
  MaxUndos = 0
  SavedGames <- NoSavedGames
  MatedBoards <- NoMatedBoards
  RotateWhen <- IdleRotation
  LeaveWhen <- OnceStarted
  TouchDuringUndo = FALSE

SPECIFICATION Spec

INVARIANTS
  InstancesNameGames
  EngineFollowsTheRunningGame

CHECK_DEADLOCK FALSE
