CONSTANTS
  Positions <- Boards
  MoveGraph <- CycleGraph
  Checks <- AllChecks
  Material <- BoardMaterial
  Start = "z0"
  StartTurn = "BLACK"
  Computer <- BlackEngine
  RepLimit = 207
  MaxPlies = 20
  MaxUndos = 0

SPECIFICATION Spec

INVARIANTS
  RootTypeOK
  DrawnAtTheFourth
  NoDrawByPerpetualCheck
  OnlyPerpetualCheckIsRefused
  GivesUpOnlyOnRepeatedChecks
  ReportedMoveIsMade

CHECK_DEADLOCK FALSE
