CONSTANTS
  Positions <- Boards
  MoveGraph <- CaptureGraph
  Checks <- AllChecks
  Material <- BoardMaterial
  Start = "z0"
  StartTurn = "BLACK"
  Computer <- WhiteEngine
  RepLimit = 4
  MaxPlies = 16
  MaxUndos = 2

SPECIFICATION Spec

INVARIANTS
  BoardFollowsTheGame
  TableIsHistory

PROPERTIES
  RootIsTheTree

CHECK_DEADLOCK FALSE
