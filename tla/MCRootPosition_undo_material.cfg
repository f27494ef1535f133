CONSTANTS
  Positions <- Boards
  MoveGraph <- CaptureGraph
  Checks <- AllChecks
  Material <- BoardMaterial
  Start = "z0"
  StartTurn = "BLACK"
  Computer <- Nobody
  RepLimit = 207
  MaxPlies = 6
  MaxUndos = 1

SPECIFICATION Spec

INVARIANTS
  MaterialIsRight

CHECK_DEADLOCK FALSE
