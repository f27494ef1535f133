CONSTANTS
  m1 = m1
  d1 = d1
  NoMove = NoMove
  NActivities = 1
  Moves = {m1, d1}
  Drops = {d1}
  MaxPlies = 5
  InitMayFail = FALSE
  PlayerTypes <- EveryPlayerType
  MaxUndos = 2
  SavedGames <- OneSavedPlay
  MatedBoards <- NoMatedBoards
  RotateWhen <- NoRotation
  LeaveWhen <- OnceStarted
  TouchDuringUndo = FALSE

SPECIFICATION FairSpec

INVARIANTS
  TypeOK
  OneRequestAtATime
  SettledAgreesWithEngine
  EvenEntriesAreBlack
  UndoTakesTheLastMoves
  NoSearchAfterTheEnd
  FinishedGameIsSaved

PROPERTIES
  TurnComesBack
  SessionIsAGame

CHECK_DEADLOCK FALSE
