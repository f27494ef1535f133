CONSTANTS
  ManyTried = 100
  LinedUpTried = 300
  FewTried = 6
  ComposedTried = {1, 2, 3, 4, 5, 6, 7, 8}
  Depth = 2
  Starts <- MCStarts

SPECIFICATION Spec

INVARIANTS
  CopiesAgree
  RememberedMovesAreChecked
  GeneratorsFindTheLegalMoves
  ChecksAreFound
  ChecksAreRecognised
  MatingMovesMate
  ContactMatesAreFound
  MateAnswersStandForAll
  MateInThreeIsKept

PROPERTIES
  TakenBackIsRestored

CHECK_DEADLOCK FALSE
