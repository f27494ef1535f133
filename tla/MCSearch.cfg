CONSTANTS
  Positions <- ThePositions
  HASH_KEY <- TheHASH_KEY
  HAND <- TheHAND
  Turn <- TheTurn
  Index <- TheIndex
  Slot <- TheSlot
  Moves <- TheMoves
  Made <- TheMade
  Captures <- TheCaptures
  Minor <- TheMinor
  Losing <- TheLosing
  Illegal <- TheIllegal
  Declined <- TheDeclined
  Checked <- TheChecked
  Eval <- TheEval
  MaxScore <- TheMaxScore
  MateIn1Ply <- TheMateIn1Ply
  MateIn3Ply <- TheMateIn3Ply
  Passed <- ThePassed
  Recaptures <- TheRecaptures
  Roots <- TheRoots
  Replies <- TheReplies
  Promotions <- ThePromotions
  DullKillers <- TheDullKillers
  Signals <- TheSignals
  Searches = 2
  PLY_MAX = 7
  REJEC_MIN_DEPTH = 12
  QUIES_PLY_LIMIT = 2
  depth_limit = 4
  Refusable <- TheRefusable
SPECIFICATION Spec
INVARIANTS
  ValuesAreTrue
  TableIsTrue
  AnswerIsBacked
  LeavesNoTrace
PROPERTIES
  EachMoveIsTriedOnce
