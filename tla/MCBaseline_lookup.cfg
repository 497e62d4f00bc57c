SPECIFICATION Spec
CONSTANTS
  Order <- MCDeep
  DirName <- MCDirName
  Longer <- MCNone
  MaxMoves = 3
PROPERTIES LookupAnswers
CHECK_DEADLOCK FALSE
