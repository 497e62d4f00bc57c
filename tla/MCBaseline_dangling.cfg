SPECIFICATION Spec
CONSTANTS
  Order <- MCDeep
  DirName <- MCDirName
  Longer <- MCNone
  MaxMoves = 3
INVARIANTS Intact
CHECK_DEADLOCK FALSE
