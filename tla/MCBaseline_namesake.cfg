SPECIFICATION Spec
CONSTANTS
  Order <- MCFlat
  DirName <- MCDirName
  Longer <- MCLonger
  MaxMoves = 2
PROPERTIES RestoreNeverHarms
CHECK_DEADLOCK FALSE
