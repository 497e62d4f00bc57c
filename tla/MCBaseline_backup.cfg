SPECIFICATION FairSpec
CONSTANTS
  Order <- MCDeep
  DirName <- MCDirName
  Longer <- MCNone
  MaxMoves = 2
INVARIANTS TypeOK
PROPERTIES RecordsStayFit RestoreHelps CommitAdopts AutoReturns
CHECK_DEADLOCK FALSE
