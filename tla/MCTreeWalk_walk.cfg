\* The walks over a site that changes meanwhile.
SPECIFICATION FairSpec
CONSTANTS
  Path <- SmallPath
  Dirs <- SmallDirs
  Depth = 2
  CountDepth = 3
  Disk = {2, 3}
  MaxBackup = 2
  MaxMoves = 2
INVARIANTS
  WalkMeets
PROPERTIES
  BackupFits
  NoFalseDelete
  ReportedAtLast
  WalkEnds
