\* What the walks do not keep (README, section 7); one property at a time.
SPECIFICATION Spec
CONSTANTS
  Path <- SmallPath
  Dirs <- SmallDirs
  Depth = 2
  CountDepth = 3
  Disk = {2, 3}
  MaxBackup = 2
  MaxMoves = 2
INVARIANT
  BackupBelowDisk
PROPERTIES
  MarkIsTrue
  NeverFalseDelete
  DeletedWasAway
