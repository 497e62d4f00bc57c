\* What a pass and a restore do not achieve: README 7.  One property at a time,
\* as TLC stops at the first that is violated.
SPECIFICATION FairSpec
CONSTANTS
  Block <- MCBlock
  Zero = 0
  NoCopy = NoCopy
  MaxBlocks = 2
  Time <- MCTime
  MaxEdits = 2
  MaxFaults = 1
  Faults <- NoFaults
  EditsAt <- Outside
PROPERTY NoticesAfterCommit
\* PROPERTY RestoreSettles
\* INVARIANT AlwaysVisible
