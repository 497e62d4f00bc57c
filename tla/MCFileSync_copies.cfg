SPECIFICATION FairSpec
CONSTANTS
  Block <- MCBlock
  Zero = 0
  NoCopy = NoCopy
  MaxBlocks = 2
  Time <- MCTime
  MaxEdits = 2
  MaxFaults = 1
  Faults <- QuietFaults
  EditsAt <- Outside
INVARIANTS Visible
PROPERTIES PassesJudge SiteReturns
