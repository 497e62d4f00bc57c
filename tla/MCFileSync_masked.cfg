SPECIFICATION Spec
CONSTANTS
  Block <- MCBlock
  Zero = 0
  NoCopy = NoCopy
  MaxBlocks = 2
  Time <- MCTime
  MaxEdits = 2
  MaxFaults = 1
  Faults <- NoFaults
  EditsAt <- Places
INVARIANT Visible
