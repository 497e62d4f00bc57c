CONSTANTS
  Seconds <- Intervals
  DefaultRoot = 3
  DefaultOther = 6
  PassTime = 0
  Tick = 1
SPECIFICATION Spec
INVARIANTS IntervalOrder
