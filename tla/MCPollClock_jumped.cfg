CONSTANTS
  Seconds <- Intervals
  DefaultRoot = 3
  DefaultOther = 6
  PassTime = 7
  Tick = 1
SPECIFICATION FairSpec
PROPERTIES FullPassAlwaysComes
