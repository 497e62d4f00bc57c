SPECIFICATION Spec
CONSTANTS
  Name = {a, b}
  Seconds <- MCSeconds
  DefaultRoot = 10
  DefaultOther = 60
  Sizes <- MCSizes
  Default = 2
  Total = 4
  Suffix = {txt}
  MaxExcluded = 2
  MaxEdits = 3
INVARIANTS SpaceKept SavedReturns LoadKeeps
