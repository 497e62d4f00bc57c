CONSTANTS
  o1 = o1
  o2 = o2
  a = a
  b = b
  NoObject = NoObject
  Object <- TwoObjects
  Name <- OneName
  Sizes <- OneSize
  Default = 1
  Total = 2
  MaxLeft = 3
  MaxPosts = 1
  PrepareFails = TRUE
SPECIFICATION Spec
SYMMETRY Symmetric
INVARIANTS UniqueNames NothingLeftBehind PostedWhenGone NoLostResume
CHECK_DEADLOCK FALSE
