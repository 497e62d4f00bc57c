CONSTANTS
  o1 = o1
  o2 = o2
  a = a
  b = b
  NoObject = NoObject
  Object <- OneObject
  Name <- OneName
  Sizes <- TwoSizes
  Default = 1
  Total = 2
  MaxLeft = 3
  MaxPosts = 1
  PrepareFails = TRUE
SPECIFICATION FairSpec
PROPERTIES CommandsEnd DeletedUnlessPaused
CHECK_DEADLOCK FALSE
