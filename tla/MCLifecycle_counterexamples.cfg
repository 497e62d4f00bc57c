\* What comments say and the program does not do: README 7.  One property at a
\* time, as TLC stops at the first that is violated.
CONSTANTS
  o1 = o1
  o2 = o2
  a = a
  b = b
  NoObject = NoObject
  Object <- TwoObjects
  Name <- OneName
  Sizes <- TwoSizes
  Default = 1
  Total = 3
  MaxLeft = 4
  MaxPosts = 1
  PrepareFails = TRUE
SPECIFICATION Spec
CHECK_DEADLOCK FALSE
INVARIANT QuotaKept
\* INVARIANT SpaceNotLost
\* INVARIANT PostedOnLiveServer
\* INVARIANT NoThreadOnFreed
\* INVARIANT ServerHasDir
\* PROPERTY DisableObeyed
