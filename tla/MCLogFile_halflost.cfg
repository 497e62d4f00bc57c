CONSTANTS
  t1 = t1
  t2 = t2
  Thread <- TwoThreads
  Lengths <- TwoLengths
  MaxSize = 8
  MaxTmp = 8
SPECIFICATION Spec
INVARIANTS RotationKeepsHalf
CHECK_DEADLOCK FALSE
