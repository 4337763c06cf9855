SPECIFICATION FairSpec
CONSTANTS
  p1 = p1
  p2 = p2
  a = a
  b = b
  Proc <- MCProc
  Item <- MCItem
  Setups <- AllSetups
  Index <- MCIndex
  LockNum = 1
  Faults = TRUE
  SizeMax = 4
  MaxSegs = 2
CONSTRAINT Followed
PROPERTIES
  LockSpec
  Linearizable
  IsStack
  Whole
  CallsReturn
