SPECIFICATION Spec
CONSTANTS
  p1 = p1
  p2 = p2
  a = a
  b = b
  Proc <- MCProc
  Item <- MCItem
  Setups <- OneSetup
  Index <- MCIndex
  LockNum = 1
  SizeMax = 4
  Faults = FALSE
  MaxSegs = 1
INVARIANTS
  HeaderThere
