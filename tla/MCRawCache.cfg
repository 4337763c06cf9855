SPECIFICATION Spec
CONSTANTS
  c1 = c1
  c2 = c2
  x = x
  y = y
  Cache <- MCCache
  Data <- MCData
  MaxLen = 3
  MinBlock = 2
  TopBlock = 8
  C_SLOT_1 = 3
  C_SLOT_2 = 3
  C_EXTEND_SET = 2
  C_MAX_POOL_SIZE = 9
  C_MAX_WATER_MARK = 5
  MaxAddr = 5
SYMMETRY Symmetry
INVARIANTS
  InBlock
  BlocksOwned
  Accounted
PROPERTIES
  InOrder
