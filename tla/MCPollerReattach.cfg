SPECIFICATION Spec
CONSTANTS
  o1 = o1
  o2 = o2
  Object <- MCObject
  maxPollers = 2
  AddFails = TRUE
  MaxSeq = 4
  MaxCalls = 2
SYMMETRY Symmetry
PROPERTIES
  NoOldNotify
