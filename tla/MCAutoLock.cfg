SPECIFICATION FairSpec
CONSTANTS
  p1 = p1
  p2 = p2
  p3 = p3
  p4 = p4
  Proc <- MCProc
  MakerDies = FALSE
INVARIANTS
  MutualExclusion
PROPERTIES
  LockGranted
