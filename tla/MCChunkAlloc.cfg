SPECIFICATION FairSpec
CONSTANTS
  r1 = r1
  r2 = r2
  n1 = n1
  n2 = n2
  ChunkTotal = 3
  ChunkSize = 2
  Lens <- MCLens
  Records <- MCRecords
  Nodes <- MCNodes
  MaxCrashes = 1
CONSTRAINT Followed
INVARIANTS
  TypeOK
  NoAlias
  NoCycle
  VerifiedNeverNull
  UpdateFits
  NoLeak
  LackIsReal
PROPERTIES
  StoresRecords
  CallsReturn
