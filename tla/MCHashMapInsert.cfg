SPECIFICATION Spec
CONSTANTS
  k1 = k1
  k2 = k2
  k3 = k3
  r1 = r1
  h1 = h1
  h2 = h2
  h3 = h3
  NodeTotal = 3
  BucketSize = 2
  Key <- MCKey
  hash_func_ <- MCHash
  ChunkHandle <- MCHandle
  ChunkTotal = 3
  ChunkSize = 2
  Lens <- MCLens
  Records <- MCRecords
  InitGarbage = TRUE
INVARIANT OneEntryPerKey
