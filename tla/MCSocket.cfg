SPECIFICATION FairSpec
CONSTANTS
  Requests = 2
  Conns = 3
  ReqLen = 2
  hlen = 1
  Packs <- MCPacks
  rsp_len = 3
  Timeouts <- MCTimeouts
  Window = 1
  MaxTime = 3
INVARIANTS
  TypeOK
  OneDescriptor
  OwnAnswer
  Framed
  InTime
PROPERTIES
  RecvEnds
CHECK_DEADLOCK FALSE
