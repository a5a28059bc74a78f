SPECIFICATION Spec
CONSTANTS
  HostLoss = TRUE
  N = 2
  MAX_REJECTS = 1
  MAX_FRAME = 4
  CHUNK = 3
  BUF = 2
  MaxReq = 2
  MidFrameLoss = FALSE
  Sessions <- TwoSessions
  Requests <- RpcRequests
  Responses <- MCResponses
  Nobody = Nobody
  h1 = h1
  h2 = h2
INVARIANTS
  TypeOK
  CountersAddUp
PROPERTIES
  ImplementsRpc
