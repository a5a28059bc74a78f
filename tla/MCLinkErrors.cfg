SPECIFICATION Spec
CONSTANTS
  HostLoss = FALSE
  N = 2
  MAX_REJECTS = 1
  MAX_FRAME = 4
  CHUNK = 3
  BUF = 2
  MaxReq = 2
  MidFrameLoss = FALSE
  Sessions <- OneSession
  Requests <- FewRequests
  Responses <- MCResponses
  Nobody = Nobody
  h1 = h1
  h2 = h2
INVARIANT
  ErrorsCounted
