SPECIFICATION FairSpec
CONSTANTS
  HostLoss = FALSE
  N = 2
  MAX_REJECTS = 1
  MAX_FRAME = 4
  CHUNK = 3
  BUF = 2
  MaxReq = 2
  MidFrameLoss = TRUE
  Sessions <- OneSession
  Requests <- CutRequests
  Responses <- OneResponse
  Nobody = Nobody
  h1 = h1
  h2 = h2
INVARIANTS
  CleanRuns
  HostInStep
PROPERTY
  SocketReleased
