SPECIFICATION Spec
CONSTANTS
  N = 2
  MAX_REJECTS = 1
  MAX_FRAME = 2
  MaxReq = 2
  MaxBytes = 3
  MidFrameLoss = TRUE
  Sessions <- OneSession
  Requests <- MCRequests
  PeerBytes <- MCBytes
  Nobody = Nobody
  h1 = h1
PROPERTIES
  ReturnsFirstFrame
  RequestReturns
