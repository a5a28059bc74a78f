SPECIFICATION Spec
CONSTANTS
  TransferRequests <- MCTransfers
  BlockRequests <- MCBlocks
  MaxCount = 3
  RespLen = 15
  RetryCap = 2
  DefaultRetry = 1
  Retries <- MCRetries
  Sequences <- MCSequences
  Polls = 2
INVARIANTS
  TypeOK
  ResponseFits
  PerformedInOrder
  ResponseIsTrue
PROPERTIES
  WaitIsLastResort
  ConnectMeansPowered
  HandleReturns
