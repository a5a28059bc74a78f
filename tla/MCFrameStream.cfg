SPECIFICATION Spec
CONSTANTS
  N = 2
  MAX_REJECTS = 1
  Payloads <- MCPayloads
  StrayBytes <- MCStrayBytes
  MaxSent = 3
  MaxStray = 3
INVARIANTS
  TypeOK
  ExactDelivery
  GarbageIsStray
CHECK_DEADLOCK FALSE
