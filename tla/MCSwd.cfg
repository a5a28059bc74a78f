SPECIFICATION Spec
CONSTANTS
  W = 5
  ResetOnes = 17
  LINE_ONES = 26
  IDLE = 2
  Words <- MCWords
  Accesses <- MCAccesses
  Sequences <- MCSequences
  MaxOps = 4
  MaxNoise = 1
INVARIANTS
  InStep
  NoFight
  OnlyTheRequest
  ReadIsTrue
  RefusalIsTrue
