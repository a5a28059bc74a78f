SPECIFICATION Spec
CONSTANTS
  MaxUrbs = 4
  Setups <- MCSetups
  OutLens <- MCOutLens
  InLens <- MCInLens
  ResponseLens <- MCResponseLens
INVARIANTS
  RepliesInOrder
  InReturnsLatestResponse
  CountersMatchReplies
  AnswerFits
  EnumerationSucceeds
PROPERTY
  UrbsAnswered
