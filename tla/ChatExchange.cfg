CONSTANT MaxLines = 3
SPECIFICATION FairSpec
INVARIANTS
  TypeOK
  SuccessMeansComplete
  FinishedAnswerIsTransparent
  IncompleteStreamIsAborted
  StreamUsageIsLastDone
  RecordedExactlyOnce
PROPERTY EndedExchangeReturns
