SPECIFICATION PolledPart
CONSTANTS
  e1 = e1
  c1 = c1
  c2 = c2
  noCall = noCall
  NoCall <- noCall
  Exchanges <- OneExchange
  Callers <- TwoCallers
  MaxVersion = 3
  MaxRetries = 2
  Window = 1
  MaxTime = 3
  Reporting <- AllExchanges
  Size = 2
INVARIANTS AllTypesOK CommandsWillBeAnswered SnapshotAnnounced AnswersAreTrue StaleOnlyWhenLate
PROPERTIES SnapshotSettles AnswersAreFresh EndIsLearnt
CHECK_DEADLOCK FALSE
