SPECIFICATION FairPart
CONSTANTS
  c1 = c1
  c2 = c2
  Callers <- TwoCallers
  Commands <- PlaceAndAsk
  MaxCalls = 4
  Ttls <- TwoOrThreeSeconds
  Others = TRUE
  Swaps = TRUE
  Modes <- BothModes
  MaxTries = 2
  MaxGen = 2
  Kinds <- TwoKinds
  Capacity = 2
  Room = 2
  MaxSent = 3
  Clients <- TwoCallers
  Orders <- AllOrders
  Strategies <- BothStrategies
  Places = 1
INVARIANTS AllTypesOK AnswersLagBehindTimeouts FoundWhileItServes
PROPERTIES CallsReturn StartsOnOneProcess LastEventArrives AcknowledgedPauseIsDone
CHECK_DEADLOCK FALSE
