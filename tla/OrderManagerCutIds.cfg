CONSTANTS
  o1 = o1  k1 = k1  long1 = long1  noOrder = noOrder
  Orders <- OneOrder
  ClientIds <- OrderAndLong
  ClientIdOf <- CutIds
  Keys <- OneKey
  KeyOf <- SameKey
  DecodesIds = TRUE
  EchoesCancel = TRUE
  Size = 2
  MaxWs = 3
  MaxCancels = 2
  NoOrder = noOrder
SPECIFICATION Spec
PROPERTIES StreamEventApplied
