SPECIFICATION Spec
CONSTANTS
  Settings <- NoCommands
  MaxOrders = 1
  MaxNews = 1
  MaxCut = 1
  Skips = FALSE
INVARIANTS QuantityIsHeld
