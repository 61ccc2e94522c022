SPECIFICATION FairSpec
CONSTANTS
  Settings <- AllCommands
  MaxOrders = 1
  MaxNews = 1
  MaxCut = 1
  Skips = TRUE
INVARIANTS TypeOK HoldingIsAccounted
PROPERTIES NoNewRiskWhileClosing ExitEnds
