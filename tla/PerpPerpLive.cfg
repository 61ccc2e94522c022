SPECIFICATION FairSpec
CONSTANTS
  Settings <- UnwindInTwo
  MaxOrders = 1
  MaxNews = 1
PROPERTIES ClosingEnds RecoveryEnds
