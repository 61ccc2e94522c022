SPECIFICATION Spec
CONSTANTS
  Settings <- AllEvents
  MaxOrders = 1
  MaxNews = 1
INVARIANTS TypeOK TrackedWillReport SizesCatchUpUnlessLost
PROPERTIES NoNewRiskWhileClosing
