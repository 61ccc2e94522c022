SPECIFICATION Spec
CONSTANTS
  Settings <- NoTrouble
  MaxOrders = 1
  MaxNews = 1
INVARIANTS InactiveIsFlat
