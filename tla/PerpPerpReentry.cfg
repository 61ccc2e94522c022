SPECIFICATION Spec
CONSTANTS
  Settings <- RefusedEmergency
  MaxOrders = 1
  MaxNews = 1
PROPERTIES NoReentryWhilePaused
