SPECIFICATION FairPart
CONSTANTS
  k1 = k1
  k2 = k2
  c1 = c1
  c2 = c2
  noCall = noCall
  NoCall <- noCall
  Keys <- TwoKeys
  Callers <- TwoCallers
  MaxVersion = 2
  MaxWs = 1
  Instruments <- OneInstrument
  Sizes <- LongOrShort
  MaxChanges = 5
  MaxPatches = 2
  MaxSyncs = 1
  MaxRestarts = 1
  Policies <- AllPolicies
  Refusals <- AllRefusals
  Places = 1
  MaxOutages = 2
  Feeds <- BothFeeds
  Prices <- TwoPrices
  MaxQty = 1
  MaxWire = 2
  Room = 1
INVARIANTS AllTypesOK WaitersWillBeServed BookIsTheMarkets
PROPERTIES CacheSettles WaitersGetFreshBooks SizeConverges StoreConverges ReportsKeepComing
CHECK_DEADLOCK FALSE
