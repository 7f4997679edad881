SPECIFICATION MarketSpec
CONSTANTS
  Realms = {r1}
  GoldRealms = {r1, r2}
  AnyRealm = any
  Slots = {s1, s2}
  Bounds <- MCBounds
  MaxTime = 4
  Day = 1
  PayloadAt <- MCPayloadAt
  Batches <- MCBatches
  Attempts = 2
  MaxQueue = 2
  Listings <- MCListings
  MinOrders = 1
INVARIANTS MarkedPayloadsAreListed CachedChartsAreWhole GoldContractsCountEveryRealm
SYMMETRY SlotSymmetry
CHECK_DEADLOCK FALSE
