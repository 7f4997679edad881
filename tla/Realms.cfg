SPECIFICATION RealmsSpec
CONSTANTS
  Realms = {r}
  AnyRealm = any
  Slots = {s1, s2}
  Bounds <- MCBounds
  MaxTime = 3
  Day = 1
  PayloadAt <- MCPayloadAt
  Batches <- MCBatches
  Attempts = 2
  MaxQueue = 2
  Reindexes <- MCReindexes
PROPERTIES SnapshotsArrive
CHECK_DEADLOCK FALSE
