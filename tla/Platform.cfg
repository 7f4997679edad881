SPECIFICATION PlatformSpec
CONSTANTS
  None = none
  Forever = 1000
  Guids = {"c1", "c2"}
  Guilds = {"g1", "g2"}
  Hashes = {"h1", "h2"}
  Sessions = {"s1"}
  Plans <- MCAllPlans
  Attempts = 2
  MaxStalledCount = 500
  LadderWorlds <- MCLadderWorlds
  Parallel = 2
  Shelves <- MCShelves
  MaxDownloads = 2
  Boards <- MCBoardWorlds
INVARIANTS HashIsHandedOn MarkedBoardsAreQueued ExtractedRanksAreQueued DaysFillInOrder EachRunStoresOnce LegacyValuesAreGone
PROPERTIES RosterPrevails RefreshEnds
CHECK_DEADLOCK FALSE
