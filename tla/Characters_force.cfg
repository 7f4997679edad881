SPECIFICATION FairSpec
CONSTANTS
  None = none
  Forever = 1000
  Guids = {"c1", "c2"}
  Guilds = {"g1", "g2"}
  Hashes = {"h1", "h2"}
  Sessions = {"s1"}
  Plans <- MCPlans
  Attempts = 2
  MaxStalledCount = 500
PROPERTIES ForcedRefreshFetches
CHECK_DEADLOCK FALSE
