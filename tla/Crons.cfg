SPECIFICATION CronsSpec
CONSTANTS
  Sweeping <- MCSweeping
  Kept = 2
  Limit = 2
  Uuids = {"k1", "k2"}
  Queries = {"q1", "q2"}
  NoKey = none
  KeyWorlds <- MCKeyWorlds
  MaxRetries = 1
  MaxAttempts = 2
  BaseDelay = 1
  Multiplier = 2
  MaxDelay = 2
  DecayStep = 1
  Seekers = {"c1", "c2"}
  LfgRuns = {"x1", "x2"}
  LfgWorlds <- MCLfgWorlds
PROPERTIES RowsComeRound QueriesRetry LeaversAreForgotten
CHECK_DEADLOCK FALSE
