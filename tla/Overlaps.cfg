CONSTANTS
  c1 = c1  c2 = c2  c3 = c3
  a1 = a1  x = x  y = y  w1 = w1  w2 = w2
  Char = {c1, c2, c3}
  HashA = {a1}
  HashB = {x, y}
  Worker = {w1, w2}
  MaxCharactersPerAccount = 1
  MaxAttempts = 2
  InitialCharacters <- NoneOrTwo
  MaxRefreshes = 3
  MaxFaults = 1
  NoHash = NoHash
  NoRow = NoRow
  Unwritten = Unwritten
SPECIFICATION ObservedSpec
INVARIANTS StatsExact ConfirmedExact
CHECK_DEADLOCK FALSE
PROPERTIES AccurateKeepsMembers
SYMMETRY Symmetric
