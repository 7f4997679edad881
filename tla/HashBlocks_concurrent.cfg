CONSTANTS
  c1 = c1  c2 = c2  c3 = c3
  a1 = a1  x = x  y = y  w1 = w1  w2 = w2
  Char = {c1, c2}
  HashA = {a1}
  HashB = {x, y}
  Worker = {w1, w2}
  MaxCharactersPerAccount = 1
  MaxAttempts = 2
  InitialCharacters <- Known
  MaxRefreshes = 2
  MaxFaults = 1
  NoHash = NoHash
  NoRow = NoRow
  Unwritten = Unwritten
SPECIFICATION FairSpec
INVARIANTS TypeOK Inv MembersHaveBlocks MembershipIsLogged
PROPERTIES LeavesOnlyAsCollision EveryJobEnds
CHECK_DEADLOCK FALSE
