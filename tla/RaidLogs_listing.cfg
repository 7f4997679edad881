CONSTANTS
  g1 = g1  g2 = g2  g3 = g3  g4 = g4  ra = ra  rb = rb  p = p
  Log = {g1, g2, g3, g4}
  Realm = {ra, rb}
  Lister = {l1, l2}
  Indexer = {}
  Char = {p}
  LogCharacters <- Named
  PageSize = 1
  FromPage = 1
  ToPage = 4
  Tolerance = 1
  TakeLimit = 1
  InitialSite <- TwoRealms
  InitialRows <- OldRow
  MaxFaults = 1
  MaxExpiries = 0
  NoRealm = NoRealm
SPECIFICATION BoundedSpec
INVARIANTS RowsBounded ListingComplete MigrationComplete
SYMMETRY Symmetry
