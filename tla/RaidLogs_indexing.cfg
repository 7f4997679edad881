CONSTANTS
  g1 = g1  g2 = g2  g3 = g3  g4 = g4  ra = ra  rb = rb  p = p
  Log = {g1, g2}
  Realm = {ra}
  Lister = {l1}
  Indexer = {i1, i2}
  Char = {p}
  LogCharacters <- Named
  PageSize = 1
  FromPage = 1
  ToPage = 2
  Tolerance = 1
  TakeLimit = 1
  InitialSite <- OneRealm
  InitialRows <- SavedRow
  MaxFaults = 1
  MaxExpiries = 1
  NoRealm = NoRealm
SPECIFICATION IndexingSpec
INVARIANT IndexedCharactersQueued
PROPERTY EveryLogIndexed
