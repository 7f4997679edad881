CONSTANTS
  ga = ga  gb = gb  c1 = c1  c2 = c2
  Guild = {ga}
  Id = {ga}
  IdOf <- OwnId
  Char = {c1, c2}
  KnownRealm = {c1}
  LowestRank = 2
  InitialSite <- Founded
  MaxChanges = 2
  MaxFaults = 1
  Absent = Absent
  NoGuild = NoGuild
  NoId = NoId
  NoRow = NoRow
SPECIFICATION FairSpec
INVARIANTS ScanRestoresMembers HistoryAgrees CharactersFollow
PROPERTY MembersConverge
