----------------------------- MODULE MCRaidLogs -----------------------------
(* Values of RaidLogs' constants for TLC.                                  *)
EXTENDS RaidLogs

CONSTANTS g1, g2, g3, g4, ra, rb, p

\* g1 was saved and indexed before rows had a realm
OldRow == [g \in Log |-> IF g = g1 THEN <<[isIndexed |-> TRUE, realmSlug |-> NoRealm]>> ELSE <<>>]

\* g2 is saved and no longer listed
SavedRow ==
  [g \in Log |-> IF g = g2 THEN <<[isIndexed |-> FALSE, realmSlug |-> ra]>> ELSE <<>>]

\* g4 is not listed yet
TwoRealms == [r \in Realm |-> IF r = ra THEN <<g3, g2>> ELSE <<g1>>]

OneRealm == [r \in Realm |-> <<g1>>]

\* g2's reports name nobody
Named == [g \in Log |-> IF g = g1 THEN {p} ELSE {}]

\* no row lacks its realm here: the migration, which would end at once, is not started
IndexingSpec == Init /\ [][Next /\ UNCHANGED migration]_vars /\ Fairness
=============================================================================
