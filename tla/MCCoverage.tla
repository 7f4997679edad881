----------------------------- MODULE MCCoverage -----------------------------
(* Coverage with the values of MCRaidLogs, and the bound that two listings  *)
(* overlap only where neither the migration works nor anything has failed. *)
EXTENDS Coverage, MCRaidLogs, TLC

IsCrowded ==
  /\ \A x \in Lister : lister[x].step # "idle"
  /\ migration.step \notin {"count", "done"} \/ faults > 0

BoundedSpec == ObservedInit /\ [][ObservedNext /\ ~IsCrowded']_<<vars, history>>

Symmetry == Permutations(Lister)
=============================================================================
