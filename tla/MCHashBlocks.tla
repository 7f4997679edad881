---------------------------- MODULE MCHashBlocks ----------------------------
(* Values of HashBlocks' constants for TLC.                                *)
EXTENDS HashBlocks, TLC

CONSTANTS c1, c2, c3, w1, w2, a1, x, y

\* nobody has been refreshed yet: the backfill finds no group
Blank == {[c \in Char |-> [hashA |-> NoHash, hashB |-> NoHash]]}

\* every way characters can have hash x, or none, when the service first boots
Known == [Char -> {[hashA |-> NoHash, hashB |-> NoHash], [hashA |-> a1, hashB |-> x]}]

\* the first boot finds no group, or one of two characters
NoneOrTwo == {known \in Known : Cardinality({c \in Char : known[c].hashB = x}) \in {0, 2}}

Symmetric == Permutations(Char) \cup Permutations(Worker)
=============================================================================
