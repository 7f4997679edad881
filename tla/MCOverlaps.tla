----------------------------- MODULE MCOverlaps -----------------------------
(* HashBlocks with the history of overlapping jobs, for TLC.               *)
EXTENDS Overlaps, MCHashBlocks
=============================================================================
