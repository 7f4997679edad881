------------------------------ MODULE MCMarket ------------------------------
(***************************************************************************)
(* Values of Market's constants: the deployments that MCBounds names are   *)
(* auctions alone, auctions with batches that are lost, commodities with   *)
(* the API's charts, and contracts with either source.                     *)
(***************************************************************************)
EXTENDS Market, TLC

(* Snapshot 3 is published with the payload of snapshot 2. *)
MCPayloadAt == (1 :> "a" @@ 2 :> "b" @@ 3 :> "b" @@ 4 :> "a")
MCBatches == ("a" :> 1 @@ "b" :> 2)

MCBounds ==
  ({"auctions"} :> [ticks |-> 4, faults |-> 1] @@
   {"auctions", "lossy"} :> [ticks |-> 2, faults |-> 2] @@
   {"commodity", "api"} :> [ticks |-> 3, faults |-> 1] @@
   {"commodity", "contracts"} :> [ticks |-> 3, faults |-> 0] @@
   {"gold", "contracts"} :> [ticks |-> 3, faults |-> 0])

MCListings ==
  {[realm |-> r, online |-> TRUE, valid |-> TRUE, id |-> 1] : r \in GoldRealms \cup {AnyRealm}}

SlotSymmetry == Permutations(Slots)
=============================================================================
