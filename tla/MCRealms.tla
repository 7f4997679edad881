------------------------------ MODULE MCRealms ------------------------------
(***************************************************************************)
(* The auctions of one realm beside the index of the realms, and those of  *)
(* commodities, with the fairness that lets snapshots arrive.              *)
(***************************************************************************)
EXTENDS Realms, TLC

(* One realm, and commodities; snapshot 3 has the payload of snapshot 2. *)
MCPayloadAt == (1 :> "a" @@ 2 :> "b" @@ 3 :> "b")
MCBatches == ("a" :> 1 @@ "b" :> 1)
MCBounds ==
  ({"auctions"} :> [ticks |-> 3, faults |-> 1] @@ {"commodity"} :> [ticks |-> 3, faults |-> 1])
MCReindexes == ({"auctions"} :> 1 @@ {"commodity"} :> 0)

RealmsSpec == RealmsInit /\ [][RealmsNext]_<<auctionVars, realmVars>> /\ AuctionsFairness
=============================================================================
