------------------------------- MODULE Market -------------------------------
(***************************************************************************)
(* The market's services on one set of tables: the ingestion of auctions,  *)
(* the charts of the API and the contracts, interleaved.                   *)
(***************************************************************************)
EXTENDS Charts, Contracts

marketVars == <<auctionVars, chartVars, contractVars>>

MarketInit == AuctionsInit /\ ChartsInit /\ ContractsInit

MarketNext ==
  \/ (AuctionsNext /\ UNCHANGED <<chartVars, contractVars>>)
  \/ (ChartsNext /\ UNCHANGED contractVars)
  \/ (ContractsNext /\ UNCHANGED chartVars)

MarketSpec == MarketInit /\ [][MarketNext]_marketVars
=============================================================================
