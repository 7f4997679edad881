------------------------------- MODULE Charts -------------------------------
(***************************************************************************)
(* apps/api's DmaService.getChart over the tables that Auctions fills: the *)
(* heatmap of a commodity is read through a Redis cache whose key names    *)
(* the latest commodity timestamp.  A request reads the series keys, the   *)
(* cache, the price axis and then every timestamp's orders, each in a      *)
(* statement of its own, while snapshots are saved and rows expire.        *)
(* The item's orders are spread over all batches of its snapshots.         *)
(***************************************************************************)
EXTENDS Auctions

VARIABLES request, \* what the request in progress has read
          charts   \* charts[k]: the chart cached under the latest timestamp k, or None

chartVars == <<request, charts>>

NoRequest == [step |-> "none"]
NoChart == [times |-> {}, points |-> {}, cached |-> FALSE]

ChartsInit ==
  /\ request = NoRequest
  /\ charts = [k \in 0 .. MaxTime |-> NoChart]

(* The last of the sorted timestamps, nothing (here 0) if there is none. *)
LatestOf(S) == IF S = {} THEN 0 ELSE CHOOSE t \in S : \A u \in S : u <= t

GetLatestTimestampCommodity ==
  /\ request = NoRequest /\ "api" \in enabled
  /\ request' = [step |-> "cache", times |-> series]
  /\ UNCHANGED <<auctionVars, charts>>

GetCached ==
  /\ request.step = "cache"
  /\ request' = IF charts[LatestOf(request.times)].cached THEN NoRequest
                ELSE [step |-> "axis", times |-> request.times]
  /\ UNCHANGED <<auctionVars, charts>>

(* No price, no axis: the dataset is empty and every timestamp is shown.  *)
PriceAxisCommodity ==
  /\ request.step = "axis"
  /\ LET priced == \E t \in Times : Listed(AnyRealm, t) IN
       request' = [step |-> "read", times |-> request.times,
                   left |-> IF priced THEN request.times ELSE {}, points |-> {}]
  /\ UNCHANGED <<auctionVars, charts>>

(* The timestamps are read concurrently, in any order. *)
ProcessTimestampData ==
  /\ request.step = "read"
  /\ \E t \in request.left :
       request' = [request EXCEPT
         !.left = @ \ {t},
         !.points = @ \cup {<<t, b>> : b \in {b \in BatchIds : rows[AnyRealm][t][b] > 0}}]
  /\ UNCHANGED <<auctionVars, charts>>

(* Leading and trailing timestamps without an order are cut off. *)
TrimEmptyXMargins(times, points) ==
  LET shown == {p[1] : p \in points}
  IN IF shown = {} THEN times
     ELSE {t \in times : (\E u \in shown : u <= t) /\ (\E u \in shown : t <= u)}

SetCached ==
  /\ request.step = "read" /\ request.left = {}
  /\ charts' = [charts EXCEPT ![LatestOf(request.times)] =
                  [times |-> TrimEmptyXMargins(request.times, request.points),
                   points |-> request.points, cached |-> TRUE]]
  /\ request' = NoRequest
  /\ UNCHANGED auctionVars

(* A chart is cached for an hour. *)
ExpireChart ==
  /\ \E k \in 0 .. MaxTime : charts[k].cached /\ charts' = [charts EXCEPT ![k] = NoChart]
  /\ UNCHANGED <<auctionVars, request>>

ChartsNext == \/ GetLatestTimestampCommodity \/ GetCached \/ PriceAxisCommodity
              \/ ProcessTimestampData \/ SetCached \/ ExpireChart

-----------------------------------------------------------------------------
(* "The key embeds the latest commodity timestamp, so a new snapshot       *)
(* naturally invalidates it": the chart that is served for the latest      *)
(* timestamp shows every batch of that snapshot, although it may have been *)
(* built while the next one was being saved, or by two jobs at once.  A    *)
(* snapshot without any order is cut off with the margins, and one that    *)
(* lost a batch is shown without it.  The statements of a request do not   *)
(* fail here: a timestamp whose orders could not be read is cached as an   *)
(* empty one (dma.service.ts:283).                                         *)
CachedChartsAreWhole ==
  \A k \in Times :
    charts[k].cached /\ ~Expired(k) /\ Batches[PayloadAt[k]] > 0 /\ "lossy" \notin enabled
    => /\ k \in charts[k].times
       /\ \A b \in 1 .. Batches[PayloadAt[k]] : <<k, b>> \in charts[k].points
=============================================================================
