----------------------------- MODULE PriceAxis -----------------------------
(***************************************************************************)
(* price-binning.ts, the pure functions behind the heatmap's price axis.   *)
(* Prices are integers, in thousandths of a gold piece, so that the steps  *)
(* of the grid (0.025 among them) are exact; toFixed(2) rounds to tens,    *)
(* and which way it takes a five depends on the float: ties is the choice. *)
(* The logarithms are not computed: the raw edges between the least and    *)
(* the greatest price are any ascending ones, and the prices that the      *)
(* outlier filter keeps are any that lie between two of the given ones.    *)
(***************************************************************************)
EXTENDS Naturals, Integers, Sequences, FiniteSets, FiniteSetsExt, SequencesExt

CONSTANTS PriceSamples, \* prices of orders
          NiceSteps,    \* NICE_STEPS, as far as the samples reach
          LogBinRatio,  \* 50
          Blocks        \* 20

MinPrice == 10

ASSUME SamplesAssumption == PriceSamples \subseteq Nat \ {0} /\ IsFiniteSet(PriceSamples)
ASSUME StepsAssumption == NiceSteps \subseteq Nat \ {0} /\ NiceSteps # {} /\ IsFiniteSet(NiceSteps)
ASSUME BinsAssumption == LogBinRatio \in Nat /\ Blocks \in Nat

VARIABLES offered, \* the prices of the orders
          cleaned, \* those that are left after the filter
          ties,    \* how toFixed takes a five: 0 down, 1 up
          edges    \* the axis, <<>> before it is built

axisVars == <<offered, cleaned, ties, edges>>

NiceStep(v) == LET half == {s \in NiceSteps : 2 * s <= v}
               IN IF half = {} THEN Min(NiceSteps) ELSE Max(half)

(* Math.round: a half is rounded up. *)
RoundToStep(v, step) == ((2 * v + step) \div (2 * step)) * step

ToFixed(v) == ((v + 4 + ties) \div 10) * 10

Ascending(S) == [n \in 1 .. Cardinality(S) |-> CHOOSE v \in S : Cardinality({u \in S : u < v}) = n - 1]

-----------------------------------------------------------------------------
PriceAxisInit ==
  /\ offered = {} /\ cleaned = {} /\ ties = 0 /\ edges = <<>>

(* A chart is built from whatever is listed.  filterOutlierPrices: fewer   *)
(* than four prices are all kept.                                          *)
FilterOutlierPrices ==
  /\ offered = {}
  /\ offered' \in (SUBSET PriceSamples) \ {{}}
  /\ ties' \in {0, 1}
  /\ \E low, high \in offered' :
       /\ low <= high
       /\ Cardinality(offered') < 4 => low = Min(offered') /\ high = Max(offered')
       /\ cleaned' = {p \in offered' : low <= p /\ p <= high}
  /\ UNCHANGED edges

(* One price, an axis of one edge. *)
SingleEdge ==
  /\ edges = <<>> /\ Cardinality(cleaned) = 1
  /\ edges' = <<Max({Min(cleaned), MinPrice})>>
  /\ UNCHANGED <<offered, cleaned, ties>>

Least == Max({Min(cleaned), MinPrice})
Greatest == Max(cleaned)

(* Every edge is rounded at its own magnitude; one that does not exceed    *)
(* the last that was kept is dropped.                                      *)
SnapAndDedupe(raw) ==
  LET snapped == [i \in DOMAIN raw |-> ToFixed(RoundToStep(raw[i], NiceStep(raw[i])))]
      Keep(kept, v) == IF v > Last(kept) THEN Append(kept, v) ELSE kept
  IN FoldLeft(Keep, <<snapped[1]>>, Tail(snapped))

BuildLogBins ==
  /\ edges = <<>> /\ Cardinality(cleaned) > 1 /\ Greatest > LogBinRatio * Least
  /\ \E between \in SUBSET {p \in PriceSamples : Least < p /\ p < Greatest} :
       /\ Cardinality(between) <= Blocks - 1
       /\ edges' = SnapAndDedupe(Ascending(between \cup {Least, Greatest}))
  /\ UNCHANGED <<offered, cleaned, ties>>

Distance(a, b) == IF a < b THEN b - a ELSE a - b

(* The step whose count of bins is closest to Blocks, the first of equals: *)
(* |range/s - Blocks| is compared by cross products.                       *)
BestStep(range) ==
  LET Steps == {s \in NiceSteps : s <= range}
      Err(s) == Distance(range, Blocks * s)
  IN IF Steps = {} THEN Min(NiceSteps)
     ELSE CHOOSE s \in Steps : \A t \in Steps :
            Err(s) * t < Err(t) * s \/ (Err(s) * t = Err(t) * s /\ s <= t)

BuildLinearBins ==
  /\ edges = <<>> /\ Cardinality(cleaned) > 1 /\ Greatest <= LogBinRatio * Least
  /\ edges' =
       IF Greatest <= Least THEN <<ToFixed(Least)>>
       ELSE LET step == BestStep(Greatest - Least)
                start == (Least \div step) * step
                raw == {start + n * step : n \in 0 .. (2 * (Greatest - start) + step) \div (2 * step)}
            IN Ascending({ToFixed(v) : v \in raw})
  /\ UNCHANGED <<offered, cleaned, ties>>

PriceAxisNext == FilterOutlierPrices \/ SingleEdge \/ BuildLogBins \/ BuildLinearBins

PriceAxisSpec == PriceAxisInit /\ [][PriceAxisNext]_axisVars

-----------------------------------------------------------------------------
Rows == 0 .. Len(edges)

\* mutant: a price that equals an edge goes below it
AssignBelowEdge(p) ==
  LET Search[r \in Rows \X Rows] ==
        IF r[1] >= r[2] THEN r[1] - 1
        ELSE LET mid == (r[1] + r[2]) \div 2
             IN IF p <= edges[mid + 1] THEN Search[<<r[1], mid>>] ELSE Search[<<mid + 1, r[2]>>]
  IN IF Len(edges) = 0 \/ p <= edges[1] THEN 0
     ELSE IF p >= Last(edges) THEN Len(edges) - 1
     ELSE Search[<<0, Len(edges) - 1>>]

(* The bucket's index, counted from 0 as in the code; lo and hi are r[1]   *)
(* and r[2].                                                               *)
AssignPriceBucket(p) ==
  LET Search[r \in Rows \X Rows] ==
        IF r[1] >= r[2] THEN r[1] - 1
        ELSE LET mid == (r[1] + r[2]) \div 2
             IN IF p < edges[mid + 1] THEN Search[<<r[1], mid>>] ELSE Search[<<mid + 1, r[2]>>]
  IN IF Len(edges) = 0 \/ p <= edges[1] THEN 0
     ELSE IF p >= Last(edges) THEN Len(edges) - 1
     ELSE Search[<<0, Len(edges) - 1>>]

(* "Strictly-ascending, unique price edges", and the binary search finds   *)
(* the row whose half-open interval holds the order's price, the first one *)
(* for a price below the axis: "an order lands in exactly the row whose    *)
(* label the user sees".                                                   *)
OrdersLandInTheirRow ==
  edges # <<>> =>
    /\ \A i \in 1 .. Len(edges) - 1 : edges[i] < edges[i + 1]
    /\ \A p \in offered :
         LET row == AssignPriceBucket(p) + 1 IN
           /\ row \in DOMAIN edges
           /\ p >= edges[1] => edges[row] <= p
           /\ row < Len(edges) => p < edges[row + 1]
=============================================================================
