---------------------------- MODULE Evaluations ----------------------------
(***************************************************************************)
(* apps/market's EvaluationService: every six hours the recipes that pay   *)
(* are found, realm by realm, from the prices of their reagents, and then  *)
(* every one of them is evaluated once more, from the item's side, for the *)
(* advice that is stored with it.  The prices, which the service reads     *)
(* from the valuations or else from the orders, change meanwhile, and a    *)
(* run that takes longer than six hours meets the next one.                *)
(*                                                                         *)
(* One realm; a price of 0 stands for none.  Costs per unit are fractions  *)
(* and are compared by their cross products.  A query for prices or for    *)
(* recipes that fails is logged and answered like one that finds nothing:  *)
(* what is computed from prices is computed from prices as read.           *)
(***************************************************************************)
EXTENDS Naturals, Integers, Sequences, FiniteSets, FiniteSetsExt, SequencesExt

CONSTANTS Goods,      \* items
          Offers,     \* what an item may be offered for
          PrimaryRecipes, \* records [reagents, derivatives] of pairs of item and quantity
          VendorPrice,    \* VendorPrice[i]: 0 for none
          Runs,       \* runs of the job that overlap
          MaxChanges, \* bound: changes of a price
          MaxLosses   \* bound: recipes and items for which a query fails

ASSUME RecipesAssumption ==
  /\ IsFiniteSet(PrimaryRecipes)
  /\ \A r \in PrimaryRecipes : /\ r.reagents \subseteq Goods \X Nat /\ IsFiniteSet(r.reagents)
                              /\ r.derivatives \subseteq Goods \X Nat
ASSUME OffersAssumption ==
  \A o \in Offers : o.market \in Nat /\ o.orders \subseteq Nat \X Nat /\ IsFiniteSet(o.orders)

VARIABLES offer,       \* offer[i]: the market price of item i's valuation, 0 for none,
                       \* and its orders, pairs of price and quantity
          changes,     \* changes of offers so far
          losses,      \* how often queries for a recipe or an item failed so far
          evaluation,  \* evaluation[x]: what run x holds
          evaluations  \* the realm's rows

evaluationVars == <<offer, changes, losses, evaluation, evaluations>>

NoRun == [step |-> "none"]

-----------------------------------------------------------------------------
(* Prices.  The newest valuation's counts, or else the average of the      *)
(* orders, weighted by their quantities, of which none counts as one.      *)

Amount(o) == IF o[2] = 0 THEN 1 ELSE o[2]
WeightedAverage(orders) ==
  SumFunction([o \in orders |-> o[1] * Amount(o)]) \div SumFunction([o \in orders |-> Amount(o)])

MarketPrice(i) ==
  IF offer[i].market # 0 THEN offer[i].market
  ELSE IF offer[i].orders = {} THEN 0 ELSE WeightedAverage(offer[i].orders)

(* What is read where the queries for some items' prices failed.           *)
Without(lost) == [i \in Goods |-> IF i \in lost THEN 0 ELSE MarketPrice(i)]
Prices == Without({})

(* batchGetMarketPrices has two queries: without the valuations all prices *)
(* are lost, without the orders those that no valuation has.               *)
BatchGetMarketPrices(r) ==
  LET items == {e[1] : e \in r.reagents} IN
    {Without(lost) : lost \in {{}, items, {i \in items : offer[i].market = 0}}}

(* getMarketPrice, derivative by derivative. *)
MarketPricesOf(r) == {Without(lost) : lost \in SUBSET {e[1] : e \in r.derivatives}}

-----------------------------------------------------------------------------
(* Costs.                                                                  *)

(* calculateCraftingCost: reagents without a price cost nothing and lower  *)
(* the confidence; the fraction is the share that has one.                 *)
Priced(r, p) == {e \in r.reagents : p[e[1]] # 0}
Confidence(r, p) == <<Cardinality(Priced(r, p)), Cardinality(r.reagents)>>
TotalCost(r, p) == SumFunction([e \in Priced(r, p) |-> e[2] * p[e[1]]])

Half(confidence) == 2 * confidence[1] >= confidence[2]

Quantity(r, i) == (CHOOSE e \in r.derivatives : e[1] = i /\ e[2] > 0)[2]

(* costPerUnit[i] as a fraction; a cost of 0 is taken for no cost. *)
Makes(r, i, p) == /\ r.reagents # {} /\ TotalCost(r, p) > 0
                  /\ \E e \in r.derivatives : e[1] = i /\ e[2] > 0
CostPerUnit(r, i, p) == <<TotalCost(r, p), Quantity(r, i)>>

Cheaper(a, b) == a[1] * b[2] < b[1] * a[2]

Profit(price, cost) == price * cost[2] - cost[1] \* times the quantity

(* findProfitableCrafts with a margin of 5% and a profit of 100, the       *)
(* reagents' prices and the derivatives' as they were read.                *)
ProfitableCrafts(r, p, q) ==
  {<<r, i>> : i \in
     {i \in Goods :
        /\ Makes(r, i, p) /\ Half(Confidence(r, p)) /\ q[i] # 0
        /\ LET cost == CostPerUnit(r, i, p) IN
             /\ Profit(q[i], cost) > 0
             /\ 100 * Profit(q[i], cost) >= 5 * cost[1]
             /\ Profit(q[i], cost) >= 100 * cost[2]}}

(* gatherCraftingMethods and generateRecommendations: of all recipes that  *)
(* make the item, however sure of their cost, the cheapest one counts.     *)
(* read[r] is what the queries for recipe r's reagents gave.               *)
CraftingMethods(i, read) == {r \in DOMAIN read : Makes(r, i, read[r])}

\* mutant: the dearest method counts
DearestCrafting(i, read) ==
  CHOOSE r \in CraftingMethods(i, read) :
    \A q \in CraftingMethods(i, read) : ~Cheaper(CostPerUnit(r, i, read[r]), CostPerUnit(q, i, read[q]))

CheapestCrafting(i, read) ==
  CHOOSE r \in CraftingMethods(i, read) :
    \A q \in CraftingMethods(i, read) : ~Cheaper(CostPerUnit(q, i, read[q]), CostPerUnit(r, i, read[r]))

CheapestCost(i, read) == LET r == CheapestCrafting(i, read) IN CostPerUnit(r, i, read[r])

Recommendations(i, read, price) ==
  (IF CraftingMethods(i, read) # {} /\ price # 0
   THEN {IF Profit(price, CheapestCost(i, read)) > 0 THEN "craft" ELSE "buy"} ELSE {})
  \cup (IF VendorPrice[i] # 0 /\ price # 0 /\ 10 * price < 8 * VendorPrice[i] THEN {"vendor"} ELSE {})

(* The query for the recipes may fail, or those for the prices of each. *)
AllRead == [r \in PrimaryRecipes |-> Prices]
Readings ==
  {<<>>} \cup {read \in [PrimaryRecipes -> UNION {BatchGetMarketPrices(r) : r \in PrimaryRecipes}] :
               \A r \in PrimaryRecipes : read[r] \in BatchGetMarketPrices(r)}

-----------------------------------------------------------------------------
EvaluationsInit ==
  /\ offer \in [Goods -> Offers]
  /\ changes = 0 /\ losses = 0
  /\ evaluation = [x \in Runs |-> NoRun]
  /\ evaluations = {}

ChangeOffer(i) ==
  /\ changes < MaxChanges
  /\ changes' = changes + 1
  /\ \E o \in Offers \ {offer[i]} : offer' = [offer EXCEPT ![i] = o]
  /\ UNCHANGED <<losses, evaluation, evaluations>>

ScheduledEvaluationJob(x) ==
  /\ evaluation[x] = NoRun /\ PrimaryRecipes # {}
  /\ evaluation' = [evaluation EXCEPT ![x] =
       [step |-> "find", left |-> PrimaryRecipes, crafts |-> {}, doubted |-> {}, began |-> changes, rows |-> {}]]
  /\ UNCHANGED <<offer, changes, losses, evaluations>>

ReadsAll(all) ==
  IF all THEN UNCHANGED losses ELSE losses < MaxLosses /\ losses' = losses + 1

(* Recipe by recipe; the prices of one recipe are read at once.  Where     *)
(* nothing pays, the rows of the run before stay.  A recipe is doubted     *)
(* whose prices were not read as they are.                                 *)
NextRecipe(run) == CHOOSE r \in run.left : TRUE

AfterRecipe(run, p, q) ==
  LET r == NextRecipe(run)
      left == run.left \ {r}
      crafts == run.crafts \cup ProfitableCrafts(r, p, q)
  IN IF left = {} /\ crafts = {} THEN NoRun
     ELSE [run EXCEPT !.left = left, !.crafts = crafts, !.step = IF left = {} THEN "delete" ELSE "find",
                      !.doubted = IF p = Prices /\ q = Prices THEN @ ELSE @ \cup {r}]

FindProfitableCrafts(x) ==
  /\ evaluation[x].step = "find"
  /\ LET run == evaluation[x] IN
     \E p \in BatchGetMarketPrices(NextRecipe(run)), q \in MarketPricesOf(NextRecipe(run)) :
       /\ evaluation' = [evaluation EXCEPT ![x] = AfterRecipe(run, p, q)]
       /\ ReadsAll(p = Prices /\ q = Prices)
  /\ UNCHANGED <<offer, changes, evaluations>>

DeleteEvaluations(x) ==
  /\ evaluation[x].step = "delete"
  /\ evaluations' = {}
  /\ evaluation' = [evaluation EXCEPT ![x].step = "evaluate"]
  /\ UNCHANGED <<offer, changes, losses>>

(* The crafts are evaluated one after another, each with the prices of     *)
(* that moment as far as they are read; the row keeps the profit that was  *)
(* found at first.  It is steady if no price changed since the run began   *)
(* and the run read for it what there was.                                 *)
EvaluateItem(x) ==
  /\ evaluation[x].step = "evaluate"
  /\ LET run == evaluation[x]
         c == CHOOSE c \in run.crafts : TRUE
     IN \E read \in Readings, price \in {0, MarketPrice(c[2])} :
          /\ evaluation' = [evaluation EXCEPT ![x] =
            [run EXCEPT !.crafts = @ \ {c},
                        !.step = IF run.crafts = {c} THEN "save" ELSE "evaluate",
                        !.rows = @ \cup {[recipe |-> c[1], item |-> c[2], run |-> x,
                                          advice |-> Recommendations(c[2], read, price),
                                          steady |-> /\ changes = run.began /\ c[1] \notin run.doubted
                                                     /\ read = AllRead /\ price = MarketPrice(c[2])]}]]
          /\ ReadsAll(read = AllRead /\ price = MarketPrice(c[2]))
  /\ UNCHANGED <<offer, changes, evaluations>>

SaveEvaluations(x) ==
  /\ evaluation[x].step = "save"
  /\ evaluations' = evaluations \cup evaluation[x].rows
  /\ evaluation' = [evaluation EXCEPT ![x] = NoRun]
  /\ UNCHANGED <<offer, changes, losses>>

(* The query for all recipes, the delete, the query for the items or the   *)
(* save fails, or the process dies.                                        *)
EvaluationFails(x) ==
  /\ evaluation[x] # NoRun
  /\ evaluation' = [evaluation EXCEPT ![x] = NoRun]
  /\ UNCHANGED <<offer, changes, losses, evaluations>>

EvaluationsNext ==
  \/ \E i \in Goods : ChangeOffer(i)
  \/ \E x \in Runs : \/ ScheduledEvaluationJob(x) \/ FindProfitableCrafts(x) \/ DeleteEvaluations(x) \/ EvaluateItem(x)
                     \/ SaveEvaluations(x) \/ EvaluationFails(x)

EvaluationsSpec == EvaluationsInit /\ [][EvaluationsNext]_evaluationVars

-----------------------------------------------------------------------------
(* A row that says a craft pays does not advise to buy the item instead:   *)
(* the two are computed from the recipe's and from the item's side, and    *)
(* agree whenever no price changed since the run began and none of the     *)
(* row's own queries failed in silence, for overlapping runs too and       *)
(* whatever failed for the other rows.                                     *)
AdviceAgrees ==
  \A row \in evaluations : row.steady => "craft" \in row.advice /\ "buy" \notin row.advice
=============================================================================
