---------------------------- MODULE AssetClasses ----------------------------
(***************************************************************************)
(* The classes of an item (REAGENT, MARKET, VSP ...), an array column that *)
(* is NULL until somebody writes it, and its four writers: the valuations  *)
(* phase of XvaService, which follows the pricing phase of the boot and    *)
(* skips a stage whose state it has a Redis key for; the items worker of   *)
(* apps/dma; apps/market's ItemsService, which saves the gold item anew;   *)
(* and apps/valuations, which finds an item, pushes a class and saves it.  *)
(*                                                                         *)
(* A find and the save that follows it are two steps.  TypeORM's save      *)
(* compares the entity with the row as it is then and writes every column  *)
(* that differs: what changed since the find is overwritten.               *)
(***************************************************************************)
EXTENDS Pricing

CONSTANTS Items, Gold, WowTokens, \* items 1, 122270 and 122284
          Reagents, Derivatives, \* what methods and recipes' reagents name, by method
          VendorPriced, OnAcquire, \* items with a sell price, bound on acquire
          Listings,  \* pairs of item and market type, of MARKET_TYPE
          FirstItems, \* the rows of the items table there are at first
          NULL       \* an array column nobody has written

MarketTypes == {"COMMDTY", "AUCTION", "GOLD", "TOKEN"}
Classes == {"REAGENT", "DERIVATIVE", "MARKET", "COMMDTY", "ITEM", "PREMIUM", "WOWTOKEN", "GOLD", "VSP"}

(* An array of classes that has none twice. *)
IsList(classes) == classes \in Seq(Classes) /\ \A n, k \in DOMAIN classes : classes[n] = classes[k] => n = k

ASSUME NullAssumption == NULL \notin Seq(Classes)
ASSUME ItemsAssumption ==
  /\ IsFiniteSet(Items) /\ Gold \in Items /\ WowTokens \subseteq Items
  /\ \A m \in Methods : Derivatives[m] \subseteq Items /\ Reagents[m] \subseteq Items
  /\ DOMAIN FirstItems \subseteq Items /\ \A i \in DOMAIN FirstItems : FirstItems[i] = NULL \/ IsList(FirstItems[i])

VARIABLES itemsTable, \* itemsTable[i]: asset_class of item i's row, a sequence or NULL
          staged,     \* the VALUATION_STAGE_PROCESSED keys: pairs of stage and state
          worker,     \* the items worker: the row it has found and will save
          valuations  \* apps/valuations: what is left of its stage, and the rows it will save

classVars == <<itemsTable, staged, worker, valuations>>

ClassesOf(i) == IF itemsTable[i] = NULL THEN {} ELSE Range(itemsTable[i])
Known == DOMAIN itemsTable
With(classes, c) == IF classes = NULL THEN <<c>>
                    ELSE IF Contains(classes, c) THEN classes ELSE Append(classes, c)
Put(i, classes) == itemsTable' = [j \in Known \cup {i} |-> IF j = i THEN classes ELSE itemsTable[j]]

NoItem == [step |-> "none"]

ValuationStages == <<"pricing", "auctions", "currency", "tags">>

AssetClassesInit ==
  /\ itemsTable = FirstItems
  /\ staged = {}
  /\ worker = NoItem
  /\ valuations = [step |-> IF "valuations" \in running THEN "stage" ELSE "off", at |-> 1, left |-> {}]

-----------------------------------------------------------------------------
(* The valuations phase of the boot.                                       *)

Stages == <<"pricing", "auctions", "premium", "currency", "vsp">>

PricingRows == FoldFunction(+, 0, methods) + FoldFunction(+, 0, recipes)
LastTouch == Max({touched.recipes, touched.methods})

(* generateStateHash: the count and the last change of the pricing table,  *)
(* of the market table, or the count of the items, is all a stage depends  *)
(* on by its key.                                                          *)
StateOf(stage) ==
  CASE stage = "pricing"  -> <<PricingRows, LastTouch>>
    [] stage = "auctions" -> <<Cardinality(Listings), 0>>
    [] OTHER              -> <<Cardinality(Known), 0>>

Listed(types) == {l[1] : l \in {l \in Listings : l[2] \in types}}

There == {m \in Methods : methods[m] > 0}
Pairs(S, c) == [n \in 1 .. Cardinality(S) |-> <<SetToSeq(S)[n], c>>]

(* What a stage's finds return: item and class, in the order of the adds. *)
Adds(stage) ==
  CASE stage = "pricing"  -> Pairs(UNION {Derivatives[m] : m \in There}, "DERIVATIVE")
                               \o Pairs(UNION {Reagents[m] : m \in There}, "REAGENT")
    [] stage = "premium"  -> Pairs({i \in Known \cap OnAcquire : "REAGENT" \in ClassesOf(i)}, "PREMIUM")
    [] stage = "currency" -> Pairs(WowTokens, "WOWTOKEN") \o <<<<Gold, "GOLD">>>>
    [] stage = "vsp"      -> Pairs({i \in Known \cap VendorPriced :
                                      itemsTable[i] # NULL /\ "VSP" \notin ClassesOf(i)}, "VSP")
    [] OTHER              -> <<>>

Stage == Stages[boot.at]
NextStage == IF boot.at < Len(Stages) THEN [step |-> "stage", at |-> boot.at + 1]
             ELSE [step |-> "done", at |-> 1]

\* mutant: the stage is marked when it begins
MarkAndBegin ==
  /\ At("stage")
  /\ staged' = staged \cup {<<Stage, StateOf(Stage)>>}
  /\ boot' = IF <<Stage, StateOf(Stage)>> \in staged THEN NextStage
             ELSE IF Stage = "auctions" THEN [step |-> "append", at |-> boot.at, class |-> "MARKET"]
             ELSE [step |-> "find", at |-> boot.at, adds |-> Adds(Stage)]
  /\ UNCHANGED <<running, indexer, recipes, labVars, fileVars, crashes, itemsTable, worker, valuations>>

IsStageProcessed ==
  /\ At("stage")
  /\ boot' = IF <<Stage, StateOf(Stage)>> \in staged THEN NextStage
             ELSE IF Stage = "auctions" THEN [step |-> "append", at |-> boot.at, class |-> "MARKET"]
             ELSE [step |-> "find", at |-> boot.at, adds |-> Adds(Stage)]
  /\ UNCHANGED <<running, indexer, recipes, labVars, fileVars, crashes, classVars>>

\* mutant: array_append without the condition on the class
AppendAlways(c, ids) ==
  itemsTable' = [i \in Known |->
    IF i \in ids /\ itemsTable[i] # NULL THEN Append(itemsTable[i], c) ELSE itemsTable[i]]

(* addMarketAssetClass, addCommodityAssetClass, addItemAssetClass: one     *)
(* UPDATE each; NOT (x = ANY(NULL)) is not true and leaves NULL as it is.  *)
AppendClass(c, ids) ==
  itemsTable' = [i \in Known |->
    IF i \in ids /\ itemsTable[i] # NULL /\ c \notin ClassesOf(i) THEN Append(itemsTable[i], c)
    ELSE itemsTable[i]]

AddAuctionClasses ==
  /\ At("append")
  /\ \/ /\ boot.class = "MARKET"
        /\ AppendClass("MARKET", Listed(MarketTypes))
        /\ boot' = [boot EXCEPT !.class = "COMMDTY"]
     \/ /\ boot.class = "COMMDTY"
        /\ AppendClass("COMMDTY", Listed({"COMMDTY"}) \cup ({Gold} \cap Listed(MarketTypes)))
        /\ boot' = [boot EXCEPT !.class = "ITEM"]
     \/ /\ boot.class = "ITEM"
        /\ AppendClass("ITEM", Listed({"AUCTION"}))
        /\ boot' = [step |-> "mark", at |-> boot.at]
  /\ UNCHANGED <<running, indexer, recipes, labVars, fileVars, crashes, staged, worker, valuations>>

(* addAssetClassToItem: a find, and an update if the class is missing. *)
FindItem ==
  /\ At("find")
  /\ boot' = IF boot.adds = <<>> THEN [step |-> "mark", at |-> boot.at]
             ELSE LET i == Head(boot.adds)[1]
                      c == Head(boot.adds)[2]
                  IN IF i \notin Known \/ c \in ClassesOf(i) THEN [boot EXCEPT !.adds = Tail(@)]
                     ELSE [step |-> "update", at |-> boot.at, adds |-> Tail(boot.adds),
                           item |-> i, classes |-> With(itemsTable[i], c)]
  /\ UNCHANGED <<running, indexer, recipes, labVars, fileVars, crashes, classVars>>

UpdateItem ==
  /\ At("update")
  /\ Put(boot.item, boot.classes)
  /\ boot' = [step |-> "find", at |-> boot.at, adds |-> boot.adds]
  /\ UNCHANGED <<running, indexer, recipes, labVars, fileVars, crashes, staged, worker, valuations>>

(* The state is computed again: it may not be the one the stage began with. *)
MarkStageAsProcessed ==
  /\ At("mark")
  /\ staged' = staged \cup {<<Stage, StateOf(Stage)>>}
  /\ boot' = NextStage
  /\ UNCHANGED <<running, indexer, recipes, labVars, fileVars, crashes, itemsTable, worker, valuations>>

-----------------------------------------------------------------------------
(* The items worker, and the gold item of ItemsService.indexItems.         *)

(* What the answer of Battle.net makes of the classes that were found. *)
Flagged(i, classes) == IF i \in VendorPriced THEN With(classes, "VSP") ELSE classes

(* A failed request is answered like an item that does not exist: no row.  *)
FindForWorker(i) ==
  /\ "items" \in running /\ worker = NoItem
  /\ worker' = [step |-> "save", item |-> i,
                classes |-> Flagged(i, IF i \in Known THEN itemsTable[i] ELSE NULL)]
  /\ UNCHANGED <<pricingVars, itemsTable, staged, valuations>>

SaveByWorker ==
  /\ worker # NoItem
  /\ Put(worker.item, worker.classes)
  /\ worker' = NoItem
  /\ UNCHANGED <<pricingVars, staged, valuations>>

GoldItem == <<"GOLD">>

SaveGoldItem ==
  /\ "items" \in running
  /\ Put(Gold, GoldItem)
  /\ UNCHANGED <<pricingVars, staged, worker, valuations>>

-----------------------------------------------------------------------------
(* apps/valuations: buildAssetClasses, once at its boot.                   *)

(* The items a stage looks up and what it pushes to each.  A listing that  *)
(* is found has a price, so that the branch for ITEM is not reached.       *)
ClassesToPush(stage) ==
  CASE stage = "pricing"  -> (UNION {Derivatives[m] \X {<<"DERIVATIVE">>} : m \in There})
                               \cup (UNION {Reagents[m] \X {<<"REAGENT">>} : m \in There})
    [] stage = "auctions" -> Listed(MarketTypes) \X {<<"MARKET", "COMMDTY">>}
    [] stage = "currency" -> (WowTokens \X {<<"WOWTOKEN">>}) \cup {<<Gold, <<"GOLD">>>>}

(* The rows that a query by id returns; auctions asks for an `_id` that its *)
(* raw rows do not have, and an undefined id is no condition: any row.     *)
Found(stage, i) == IF stage = "auctions" THEN Known ELSE {i} \cap Known

(* The pushes of one item, two at most, each left out if the class is there. *)
PushAll(classes, cs) ==
  CASE cs = <<>>    -> classes
    [] Len(cs) = 1  -> With(classes, cs[1])
    [] OTHER        -> With(With(classes, cs[1]), cs[2])

Pushed(i, cs) == PushAll(IF itemsTable[i] = NULL THEN <<>> ELSE itemsTable[i], cs)

(* The tags stage reads all items at once. *)
BeginStage ==
  /\ valuations.step = "stage"
  /\ LET at == valuations.at IN
     valuations' =
       CASE at > Len(ValuationStages) -> [valuations EXCEPT !.step = "off"]
         [] at <= Len(ValuationStages) /\ ValuationStages[at] = "tags" ->
              [step |-> "tags", at |-> at,
               left |-> {<<i, Pushed(i, IF i \in VendorPriced THEN <<"VSP">> ELSE <<>>)>> : i \in Known}]
         [] OTHER -> [step |-> "find", at |-> at, left |-> ClassesToPush(ValuationStages[at])]
  /\ UNCHANGED <<pricingVars, itemsTable, staged, worker>>

(* The currency stage saves what it changed, the others what they found. *)
Unchanged(push) ==
  /\ ValuationStages[valuations.at] = "currency"
  /\ push[1] \in Known /\ itemsTable[push[1]] # NULL /\ Range(push[2]) \subseteq ClassesOf(push[1])

FindToPush ==
  /\ valuations.step = "find"
  /\ \E push \in valuations.left :
       LET found == Found(ValuationStages[valuations.at], push[1])
           rest == valuations.left \ {push}
       IN \/ /\ \/ found = {}
                \/ Unchanged(push)
             /\ valuations' = [valuations EXCEPT !.left = rest]
          \/ \E i \in found :
               /\ ~Unchanged(push)
               /\ valuations' = [step |-> "save", at |-> valuations.at, left |-> rest,
                                 item |-> i, classes |-> Pushed(i, push[2])]
  /\ UNCHANGED <<pricingVars, itemsTable, staged, worker>>

(* The rows of the tags stage are saved as they were when it began. *)
SaveTagged ==
  /\ valuations.step = "tags"
  /\ \E row \in valuations.left :
       /\ Put(row[1], row[2])
       /\ valuations' = [valuations EXCEPT !.left = @ \ {row}]
  /\ UNCHANGED <<pricingVars, staged, worker>>

SavePushed ==
  /\ valuations.step = "save"
  /\ Put(valuations.item, valuations.classes)
  /\ valuations' = [step |-> "find", at |-> valuations.at, left |-> valuations.left]
  /\ UNCHANGED <<pricingVars, staged, worker>>

StageEnds ==
  /\ valuations.step \in {"find", "tags"} /\ valuations.left = {}
  /\ valuations' = [step |-> "stage", at |-> valuations.at + 1, left |-> {}]
  /\ UNCHANGED <<pricingVars, itemsTable, staged, worker>>

(* Whatever throws ends buildAssetClasses, that of the boot and this one. *)
BuildFails ==
  /\ failures < MaxFailures
  /\ failures' = failures + 1
  /\ \/ /\ boot.step \in {"stage", "append", "find", "update", "mark"}
        /\ boot' = [step |-> "done", at |-> 1]
        /\ UNCHANGED valuations
     \/ /\ valuations.step # "off"
        /\ valuations' = [step |-> "off", at |-> 1, left |-> {}]
        /\ UNCHANGED boot
  /\ UNCHANGED <<running, indexer, recipes, methods, touched, written, saving, labFailed, fileVars, crashes,
                 itemsTable, staged, worker>>

AssetClassesNext ==
  \/ IsStageProcessed \/ AddAuctionClasses \/ FindItem \/ UpdateItem
  \/ MarkStageAsProcessed \/ SaveByWorker \/ SaveGoldItem \/ BuildFails
  \/ BeginStage \/ FindToPush \/ SavePushed \/ SaveTagged \/ StageEnds
  \/ \E i \in Items : FindForWorker(i)

(* The pricing phase, the valuations phase and the other writers of items. *)
ClassesInit == PricingInit /\ AssetClassesInit
ClassesNext == (PricingNext /\ UNCHANGED classVars) \/ AssetClassesNext
ClassesSpec == ClassesInit /\ [][ClassesNext]_<<pricingVars, classVars>>

-----------------------------------------------------------------------------
(* No item has a class twice, although four writers add it, some to an     *)
(* array they read earlier and some by appending to the row's own.         *)
NoClassTwice ==
  \A i \in Known : itemsTable[i] # NULL => Cardinality(Range(itemsTable[i])) = Len(itemsTable[i])

(* Where nobody else writes items and no statement of the last laboratory  *)
(* failed, a key of the pricing stage for the table's present state means  *)
(* that every item the methods name has its class: the stage is skipped    *)
(* for a week.                                                             *)
MarkedStagesAreBuilt ==
  running \cap {"items", "valuations"} = {} /\ ~labFailed /\ <<"pricing", StateOf("pricing")>> \in staged =>
    \A m \in Methods : methods[m] > 0 =>
      /\ \A i \in Known \cap Derivatives[m] : "DERIVATIVE" \in ClassesOf(i)
      /\ \A i \in Known \cap Reagents[m] : "REAGENT" \in ClassesOf(i)

(* "Add MARKET asset class to all items present in the market table".      *)
EveryMarketItemIsMarked ==
  At("append") /\ boot.class = "COMMDTY" =>
    \A i \in Known \cap Listed(MarketTypes) : "MARKET" \in ClassesOf(i)
=============================================================================
