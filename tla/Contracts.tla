----------------------------- MODULE Contracts ------------------------------
(***************************************************************************)
(* apps/market's GoldService and ContractsService.  Every hour the gold    *)
(* listings of a web page are saved in one transaction, realm by realm     *)
(* looked up beforehand; twice a day a contract is built per timestamp:    *)
(* of every commodity (here one) from the rows that Auctions saves batch   *)
(* by batch, and of gold across all realms.  A build reads the table four  *)
(* times.  Prices are abstracted to whether the statement found any row.   *)
(***************************************************************************)
EXTENDS Auctions, Functions

CONSTANTS GoldRealms,  \* the realms a page can name
          Listings,    \* the listings a page can show
          MinOrders    \* orders that make a contract: 10

VARIABLES gold,        \* gold[t]: the gold orders saved with timestamp t
          goldStamp,   \* goldStamp[r]: the realm's goldTimestamp
          scrape,      \* indexGold between its statements
          build,       \* the contract that is being built
          contracts    \* contracts[id] of the ids built so far

contractVars == <<gold, goldStamp, scrape, build, contracts>>

(* A listing: a realm's name (AnyRealm: the page's word for any realm,     *)
(* "unknown": a name that finds no realm), whether the seller is online,   *)
(* and whether price, quantity and owner can be read and are in bounds.    *)
ASSUME ListingsAssumption ==
  Listings \subseteq [realm : GoldRealms \cup {AnyRealm, "unknown"},
                     online : BOOLEAN, valid : BOOLEAN, id : Nat]

NoScrape == [step |-> "none"]
NoBuild == [step |-> "none"]

ContractsInit ==
  /\ gold = [t \in Times |-> {}]
  /\ goldStamp = [r \in GoldRealms |-> 0]
  /\ scrape = NoScrape
  /\ build = NoBuild
  /\ contracts = [id \in {} |-> <<>>]

-----------------------------------------------------------------------------
(* Gold.                                                                   *)

(* createMarketEntity: an order of any realm has no realm's row to take    *)
(* the id from, throws, and is dropped like the invalid ones.              *)
MarketEntities(page) == {o \in page : o.realm \in GoldRealms /\ o.valid}

(* The realms whose row was looked up, valid order or not. *)
LookedUp(page) == {o.realm : o \in page} \cap GoldRealms

IndexGold ==
  /\ "gold" \in enabled /\ scrape = NoScrape /\ gold[now] = {}
  /\ \E page \in SUBSET Listings :
       scrape' = IF MarketEntities(page) = {} THEN NoScrape
                 ELSE [step |-> "save", page |-> page, time |-> now]
  /\ UNCHANGED <<auctionVars, gold, goldStamp, build, contracts>>

\* mutant: the entities are saved realm by realm
SaveGoldByRealm ==
  /\ scrape.step = "save"
  /\ \E r \in {o.realm : o \in MarketEntities(scrape.page) \ gold[scrape.time]} :
       /\ gold' = [gold EXCEPT ![scrape.time] = @ \cup {o \in MarketEntities(scrape.page) : o.realm = r}]
       /\ scrape' = [scrape EXCEPT !.step =
                       IF MarketEntities(scrape.page) = gold'[scrape.time] THEN "stamp" ELSE "save"]
  /\ UNCHANGED <<auctionVars, goldStamp, build, contracts>>

(* One save of all entities is one transaction. *)
SaveGold ==
  /\ scrape.step = "save"
  /\ gold' = [gold EXCEPT ![scrape.time] = MarketEntities(scrape.page)]
  /\ scrape' = [scrape EXCEPT !.step = "stamp"]
  /\ UNCHANGED <<auctionVars, goldStamp, build, contracts>>

StampGold ==
  /\ scrape.step = "stamp"
  /\ goldStamp' = [r \in GoldRealms |-> IF r \in LookedUp(scrape.page) THEN scrape.time ELSE goldStamp[r]]
  /\ scrape' = NoScrape
  /\ UNCHANGED <<auctionVars, gold, build, contracts>>

GoldFails ==
  /\ scrape # NoScrape
  /\ scrape' = NoScrape
  /\ UNCHANGED <<auctionVars, gold, goldStamp, build, contracts>>

DeleteExpiredGold ==
  /\ gold' = [t \in Times |-> IF Expired(t) THEN {} ELSE gold[t]]
  /\ gold' # gold
  /\ UNCHANGED <<auctionVars, goldStamp, scrape, build, contracts>>

-----------------------------------------------------------------------------
(* Contracts.                                                              *)

Items == {"gold", "commodity"}

(* The orders a statement sees: of gold the online ones of every realm, of *)
(* a commodity every row, the ones that were saved twice included.         *)
Orders(item, t) ==
  IF item = "gold" THEN Cardinality({o \in gold[t] : o.online})
  ELSE FoldFunction(+, 0, rows[AnyRealm][t])

Today == now \div Day

(* buildCommodityTimestampContracts and buildGoldIntradayContracts select  *)
(* the timestamps of the last 24 hours, then build them one by one.        *)
BeginContract(item) ==
  /\ "contracts" \in enabled /\ build = NoBuild
  /\ \E t \in Times :
       /\ ~Expired(t)
       /\ IF item = "gold" THEN gold[t] # {} ELSE Orders(item, t) > 0
       /\ LET id == <<item, Today, t>> IN
            id \notin DOMAIN contracts /\ build' = [step |-> "sum", id |-> id]
  /\ UNCHANGED <<auctionVars, gold, goldStamp, scrape, contracts>>

Seen == Orders(build.id[1], build.id[3])

SumOrders ==
  /\ build.step = "sum"
  /\ build' = IF Seen < MinOrders THEN NoBuild
              ELSE [step |-> "percentiles", id |-> build.id, orders |-> Seen]
  /\ UNCHANGED <<auctionVars, gold, goldStamp, scrape, contracts>>

ReadPercentiles ==
  /\ build.step = "percentiles"
  /\ build' = [step |-> "interest", id |-> build.id, orders |-> build.orders, priced |-> Seen > 0]
  /\ UNCHANGED <<auctionVars, gold, goldStamp, scrape, contracts>>

(* The open interest counts the orders below the top price; a sum over no  *)
(* row is null, which Number() makes the valid number 0.                   *)
ReadOpenInterest ==
  /\ build.step = "interest"
  /\ build' = [step |-> "upsert", id |-> build.id,
               contract |-> [orders |-> build.orders, priced |-> build.priced,
                             interest |-> build.priced /\ Seen > 0]]
  /\ UNCHANGED <<auctionVars, gold, goldStamp, scrape, contracts>>

UpsertContract ==
  /\ build.step = "upsert"
  /\ contracts' = [id \in DOMAIN contracts \cup {build.id} |->
                     IF id = build.id THEN build.contract ELSE contracts[id]]
  /\ build' = NoBuild
  /\ UNCHANGED <<auctionVars, gold, goldStamp, scrape>>

BuildFails ==
  /\ build # NoBuild
  /\ build' = NoBuild
  /\ UNCHANGED <<auctionVars, gold, goldStamp, scrape, contracts>>

ContractsNext ==
  \/ IndexGold \/ SaveGold \/ StampGold \/ GoldFails \/ DeleteExpiredGold
  \/ (\E item \in Items : BeginContract(item))
  \/ SumOrders \/ ReadPercentiles \/ ReadOpenInterest \/ UpsertContract \/ BuildFails

-----------------------------------------------------------------------------
(* A gold contract counts the online orders of every realm of its          *)
(* timestamp, whenever it is built: "Per-realm builds collapsed to one row *)
(* each timestamp ..., losing every realm but the last".                   *)
GoldContractsCountEveryRealm ==
  \A id \in DOMAIN contracts :
    id[1] = "gold" /\ gold[id[3]] # {} => contracts[id].orders = Orders("gold", id[3])
=============================================================================
