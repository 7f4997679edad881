-------------------------------- MODULE Keys --------------------------------
(***************************************************************************)
(* libs/battle-net's BattleNetService in one process, and the crons of     *)
(* apps/core's KeysService that write the same rows.                       *)
(*                                                                         *)
(* A key that Battle.net answers 429 cools down: its row holds a delay,    *)
(* which grows with every 429 and shrinks with every success, and when the *)
(* last 429 was.  Every write finds the row, changes it and saves it       *)
(* whole.  The key in use is a field of the service that all its queries   *)
(* share.                                                                  *)
(***************************************************************************)
EXTENDS Naturals, FiniteSets

CONSTANTS Uuids, Queries, NoKey,
          KeyWorlds,   \* the instances to check: see KeysAssumption
          MaxRetries,  \* DEFAULT_RETRY_CONFIG.maxRetries: 3
          MaxAttempts, \* initialize's maxAttempts: 10
          BaseDelay, Multiplier, MaxDelay, DecayStep   \* battleNetConfig

(* An instance: the keys of the queries' tag, and how often the rows'      *)
(* tokens are refreshed and a statement fails.                             *)
ASSUME KeysAssumption ==
  /\ NoKey \notin Uuids
  /\ {MaxRetries, MaxAttempts, BaseDelay, Multiplier, MaxDelay, DecayStep} \subseteq Nat
  /\ \A w \in KeyWorlds :
       w.uuids \subseteq Uuids /\ {w.refreshes, w.faults} \subseteq Nat

VARIABLES world,      \* the instance, with what is left of its counters
          keys,       \* keys[k]: the row; left is lastFailureAt + cooldown - now
          current,    \* _currentKeyUuid
          query,      \* query[q]: a query and the wait or write it is in
          asked,      \* asked[q]: executeQuery's attempt
          recording,  \* recording[q]: recordKeySuccess, which nobody awaits
          refresh     \* the rows that a cron still has to save

keyVars == <<world, keys, current, query, asked, recording, refresh>>

NoRecord == [step |-> "done"]

KeysInit ==
  /\ world \in KeyWorlds
  /\ keys \in [Uuids -> {[cooldown |-> 0, left |-> 0], [cooldown |-> BaseDelay, left |-> BaseDelay]}]
  /\ \A k \in Uuids \ world.uuids : keys[k].cooldown = 0
  /\ current = NoKey
  /\ query = [q \in Queries |-> [step |-> "initialize", attempt |-> 1]]
  /\ asked = [q \in Queries |-> 0]
  /\ recording = [q \in Queries |-> NoRecord]
  /\ refresh = [k \in {} |-> NoRecord]

-----------------------------------------------------------------------------
QueryIs(q, step) == query[q].step = step
QueryGoes(q, step) == query' = [query EXCEPT ![q] = [step |-> step]]

(* The row's delay is over. *)
IsAvailable(k) == keys[k].left = 0

(* getAvailableKey: of the keys that do not cool, one of least cooldown. *)
AvailableKeys ==
  {k \in world.uuids : /\ IsAvailable(k)
                       /\ \A l \in world.uuids : IsAvailable(l) => keys[k].cooldown =< keys[l].cooldown}

(* initialize: the key is found, and a moment later in use by all. *)
FindKey(q) ==
  /\ QueryIs(q, "initialize")
  /\ \E k \in AvailableKeys : query' = [query EXCEPT ![q] = [step |-> "use", key |-> k]]
  /\ UNCHANGED <<world, keys, current, asked, recording, refresh>>

(* The next attempt follows after a delay, of whatever length here.        *)
FindsNoKey(q) ==
  /\ QueryIs(q, "initialize") /\ AvailableKeys = {}
  /\ query' = [query EXCEPT ![q] =
       IF @.attempt < MaxAttempts THEN [step |-> "initialize", attempt |-> @.attempt + 1] ELSE [step |-> "failed"]]
  /\ UNCHANGED <<world, keys, current, asked, recording, refresh>>

UseKey(q) ==
  /\ QueryIs(q, "use")
  /\ current' = query[q].key
  /\ QueryGoes(q, "loop")
  /\ UNCHANGED <<world, keys, asked, recording, refresh>>

(* waitForCooldown: the delay is computed once, from the row of the        *)
(* current key, whichever query chose it.                                  *)
WaitForCooldown(q, from, next) ==
  /\ QueryIs(q, from)
  /\ query' = [query EXCEPT ![q] =
       IF IsAvailable(current) THEN [step |-> next] ELSE [step |-> "wait", rest |-> keys[current].left, next |-> next]]
  /\ UNCHANGED <<world, keys, current, asked, recording, refresh>>

WaitEnds(q) ==
  /\ QueryIs(q, "wait") /\ query[q].rest = 0
  /\ QueryGoes(q, query[q].next)
  /\ UNCHANGED <<world, keys, current, asked, recording, refresh>>

Send(q) ==
  /\ QueryIs(q, "send")
  /\ asked' = [asked EXCEPT ![q] = @ + 1]
  /\ QueryGoes(q, "asking")
  /\ UNCHANGED <<world, keys, current, recording, refresh>>

-----------------------------------------------------------------------------
(* executeQuery: what becomes of a request.                                *)

\* mutant: the retries are counted as if the first attempt were none
MayRetryAgain(q) == asked[q] =< MaxRetries + 1

MayRetry(q) == asked[q] =< MaxRetries

(* The success is recorded for the key that is current by now. *)
Succeeds(q) ==
  /\ QueryIs(q, "asking")
  /\ QueryGoes(q, "answered")
  /\ recording' = [recording EXCEPT ![q] = [step |-> "find", key |-> current]]
  /\ UNCHANGED <<world, keys, current, asked, refresh>>

IsRateLimited(q) ==
  /\ QueryIs(q, "asking")
  /\ query' = [query EXCEPT ![q] = [step |-> "find", key |-> current]]
  /\ UNCHANGED <<world, keys, current, asked, recording, refresh>>

IsServerError(q) ==
  /\ QueryIs(q, "asking")
  /\ QueryGoes(q, IF MayRetry(q) THEN "loop" ELSE "failed")
  /\ UNCHANGED <<world, keys, current, asked, recording, refresh>>

(* Other answers, and none within a minute. *)
IsRefused(q) ==
  /\ QueryIs(q, "asking")
  /\ QueryGoes(q, "failed")
  /\ UNCHANGED <<world, keys, current, asked, recording, refresh>>

(* recordKeyFailure. *)
NewCooldown(cooldown) ==
  IF cooldown * Multiplier + BaseDelay > MaxDelay THEN MaxDelay ELSE cooldown * Multiplier + BaseDelay

FindForFailure(q) ==
  /\ QueryIs(q, "find")
  /\ LET cooldown == NewCooldown(keys[query[q].key].cooldown) IN
     query' = [query EXCEPT ![q] = [step |-> "save", key |-> @.key, row |-> [cooldown |-> cooldown, left |-> cooldown]]]
  /\ UNCHANGED <<world, keys, current, asked, recording, refresh>>

SaveFailure(q) ==
  /\ QueryIs(q, "save")
  /\ keys' = [keys EXCEPT ![query[q].key] = query[q].row]
  /\ QueryGoes(q, IF MayRetry(q) THEN "limited" ELSE "failed")
  /\ UNCHANGED <<world, current, asked, recording, refresh>>

(* A statement throws: the query ends with its error. *)
QueryThrows(q) ==
  /\ world.faults > 0
  /\ query[q].step \in {"initialize", "loop", "find", "save", "limited"}
  /\ world' = [world EXCEPT !.faults = @ - 1]
  /\ QueryGoes(q, "failed")
  /\ UNCHANGED <<keys, current, asked, recording, refresh>>

-----------------------------------------------------------------------------
(* recordKeySuccess.                                                       *)

Less(n) == IF n < DecayStep THEN 0 ELSE n - DecayStep

FindForSuccess(q) ==
  /\ recording[q].step = "find"
  /\ recording' = [recording EXCEPT ![q] =
       LET row == keys[@.key] IN
       [step |-> "save", key |-> @.key, row |-> [cooldown |-> Less(row.cooldown), left |-> Less(row.left)]]]
  /\ UNCHANGED <<world, keys, current, query, asked, refresh>>

SaveSuccess(q) ==
  /\ recording[q].step = "save"
  /\ keys' = [keys EXCEPT ![recording[q].key] = recording[q].row]
  /\ recording' = [recording EXCEPT ![q] = NoRecord]
  /\ UNCHANGED <<world, current, query, asked, refresh>>

-----------------------------------------------------------------------------
(* indexBlizzardKeys, indexWarcraftLogsKeys: the rows are read, and saved  *)
(* one after the other when their tokens have come.                        *)

ReadRows ==
  /\ world.refreshes > 0 /\ DOMAIN refresh = {}
  /\ world' = [world EXCEPT !.refreshes = @ - 1]
  /\ refresh' = [k \in world.uuids |-> keys[k]]
  /\ UNCHANGED <<keys, current, query, asked, recording>>

SaveToken(k) ==
  /\ k \in DOMAIN refresh
  /\ keys' = [keys EXCEPT ![k] = refresh[k]]
  /\ refresh' = [l \in DOMAIN refresh \ {k} |-> refresh[l]]
  /\ UNCHANGED <<world, current, query, asked, recording>>

(* A token does not come: the rest is left alone. *)
RefreshFails ==
  /\ DOMAIN refresh # {}
  /\ refresh' = [k \in {} |-> NoRecord]
  /\ UNCHANGED <<world, keys, current, query, asked, recording>>

-----------------------------------------------------------------------------
(* Time passes for the rows, the copies of them and the delays.            *)

Earlier(n) == IF n = 0 THEN 0 ELSE n - 1
Aged(row) == [row EXCEPT !.left = Earlier(@)]
AgedTask(task) == IF task.step = "save" THEN [task EXCEPT !.row = Aged(@)] ELSE task

TimePasses ==
  /\ keys' = [k \in Uuids |-> Aged(keys[k])]
  /\ query' = [q \in Queries |->
       IF QueryIs(q, "wait") THEN [query[q] EXCEPT !.rest = Earlier(@)] ELSE AgedTask(query[q])]
  /\ recording' = [q \in Queries |-> AgedTask(recording[q])]
  /\ refresh' = [k \in DOMAIN refresh |-> Aged(refresh[k])]
  /\ UNCHANGED <<world, current, asked>>

Initialize(q) == FindKey(q) \/ FindsNoKey(q) \/ UseKey(q)
Requests(q) == \/ WaitForCooldown(q, "loop", "send") \/ WaitEnds(q) \/ Send(q)
               \/ Succeeds(q) \/ IsRateLimited(q) \/ IsServerError(q) \/ IsRefused(q)
               \/ FindForFailure(q) \/ SaveFailure(q) \/ WaitForCooldown(q, "limited", "loop")
               \/ QueryThrows(q)
Records(q) == FindForSuccess(q) \/ SaveSuccess(q)

KeysNext ==
  \/ \E q \in Queries : Initialize(q) \/ Requests(q) \/ Records(q)
  \/ ReadRows \/ (\E k \in DOMAIN refresh : SaveToken(k)) \/ RefreshFails
  \/ TimePasses

(* Time passes, statements and requests end: a request after a minute.     *)
KeysFairness ==
  /\ WF_keyVars(TimePasses)
  /\ \A q \in Queries : WF_keyVars(Initialize(q) \/ Requests(q))

KeysSpec == KeysInit /\ [][KeysNext]_keyVars /\ KeysFairness

-----------------------------------------------------------------------------
(* What its caller knows of a query. *)
OutcomeOf(task) == IF task.step \in {"answered", "failed"} THEN task.step ELSE "open"
Outcome(q) == OutcomeOf(query[q])

(* A query of the service is a caller of Retry.                            *)
Retrying == INSTANCE Retry WITH
  Callers <- Queries, MaxRequests <- MaxRetries + 1,
  outcome <- [q \in Queries |-> Outcome(q)]

(* What Retry promises: a query sends at most one request more than the    *)
(* retries there are and ends, although it may wait, at every attempt, for *)
(* a key that other queries, other keys' answers and the crons' stale      *)
(* saves keep cooling (battle-net.service.ts:309-377).                     *)
QueriesRetry == Retrying!Spec
=============================================================================
