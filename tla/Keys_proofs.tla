----------------------------- MODULE Keys_proofs -----------------------------
(***************************************************************************)
(* Proof that BattleNetService's queries keep the safety part of what      *)
(* Retry promises, for any number of queries, keys and retries, whatever   *)
(* statements fail and crons save: every step of Keys is a step of Retry   *)
(* or leaves what a caller sees as it is.                                  *)
(***************************************************************************)
EXTENDS Keys, TLAPS

(* The steps before a request, at which another one may be sent.           *)
MaySend == {"initialize", "use", "loop", "wait", "send", "limited"}

(* A wait knows how it goes on, and to no place but these.                 *)
IsTask(task) ==
  /\ "step" \in DOMAIN task
  /\ task.step = "wait" => "next" \in DOMAIN task /\ task.next \in {"loop", "send"}

(* No query that may still send has used up its requests, and one that     *)
(* waits for an answer has sent one.                                       *)
RequestsCounted(q) ==
  /\ IsTask(query[q])
  /\ query[q].step \in MaySend => asked[q] <= MaxRetries
  /\ query[q].step = "asking" => asked[q] > 0 /\ asked[q] <= MaxRetries + 1

KeysInv ==
  /\ DOMAIN query = Queries
  /\ asked \in [Queries -> Nat]
  /\ \A q \in Queries : RequestsCounted(q)

-----------------------------------------------------------------------------
LEMMA RetriesAreNat == MaxRetries \in Nat
BY KeysAssumption

(* A step of one query: its task is replaced, and asked for it.            *)
LEMMA TaskReplaced ==
  ASSUME KeysInv, NEW q \in Queries, NEW task, NEW n,
         query' = [query EXCEPT ![q] = task],
         asked' = [asked EXCEPT ![q] = n],
         IsTask(task), n \in Nat,
         task.step \in MaySend => n <= MaxRetries,
         task.step = "asking" => n > 0 /\ n <= MaxRetries + 1
  PROVE  KeysInv'
<1>1. DOMAIN query' = Queries /\ asked' \in [Queries -> Nat]
  BY DEF KeysInv
<1>2. ASSUME NEW p \in Queries PROVE RequestsCounted(p)'
  <2>1. CASE p = q
    <3>1. query'[p] = task /\ asked'[p] = n
      BY <2>1 DEF KeysInv
    <3> QED BY <3>1 DEF RequestsCounted
  <2>2. CASE p # q
    <3>1. query'[p] = query[p] /\ asked'[p] = asked[p]
      BY <2>2 DEF KeysInv
    <3>2. RequestsCounted(p)
      BY DEF KeysInv
    <3> QED BY <3>1, <3>2 DEF RequestsCounted
  <2> QED BY <2>1, <2>2
<1> QED BY <1>1, <1>2 DEF KeysInv

(* The same for a step that sends nothing.                                 *)
LEMMA TaskGoesOn ==
  ASSUME KeysInv, NEW q \in Queries, NEW task,
         query' = [query EXCEPT ![q] = task], UNCHANGED asked,
         IsTask(task),
         task.step \in MaySend => asked[q] <= MaxRetries,
         task.step = "asking" => asked[q] > 0 /\ asked[q] <= MaxRetries + 1
  PROVE  KeysInv'
<1>1. asked' = [asked EXCEPT ![q] = asked[q]]
  BY DEF KeysInv
<1>2. asked[q] \in Nat
  BY DEF KeysInv
<1> QED BY <1>1, <1>2, TaskReplaced

(* What the callers see of it.                                             *)
Seen == [q \in Queries |-> Outcome(q)]

LEMMA OneOutcome ==
  ASSUME KeysInv, NEW q \in Queries, NEW task, query' = [query EXCEPT ![q] = task]
  PROVE  Seen' = [Seen EXCEPT ![q] = OutcomeOf(task)]
<1>1. \A p \in Queries : query'[p] = IF p = q THEN task ELSE query[p]
  BY DEF KeysInv
<1>2. \A p \in Queries : Outcome(p)' = IF p = q THEN OutcomeOf(task) ELSE Outcome(p)
  BY <1>1 DEF Outcome
<1>3. Seen' = [p \in Queries |-> IF p = q THEN OutcomeOf(task) ELSE Outcome(p)]
  BY <1>2 DEF Seen
<1> QED BY <1>3 DEF Seen

(* A step is as it should be.                                              *)
Refines == KeysInv' /\ [Retrying!Next]_(Retrying!retryVars)

LEMMA Stutters ==
  ASSUME KeysInv', UNCHANGED asked, Seen' = Seen
  PROVE  Refines
BY DEF Refines, Retrying!retryVars, Seen

(* A query goes on without a request, or ends.                             *)
Turns(q, task) == query' = [query EXCEPT ![q] = task] /\ UNCHANGED asked

MayTurn(q, task) ==
  /\ Outcome(q) = "open" /\ IsTask(task) /\ task.step # "asking"
  /\ task.step \in MaySend => asked[q] <= MaxRetries
  /\ task.step = "answered" => asked[q] > 0

LEMMA GoesOn ==
  ASSUME KeysInv, NEW q \in Queries, NEW task, Turns(q, task), MayTurn(q, task)
  PROVE  Refines
<1> USE DEF Turns, MayTurn
<1>1. KeysInv'
  BY TaskGoesOn
<1>2. Seen' = [Seen EXCEPT ![q] = OutcomeOf(task)]
  BY OneOutcome
<1>3. Seen[q] = "open" /\ Seen = [p \in Queries |-> Outcome(p)]
  BY DEF Seen
<1>4. CASE task.step = "answered"
  <2>1. OutcomeOf(task) = "answered"
    BY <1>4 DEF OutcomeOf
  <2>2. Retrying!Answer(q)
    BY <1>2, <1>3, <1>4, <2>1 DEF Retrying!Answer, Seen
  <2> QED BY <1>1, <2>2 DEF Refines, Retrying!Next
<1>5. CASE task.step = "failed"
  <2>1. OutcomeOf(task) = "failed"
    BY <1>5 DEF OutcomeOf
  <2>2. Retrying!Fail(q)
    BY <1>2, <1>3, <2>1 DEF Retrying!Fail, Seen
  <2> QED BY <1>1, <2>2 DEF Refines, Retrying!Next
<1>6. CASE task.step \notin {"answered", "failed"}
  <2>1. OutcomeOf(task) = "open"
    BY <1>6 DEF OutcomeOf
  <2>2. [Seen EXCEPT ![q] = Seen[q]] = Seen
    BY DEF Seen
  <2>3. Seen' = Seen
    BY <1>2, <1>3, <2>1, <2>2
  <2> QED BY <1>1, <2>3, Stutters
<1> QED BY <1>4, <1>5, <1>6

(* A query that has not ended is open to its caller.                       *)
LEMMA OpenIs ==
  ASSUME NEW q \in Queries, query[q].step \notin {"answered", "failed"}
  PROVE  Outcome(q) = "open"
BY DEF Outcome, OutcomeOf

LEMMA CountOf ==
  ASSUME KeysInv, NEW q \in Queries
  PROVE  /\ IsTask(query[q]) /\ asked[q] \in Nat
         /\ query[q].step \in MaySend => asked[q] <= MaxRetries
         /\ query[q].step = "asking" => asked[q] > 0 /\ asked[q] <= MaxRetries + 1
BY DEF KeysInv, RequestsCounted

-----------------------------------------------------------------------------
(* The actions.                                                            *)

LEMMA InitializeRefines ==
  ASSUME KeysInv, NEW q \in Queries, Initialize(q)
  PROVE  Refines
<1>1. CASE FindKey(q)
  <2>1. PICK k \in AvailableKeys : Turns(q, [step |-> "use", key |-> k])
    BY <1>1 DEF FindKey, Turns
  <2>2. MayTurn(q, [step |-> "use", key |-> k])
    BY <1>1, CountOf, OpenIs DEF FindKey, QueryIs, MayTurn, IsTask, MaySend
  <2> QED BY <2>1, <2>2, GoesOn
<1>2. CASE FindsNoKey(q)
  <2> DEFINE again == [step |-> "initialize", attempt |-> query[q].attempt + 1]
             over == [step |-> "failed"]
  <2>1. Turns(q, again) \/ Turns(q, over)
    BY <1>2 DEF FindsNoKey, Turns
  <2>2. asked[q] <= MaxRetries /\ Outcome(q) = "open"
    BY <1>2, CountOf, OpenIs DEF FindsNoKey, QueryIs, MaySend
  <2>3. MayTurn(q, again) /\ MayTurn(q, over)
    BY <2>2 DEF MayTurn, IsTask, MaySend
  <2> HIDE DEF again, over
  <2> QED BY <2>1, <2>3, GoesOn
<1>3. CASE UseKey(q)
  <2>1. Turns(q, [step |-> "loop"])
    BY <1>3 DEF UseKey, QueryGoes, Turns
  <2>2. MayTurn(q, [step |-> "loop"])
    BY <1>3, CountOf, OpenIs DEF UseKey, QueryIs, MayTurn, IsTask, MaySend
  <2> QED BY <2>1, <2>2, GoesOn
<1> QED BY <1>1, <1>2, <1>3 DEF Initialize

LEMMA WaitRefines ==
  ASSUME KeysInv, NEW q \in Queries, NEW from \in {"loop", "limited"}, NEW next \in {"send", "loop"},
         WaitForCooldown(q, from, next)
  PROVE  Refines
<1> DEFINE wait == [step |-> "wait", rest |-> keys[current].left, next |-> next]
<1>1. asked[q] <= MaxRetries /\ Outcome(q) = "open"
  BY CountOf, OpenIs DEF WaitForCooldown, QueryIs, MaySend
<1>2. Turns(q, IF IsAvailable(current) THEN [step |-> next] ELSE wait)
  BY DEF WaitForCooldown, Turns
<1>3. MayTurn(q, [step |-> next]) /\ MayTurn(q, wait)
  BY <1>1 DEF MayTurn, IsTask
<1> HIDE DEF wait
<1>4. MayTurn(q, IF IsAvailable(current) THEN [step |-> next] ELSE wait)
  BY <1>3
<1> QED BY <1>2, <1>4, GoesOn

LEMMA SendRefines ==
  ASSUME KeysInv, NEW q \in Queries, Send(q)
  PROVE  Refines
<1>1. /\ query[q].step = "send"
      /\ query' = [query EXCEPT ![q] = [step |-> "asking"]]
      /\ asked' = [asked EXCEPT ![q] = asked[q] + 1]
  BY DEF Send, QueryIs, QueryGoes
<1>2. asked[q] \in Nat /\ asked[q] <= MaxRetries /\ Outcome(q) = "open"
  BY <1>1, CountOf, OpenIs DEF MaySend
<1>3. KeysInv'
  <2> DEFINE task == [step |-> "asking"]
             n == asked[q] + 1
  <2>1. /\ IsTask(task) /\ task.step \notin MaySend
        /\ n \in Nat /\ n > 0 /\ n <= MaxRetries + 1
    BY <1>2, RetriesAreNat DEF IsTask, MaySend
  <2>2. query' = [query EXCEPT ![q] = task] /\ asked' = [asked EXCEPT ![q] = n]
    BY <1>1
  <2> HIDE DEF task, n
  <2> QED BY <2>1, <2>2, TaskReplaced
<1>4. Seen' = [Seen EXCEPT ![q] = "open"]
  <2>1. Seen' = [Seen EXCEPT ![q] = OutcomeOf([step |-> "asking"])]
    BY <1>1, OneOutcome
  <2> QED BY <2>1 DEF OutcomeOf
<1>5. Seen' = Seen
  BY <1>2, <1>4 DEF Seen
<1>6. Retrying!Ask(q)
  BY <1>1, <1>2, <1>5, RetriesAreNat DEF Retrying!Ask, Seen
<1> QED BY <1>3, <1>6 DEF Refines, Retrying!Next

LEMMA RequestsRefine ==
  ASSUME KeysInv, NEW q \in Queries, Requests(q)
  PROVE  Refines
<1> USE DEF QueryIs, QueryGoes
<1>1. CASE WaitForCooldown(q, "loop", "send") \/ WaitForCooldown(q, "limited", "loop")
  BY <1>1, WaitRefines
<1>2. CASE WaitEnds(q)
  <2>1. Turns(q, [step |-> query[q].next])
    BY <1>2 DEF WaitEnds, Turns
  <2>2. query[q].next \in {"loop", "send"} /\ asked[q] <= MaxRetries /\ Outcome(q) = "open"
    BY <1>2, CountOf, OpenIs DEF WaitEnds, IsTask, MaySend
  <2>3. MayTurn(q, [step |-> query[q].next])
    BY <2>2 DEF MayTurn, IsTask
  <2> QED BY <2>1, <2>3, GoesOn
<1>3. CASE Send(q)
  BY <1>3, SendRefines
<1>4. CASE Succeeds(q)
  <2>1. Turns(q, [step |-> "answered"])
    BY <1>4 DEF Succeeds, Turns
  <2>2. MayTurn(q, [step |-> "answered"])
    BY <1>4, CountOf, OpenIs DEF Succeeds, MayTurn, IsTask, MaySend
  <2> QED BY <2>1, <2>2, GoesOn
<1>5. CASE IsRateLimited(q)
  <2>1. Turns(q, [step |-> "find", key |-> current])
    BY <1>5 DEF IsRateLimited, Turns
  <2>2. MayTurn(q, [step |-> "find", key |-> current])
    BY <1>5, OpenIs DEF IsRateLimited, MayTurn, IsTask, MaySend
  <2> QED BY <2>1, <2>2, GoesOn
<1>6. CASE IsServerError(q)
  <2>1. Turns(q, [step |-> IF MayRetry(q) THEN "loop" ELSE "failed"])
    BY <1>6 DEF IsServerError, Turns
  <2>2. MayTurn(q, [step |-> IF MayRetry(q) THEN "loop" ELSE "failed"])
    BY <1>6, OpenIs DEF IsServerError, MayRetry, MayTurn, IsTask, MaySend
  <2> QED BY <2>1, <2>2, GoesOn
<1>7. CASE IsRefused(q)
  <2>1. Turns(q, [step |-> "failed"])
    BY <1>7 DEF IsRefused, Turns
  <2>2. MayTurn(q, [step |-> "failed"])
    BY <1>7, OpenIs DEF IsRefused, MayTurn, IsTask, MaySend
  <2> QED BY <2>1, <2>2, GoesOn
<1>8. CASE FindForFailure(q)
  <2> DEFINE cooldown == NewCooldown(keys[query[q].key].cooldown)
             save == [step |-> "save", key |-> query[q].key, row |-> [cooldown |-> cooldown, left |-> cooldown]]
  <2> HIDE DEF cooldown
  <2>1. Turns(q, save)
    BY <1>8 DEF FindForFailure, Turns, cooldown
  <2>2. MayTurn(q, save)
    BY <1>8, OpenIs DEF FindForFailure, MayTurn, IsTask, MaySend
  <2> HIDE DEF save
  <2> QED BY <2>1, <2>2, GoesOn
<1>9. CASE SaveFailure(q)
  <2>1. Turns(q, [step |-> IF MayRetry(q) THEN "limited" ELSE "failed"])
    BY <1>9 DEF SaveFailure, Turns
  <2>2. MayTurn(q, [step |-> IF MayRetry(q) THEN "limited" ELSE "failed"])
    BY <1>9, OpenIs DEF SaveFailure, MayRetry, MayTurn, IsTask, MaySend
  <2> QED BY <2>1, <2>2, GoesOn
<1>10. CASE QueryThrows(q)
  <2>1. Turns(q, [step |-> "failed"])
    BY <1>10 DEF QueryThrows, Turns
  <2>2. MayTurn(q, [step |-> "failed"])
    BY <1>10, OpenIs DEF QueryThrows, MayTurn, IsTask, MaySend
  <2> QED BY <2>1, <2>2, GoesOn
<1> QED BY <1>1, <1>2, <1>3, <1>4, <1>5, <1>6, <1>7, <1>8, <1>9, <1>10 DEF Requests

(* A step that leaves the queries alone.                                   *)
LEMMA OthersRefine ==
  ASSUME KeysInv, UNCHANGED <<query, asked>>
  PROVE  Refines
<1>1. KeysInv'
  BY DEF KeysInv, RequestsCounted
<1>2. Seen' = Seen
  BY DEF Seen, Outcome
<1> QED BY <1>1, <1>2, Stutters

(* Time shortens the waits and ages the rows, and nothing else.            *)
LEMMA TimeRefines ==
  ASSUME KeysInv, TimePasses
  PROVE  Refines
<1>1. UNCHANGED asked
  BY DEF TimePasses
<1>2. ASSUME NEW q \in Queries
      PROVE  query'[q].step = query[q].step /\ IsTask(query'[q])
  <2> DEFINE task == query[q]
  <2>1. IsTask(task)
    BY CountOf
  <2>2. query'[q] = IF QueryIs(q, "wait") THEN [task EXCEPT !.rest = Earlier(task.rest)] ELSE AgedTask(task)
    BY DEF TimePasses
  <2>3. CASE task.step = "wait"
    <3>1. query'[q] = [task EXCEPT !.rest = Earlier(task.rest)]
      BY <2>2, <2>3 DEF QueryIs
    <3> QED BY <2>1, <3>1 DEF IsTask
  <2>4. CASE task.step = "save"
    <3>1. query'[q] = [task EXCEPT !.row = Aged(task.row)]
      BY <2>2, <2>4 DEF QueryIs, AgedTask
    <3> QED BY <2>1, <2>4, <3>1 DEF IsTask
  <2>5. CASE task.step \notin {"wait", "save"}
    <3>1. query'[q] = task
      BY <2>2, <2>5 DEF QueryIs, AgedTask
    <3> QED BY <2>1, <3>1
  <2> QED BY <2>3, <2>4, <2>5
<1>3. DOMAIN query' = Queries
  BY DEF TimePasses
<1>4. KeysInv'
  BY <1>1, <1>2, <1>3 DEF KeysInv, RequestsCounted
<1>5. Seen' = Seen
  BY <1>2 DEF Seen, Outcome, OutcomeOf
<1> QED BY <1>1, <1>4, <1>5, Stutters

LEMMA InitRefines ==
  ASSUME KeysInit
  PROVE  KeysInv /\ Retrying!Init
<1>1. KeysInv
  BY RetriesAreNat DEF KeysInit, KeysInv, RequestsCounted, IsTask, MaySend
<1>2. Seen = [q \in Queries |-> "open"]
  BY DEF KeysInit, Seen, Outcome, OutcomeOf
<1> QED BY <1>1, <1>2 DEF KeysInit, Retrying!Init, Seen

LEMMA NextRefines ==
  ASSUME KeysInv, [KeysNext]_keyVars
  PROVE  Refines
<1>1. CASE \E q \in Queries : Initialize(q) \/ Requests(q) \/ Records(q)
  <2>1. PICK q \in Queries : Initialize(q) \/ Requests(q) \/ Records(q)
    BY <1>1
  <2>2. CASE Records(q)
    BY <2>2, OthersRefine DEF Records, FindForSuccess, SaveSuccess
  <2> QED BY <2>1, <2>2, InitializeRefines, RequestsRefine
<1>2. CASE ReadRows \/ (\E k \in DOMAIN refresh : SaveToken(k)) \/ RefreshFails
  BY <1>2, OthersRefine DEF ReadRows, SaveToken, RefreshFails
<1>3. CASE TimePasses
  BY <1>3, TimeRefines
<1>4. CASE UNCHANGED keyVars
  BY <1>4, OthersRefine DEF keyVars
<1> QED BY <1>1, <1>2, <1>3, <1>4 DEF KeysNext

(* A query of BattleNetService sends at most one request more than the     *)
(* retries there are, and is answered only after one was sent, and its end *)
(* is final (battle-net.service.ts:309-377): Keys implements Retry.        *)
THEOREM KeysRetries == KeysSpec => Retrying!Safety
<1>1. KeysInit => KeysInv /\ Retrying!Init
  BY InitRefines
<1>2. KeysInv /\ [KeysNext]_keyVars => KeysInv' /\ [Retrying!Next]_(Retrying!retryVars)
  BY NextRefines DEF Refines
<1> QED BY <1>1, <1>2, PTL DEF KeysSpec, Retrying!Safety
=============================================================================
