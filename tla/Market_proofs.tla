--------------------------- MODULE Market_proofs ---------------------------
(***************************************************************************)
(* Proofs about the market's tables, for any realms, slots, payloads and   *)
(* deployments: what a marker, a chart and a contract say holds, however   *)
(* ingestion, requests and builds interleave.                              *)
(***************************************************************************)
EXTENDS Market, FiniteSetTheorems, SequenceTheorems, WellFoundedInduction, TLAPS

Messages == [channel : Channels, since : Nat, attempt : Nat]

(* The steps at which a job has a snapshot. *)
WithSnapshot == {"check", "save", "mark", "series", "stamp"}

Jobs == [step : {"fetch"} \cup WithSnapshot, message : Messages, time : Nat, batch : Nat, persisted : BOOLEAN]

JobTyped(j) ==
  j = Idle \/ (/\ j \in Jobs
               /\ j.step \in WithSnapshot => j.time \in Times
               /\ j.step = "save" => j.batch \in 1 .. Batches[PayloadAt[j.time]])

Typed ==
  /\ now \in Times
  /\ enabled \in DOMAIN Bounds
  /\ published \in [Channels -> Times]
  /\ stamp \in [Channels -> Nat]
  /\ waiting \in Seq(Messages)
  /\ job = [s \in Slots |-> job[s]]
  /\ \A s \in Slots : JobTyped(job[s])
  /\ rows \in [Channels -> [Times -> [BatchIds -> Nat]]]
  /\ hashes \in [Channels -> [Payloads -> Times \cup {0}]]
  /\ series \subseteq Times

-----------------------------------------------------------------------------
(* Payloads and their batches.                                             *)
LEMMA PayloadKnown == ASSUME NEW t \in Times PROVE PayloadAt[t] \in Payloads /\ Batches[PayloadAt[t]] \in Nat
BY PayloadsAssumption DEF Payloads

LEMMA BatchKnown == ASSUME NEW t \in Times, NEW b \in 1 .. Batches[PayloadAt[t]] PROVE b \in BatchIds /\ b \in Nat
BY PayloadKnown DEF BatchIds

LEMMA TimesAreNat == Times \subseteq Nat /\ 1 \in Times /\ \A t \in Times : t > 0
BY TimesAssumption DEF Times

(* The realms that are due are messages of the queue.                      *)
LEMMA DueIsListed ==
  ASSUME NEW i \in 1 .. Cardinality(Due) PROVE SetToSeq(Due)[i] \in Realms
<1>1. Due \subseteq Realms
  BY DEF Due
<1>2. IsFiniteSet(Due)
  BY <1>1, RealmsAssumption, FS_Subset
<1>3. PICK f \in [1 .. Cardinality(Due) -> Due] : IsInjective(f)
  <2>1. PICK f : f \in Bijection(1 .. Cardinality(Due), Due)
    BY <1>2, FS_CardinalityType DEF ExistsBijection
  <2>2. f \in [1 .. Cardinality(Due) -> Due] /\ IsInjective(f)
    BY <2>1 DEF Bijection, Injection, IsInjective
  <2> QED BY <2>2
<1>4. SetToSeq(Due) \in [1 .. Cardinality(Due) -> Due]
  BY <1>3 DEF SetToSeq
<1> QED BY <1>1, <1>4

-----------------------------------------------------------------------------
LEMMA TypedInit == ASSUME AuctionsInit PROVE Typed
<1>1. \A s \in Slots : JobTyped(job[s])
  BY DEF AuctionsInit, JobTyped
<1>2. rows \in [Channels -> [Times -> [BatchIds -> Nat]]]
  BY DEF AuctionsInit, NoRows
<1>3. stamp \in [Channels -> Nat]
  BY DEF AuctionsInit, NeverStamped
<1> QED BY <1>1, <1>2, <1>3, TimesAreNat DEF AuctionsInit, Typed

(* A step of a worker changes the job of its slot.                         *)
LEMMA JobChanges ==
  ASSUME Typed, NEW s \in Slots, NEW j, JobTyped(j), Goto(s, j)
  PROVE  job' = [k \in Slots |-> job'[k]] /\ \A k \in Slots : JobTyped(job'[k])
BY DEF Typed, Goto

LEMMA JobIsTyped ==
  ASSUME Typed, NEW s \in Slots, ~At(s, "idle")
  PROVE  job[s] \in Jobs /\ job[s].message \in Messages /\ job[s].message.channel \in Channels
         /\ (job[s].step \in WithSnapshot => job[s].time \in Times)
         /\ (job[s].step = "save" => job[s].batch \in 1 .. Batches[PayloadAt[job[s].time]])
<1>1. job[s] \in Jobs /\ JobTyped(job[s]) /\ job[s] # Idle
  BY DEF Typed, JobTyped, At, Idle
<1>2. job[s].message \in Messages
  BY <1>1 DEF Jobs
<1> QED BY <1>1, <1>2 DEF JobTyped, Messages

LEMMA NextBatchTyped ==
  ASSUME Typed, NEW s \in Slots, ~At(s, "idle"), job[s].step \in WithSnapshot, NEW b \in Nat \ {0}, NEW p \in BOOLEAN
  PROVE  JobTyped(NextBatch(s, b, p))
<1>1. job[s] \in Jobs /\ job[s].time \in Times
  BY JobIsTyped
<1>2. Batches[PayloadAt[job[s].time]] \in Nat
  BY <1>1, PayloadKnown
<1>3. NextBatch(s, b, p) \in Jobs
  BY <1>1 DEF NextBatch, Jobs, WithSnapshot
<1>4. NextBatch(s, b, p).time = job[s].time /\ NextBatch(s, b, p).batch = b
      /\ (NextBatch(s, b, p).step = "save" => b <= Batches[PayloadAt[job[s].time]])
      /\ NextBatch(s, b, p).step \in WithSnapshot
  BY <1>1 DEF NextBatch, PayloadOf, Jobs, WithSnapshot
<1> QED BY <1>1, <1>2, <1>3, <1>4 DEF JobTyped

LEMMA MessageKnown == ASSUME Typed, NEW c \in Channels PROVE Message(c) \in Messages
BY DEF Message, Messages, Typed

LEMMA RetryKnown ==
  ASSUME NEW m \in Messages PROVE [m EXCEPT !.attempt = @ + 1] \in Messages
BY DEF Messages

LEMMA HeadKnown == ASSUME Typed, waiting # <<>> PROVE Head(waiting) \in Messages /\ Tail(waiting) \in Seq(Messages)
BY HeadTailProperties DEF Typed

-----------------------------------------------------------------------------
(* What a step leaves alone keeps its type.                                *)

LEMMA TypedEnvironment == ASSUME Typed, Tick \/ ExpireKeys \/ DeleteExpired PROVE Typed'
<1>1. CASE Tick
  <2>1. now' \in Times
    BY <1>1, BoundsAssumption, TimesAssumption DEF Tick, Typed, Times
  <2>2. published' \in [Channels -> Times]
    BY <1>1, <2>1 DEF Tick, Typed
  <2> QED BY <1>1, <2>1, <2>2 DEF Tick, Typed
<1>2. CASE ExpireKeys
  BY <1>2 DEF ExpireKeys, Typed
<1>3. CASE DeleteExpired
  BY <1>3 DEF DeleteExpired, Typed
<1> QED BY <1>1, <1>2, <1>3

LEMMA TypedCrons == ASSUME Typed, DrainQueue \/ IndexAuctions \/ IndexCommodity PROVE Typed'
<1>1. ASSUME waiting' \in Seq(Messages), UNCHANGED <<enabled, now, published, stamp, job, rows, hashes, series>>
      PROVE  Typed'
  BY <1>1 DEF Typed
<1>2. CASE DrainQueue
  BY <1>1, <1>2 DEF DrainQueue
<1>3. CASE IndexAuctions
  <2>1. Cardinality(Due) \in Nat
    BY RealmsAssumption, FS_Subset, FS_CardinalityType DEF Due
  <2> DEFINE new == [i \in 1 .. Cardinality(Due) |-> Message(SetToSeq(Due)[i])]
  <2>2. \A i \in 1 .. Cardinality(Due) : Message(SetToSeq(Due)[i]) \in Messages
    BY DueIsListed, MessageKnown DEF Channels
  <2>3. new \in Seq(Messages)
    BY <2>1, <2>2, SeqDef
  <2>4. waiting \in Seq(Messages) /\ waiting' = waiting \o new
    BY <1>3 DEF IndexAuctions, Typed
  <2> HIDE DEF new
  <2>5. waiting' \in Seq(Messages)
    BY <2>3, <2>4, ConcatProperties
  <2> QED BY <1>1, <1>3, <2>5 DEF IndexAuctions
<1>4. CASE IndexCommodity
  <2>1. Message(AnyRealm) \in Messages /\ waiting \in Seq(Messages)
    BY MessageKnown DEF Channels, Typed
  <2>2. waiting' \in Seq(Messages)
    BY <1>4, <2>1, AppendProperties DEF IndexCommodity
  <2> QED BY <1>1, <1>4, <2>2 DEF IndexCommodity
<1> QED BY <1>2, <1>3, <1>4

LEMMA TypedTakes == ASSUME Typed, NEW s \in Slots, TakeMessage(s) \/ RefuseMessage(s) PROVE Typed'
<1>1. Head(waiting) \in Messages /\ Tail(waiting) \in Seq(Messages)
  BY HeadKnown DEF TakeMessage, RefuseMessage
<1>2. CASE TakeMessage(s)
  <2> DEFINE j == [step |-> "fetch", message |-> Head(waiting), time |-> 0, batch |-> 1, persisted |-> FALSE]
  <2>1. JobTyped(j)
    BY <1>1 DEF JobTyped, Jobs, WithSnapshot
  <2>2. Goto(s, j)
    BY <1>2 DEF TakeMessage
  <2> HIDE DEF j
  <2>3. job' = [k \in Slots |-> job'[k]] /\ \A k \in Slots : JobTyped(job'[k])
    BY <2>1, <2>2, JobChanges
  <2> QED BY <1>1, <1>2, <2>3 DEF TakeMessage, Typed
<1>3. CASE RefuseMessage(s)
  <2>1. waiting' \in Seq(Messages)
    BY <1>1, <1>3, RetryKnown, AppendProperties DEF RefuseMessage
  <2> QED BY <1>3, <2>1 DEF RefuseMessage, Typed
<1> QED BY <1>2, <1>3

LEMMA TypedFails == ASSUME Typed, NEW s \in Slots, JobFails(s) PROVE Typed'
<1>1. job[s].message \in Messages
  BY JobIsTyped DEF JobFails
<1>2. waiting' \in Seq(Messages)
  BY <1>1, RetryKnown, AppendProperties DEF JobFails, Fails, Typed
<1>3. Goto(s, Idle) /\ JobTyped(Idle)
  BY DEF JobFails, Fails, JobTyped
<1>4. job' = [k \in Slots |-> job'[k]] /\ \A k \in Slots : JobTyped(job'[k])
  BY <1>3, JobChanges
<1> QED BY <1>2, <1>4 DEF JobFails, Typed

LEMMA TypedRequests == ASSUME Typed, NEW s \in Slots, Fetch(s) \/ CheckHash(s) PROVE Typed'
<1>1. \E j : JobTyped(j) /\ Goto(s, j)
  <2>1. JobTyped(Idle)
    BY DEF JobTyped
  <2>2. CASE Fetch(s)
    <3>1. ~At(s, "idle") /\ job[s] \in Jobs /\ published[job[s].message.channel] \in Times
      BY <2>2, JobIsTyped DEF Fetch, At, Typed
    <3>2. JobTyped([job[s] EXCEPT !.step = "check", !.time = published[job[s].message.channel]])
      BY <3>1, TimesAreNat DEF JobTyped, Jobs, WithSnapshot
    <3> QED BY <2>1, <2>2, <3>2 DEF Fetch
  <2>3. CASE CheckHash(s)
    <3>0. ~At(s, "idle") /\ job[s].step \in WithSnapshot /\ 1 \in Nat \ {0} /\ FALSE \in BOOLEAN
      BY <2>3 DEF CheckHash, At, WithSnapshot
    <3>1. JobTyped(NextBatch(s, 1, FALSE))
      BY <3>0, NextBatchTyped
    <3> QED BY <2>1, <2>3, <3>1 DEF CheckHash
  <2> QED BY <2>2, <2>3
<1>2. job' = [k \in Slots |-> job'[k]] /\ \A k \in Slots : JobTyped(job'[k])
  BY <1>1, JobChanges
<1> QED BY <1>2 DEF Fetch, CheckHash, Typed

LEMMA TypedBatches == ASSUME Typed, NEW s \in Slots, SaveBatch(s) \/ BatchIsLost(s) PROVE Typed'
<1>1. ~At(s, "idle") /\ job[s] \in Jobs /\ job[s].message.channel \in Channels /\ job[s].time \in Times
      /\ job[s].step = "save" /\ job[s].batch \in 1 .. Batches[PayloadAt[job[s].time]]
  BY JobIsTyped DEF SaveBatch, BatchIsLost, At, WithSnapshot
<1>2. job[s].batch \in BatchIds /\ job[s].batch + 1 \in Nat \ {0} /\ job[s].persisted \in BOOLEAN
  BY <1>1, BatchKnown DEF Jobs
<1>3. \E j : JobTyped(j) /\ Goto(s, j)
  BY <1>1, <1>2, NextBatchTyped DEF SaveBatch, BatchIsLost, WithSnapshot
<1>4. job' = [k \in Slots |-> job'[k]] /\ \A k \in Slots : JobTyped(job'[k])
  BY <1>3, JobChanges
<1>5. rows' \in [Channels -> [Times -> [BatchIds -> Nat]]]
  <2> DEFINE c == job[s].message.channel
             t == job[s].time
             b == job[s].batch
  <2>1. c \in Channels /\ t \in Times /\ b \in BatchIds /\ rows \in [Channels -> [Times -> [BatchIds -> Nat]]]
    BY <1>1, <1>2 DEF Typed
  <2>2. rows' = rows \/ rows' = [rows EXCEPT ![c][t][b] = @ + 1]
    BY DEF SaveBatch, BatchIsLost
  <2> HIDE DEF c, t, b
  <2>3. [rows[c][t] EXCEPT ![b] = @ + 1] \in [BatchIds -> Nat]
    BY <2>1
  <2>4. [rows[c] EXCEPT ![t][b] = @ + 1] \in [Times -> [BatchIds -> Nat]]
    BY <2>1, <2>3
  <2> QED BY <2>1, <2>2, <2>4
<1> QED BY <1>4, <1>5 DEF SaveBatch, BatchIsLost, Typed

LEMMA TypedMarks == ASSUME Typed, NEW s \in Slots, MarkHash(s) \/ MarkSeries(s) \/ SetStamp(s) PROVE Typed'
<1>1. ~At(s, "idle") /\ job[s] \in Jobs /\ job[s].message.channel \in Channels /\ job[s].time \in Times
  BY JobIsTyped DEF MarkHash, MarkSeries, SetStamp, At, WithSnapshot
<1>2. \A step \in {"series", "stamp"} : JobTyped([job[s] EXCEPT !.step = step]) /\ JobTyped(Idle)
  BY <1>1 DEF JobTyped, Jobs, WithSnapshot
<1>3. \E j : JobTyped(j) /\ Goto(s, j)
  BY <1>2 DEF MarkHash, MarkSeries, SetStamp
<1>4. job' = [k \in Slots |-> job'[k]] /\ \A k \in Slots : JobTyped(job'[k])
  BY <1>3, JobChanges
<1>5. PayloadOf(s) \in Payloads /\ job[s].time \in Nat
  BY <1>1, PayloadKnown, TimesAreNat DEF PayloadOf
<1>6. hashes' \in [Channels -> [Payloads -> Times \cup {0}]]
  <2> DEFINE c == job[s].message.channel
             p == PayloadOf(s)
  <2>1. c \in Channels /\ p \in Payloads /\ hashes \in [Channels -> [Payloads -> Times \cup {0}]]
    BY <1>1, <1>5 DEF Typed
  <2>2. hashes' = hashes \/ \E t \in Times \cup {0} : hashes' = [hashes EXCEPT ![c][p] = t]
    <3>1. CASE MarkHash(s)
      <4>1. hashes[c][p] \in Times \cup {0} /\ job[s].time \in Times
        BY <1>1, <2>1
      <4>2. (IF job[s].persisted THEN job[s].time ELSE hashes[c][p]) \in Times \cup {0}
        BY <4>1
      <4>3. hashes' = [hashes EXCEPT ![c][p] = IF job[s].persisted THEN job[s].time ELSE hashes[c][p]]
        BY <3>1, <2>1 DEF MarkHash
      <4> QED BY <4>2, <4>3
    <3> QED BY <3>1 DEF MarkSeries, SetStamp
  <2> HIDE DEF c, p
  <2> QED BY <2>1, <2>2
<1>7. series' \subseteq Times /\ stamp' \in [Channels -> Nat]
  BY <1>1, <1>5 DEF MarkHash, MarkSeries, SetStamp, Typed
<1> QED BY <1>4, <1>6, <1>7 DEF MarkHash, MarkSeries, SetStamp, Typed

LEMMA TypedSteps == ASSUME Typed, [AuctionsNext]_auctionVars PROVE Typed'
<1>1. CASE UNCHANGED auctionVars
  BY <1>1 DEF auctionVars, Typed
<1>2. ASSUME NEW s \in Slots, Work(s) \/ BatchIsLost(s) \/ JobFails(s) PROVE Typed'
  BY <1>2, TypedTakes, TypedRequests, TypedBatches, TypedMarks, TypedFails DEF Work
<1> QED BY <1>1, <1>2, TypedEnvironment, TypedCrons DEF AuctionsNext

-----------------------------------------------------------------------------
(* The marker of a payload.                                                *)

Kept(c, t) == Listed(c, t) \/ Expired(t)

(* A job that has saved a batch of its snapshot marks what the table has.  *)
PersistedIsListed ==
  \A s \in Slots :
    job[s].step \in {"save", "mark"} /\ job[s].persisted => Kept(job[s].message.channel, job[s].time)

MarkersInv == Typed /\ PersistedIsListed /\ MarkedPayloadsAreListed

LEMMA ExpiredForEver ==
  ASSUME Typed, [AuctionsNext]_auctionVars, NEW t \in Times, Expired(t) PROVE Expired(t)'
<1>1. now' = now \/ now' = now + 1
  BY DEF AuctionsNext, auctionVars, Tick, ExpireKeys, DeleteExpired, DrainQueue, IndexAuctions, IndexCommodity,
     Work, TakeMessage, RefuseMessage, Fetch, CheckHash, SaveBatch, MarkHash, MarkSeries, SetStamp, BatchIsLost, JobFails
<1>2. now \in Nat /\ t \in Nat /\ Day \in Nat
  BY TimesAssumption, TimesAreNat DEF Typed
<1> QED BY <1>1, <1>2 DEF Expired

(* One more order of one batch.                                            *)
LEMMA RowsGrow ==
  ASSUME Typed, NEW c \in Channels, NEW t \in Times, NEW b \in BatchIds,
         rows' = [rows EXCEPT ![c][t][b] = @ + 1]
  PROVE  /\ rows'[c][t][b] > 0
         /\ \A d \in Channels, u \in Times, a \in BatchIds : rows[d][u][a] > 0 => rows'[d][u][a] > 0
<1>1. rows \in [Channels -> [Times -> [BatchIds -> Nat]]]
  BY DEF Typed
<1>2. rows[c] \in [Times -> [BatchIds -> Nat]] /\ rows[c][t] \in [BatchIds -> Nat] /\ rows[c][t][b] \in Nat
  BY <1>1
<1>3. rows' = [rows EXCEPT ![c] = [rows[c] EXCEPT ![t] = [rows[c][t] EXCEPT ![b] = rows[c][t][b] + 1]]]
  BY <1>1, <1>2
<1>4. rows'[c] = [rows[c] EXCEPT ![t] = [rows[c][t] EXCEPT ![b] = rows[c][t][b] + 1]]
  BY <1>1, <1>3
<1>5. rows'[c][t] = [rows[c][t] EXCEPT ![b] = rows[c][t][b] + 1]
  BY <1>2, <1>4
<1>6. rows'[c][t][b] = rows[c][t][b] + 1
  BY <1>2, <1>5
<1>7. ASSUME NEW d \in Channels, NEW u \in Times, NEW a \in BatchIds, rows[d][u][a] > 0 PROVE rows'[d][u][a] > 0
  <2>1. CASE d # c
    BY <1>1, <1>3, <1>7, <2>1
  <2>2. CASE d = c /\ u # t
    BY <1>2, <1>4, <1>7, <2>2
  <2>3. CASE d = c /\ u = t
    BY <1>2, <1>5, <1>7, <2>3
  <2> QED BY <2>1, <2>2, <2>3
<1> QED BY <1>2, <1>6, <1>7

(* Only the deletion of what has expired takes an order from the table.    *)
LEMMA RowsStay ==
  ASSUME Typed, [AuctionsNext]_auctionVars, NEW c \in Channels, NEW t \in Times, NEW b \in BatchIds, rows[c][t][b] > 0
  PROVE  rows'[c][t][b] > 0 \/ Expired(t)
<1>1. rows' = rows \/ DeleteExpired \/ \E s \in Slots : SaveBatch(s)
  BY DEF AuctionsNext, auctionVars, Tick, ExpireKeys, DrainQueue, IndexAuctions, IndexCommodity,
     Work, TakeMessage, RefuseMessage, Fetch, CheckHash, MarkHash, MarkSeries, SetStamp, BatchIsLost, JobFails
<1>2. CASE DeleteExpired
  BY <1>2 DEF DeleteExpired
<1>3. ASSUME NEW s \in Slots, SaveBatch(s) PROVE rows'[c][t][b] > 0
  <2>1. job[s].message.channel \in Channels /\ job[s].time \in Times /\ job[s].batch \in BatchIds
    BY <1>3, JobIsTyped, BatchKnown DEF SaveBatch, At, WithSnapshot
  <2> QED BY <1>3, <2>1, RowsGrow DEF SaveBatch
<1> QED BY <1>1, <1>2, <1>3

LEMMA KeptForEver ==
  ASSUME Typed, [AuctionsNext]_auctionVars, NEW c \in Channels, NEW t \in Times, Kept(c, t) PROVE Kept(c, t)'
<1>1. CASE Expired(t)
  BY <1>1, ExpiredForEver DEF Kept
<1>2. CASE Listed(c, t) /\ ~Expired(t)
  BY <1>2, RowsStay DEF Kept, Listed
<1> QED BY <1>1, <1>2 DEF Kept

(* What a step does to the job of a slot.                                  *)
LEMMA JobSteps ==
  ASSUME Typed, [AuctionsNext]_auctionVars, NEW s \in Slots
  PROVE  \/ job'[s] = job[s]
         \/ job'[s].step \in {"idle", "fetch", "check", "stamp"}
         \/ CheckHash(s) \/ SaveBatch(s) \/ BatchIsLost(s) \/ MarkHash(s)
<1>1. CASE job' = job
  BY <1>1
<1>2. ASSUME NEW k \in Slots, k # s, Work(k) \/ BatchIsLost(k) \/ JobFails(k) PROVE job'[s] = job[s]
  BY <1>2 DEF Typed, Work, TakeMessage, RefuseMessage, Fetch, CheckHash, SaveBatch, MarkHash, MarkSeries, SetStamp,
     BatchIsLost, JobFails, Fails, Goto
<1>3. CASE TakeMessage(s) \/ RefuseMessage(s)
  BY <1>3 DEF TakeMessage, RefuseMessage, Goto, Typed
<1>4. CASE Fetch(s)
  <2>1. job[s] \in Jobs
    BY <1>4, JobIsTyped DEF Fetch, At
  <2>2. [job[s] EXCEPT !.step = "check", !.time = published[job[s].message.channel]].step = "check"
    BY <2>1 DEF Jobs
  <2> QED BY <1>4, <2>2 DEF Fetch, Goto, Typed, Idle
<1>5. CASE MarkSeries(s)
  <2>1. job[s] \in Jobs
    BY <1>5, JobIsTyped DEF MarkSeries, At
  <2> QED BY <1>5, <2>1 DEF MarkSeries, Goto, Typed, Jobs
<1>6. CASE SetStamp(s) \/ JobFails(s)
  BY <1>6 DEF SetStamp, JobFails, Fails, Goto, Typed, Idle
<1> QED BY <1>1, <1>2, <1>3, <1>4, <1>5, <1>6 DEF AuctionsNext, auctionVars, Tick, ExpireKeys, DeleteExpired,
        DrainQueue, IndexAuctions, IndexCommodity, Work

LEMMA NextBatchJob ==
  ASSUME Typed, NEW s \in Slots, ~At(s, "idle"), NEW b, NEW p \in BOOLEAN
  PROVE  /\ NextBatch(s, b, p).message = job[s].message /\ NextBatch(s, b, p).time = job[s].time
         /\ NextBatch(s, b, p).batch = b
         /\ NextBatch(s, b, p).step = IF b <= Batches[PayloadAt[job[s].time]] THEN "save" ELSE "mark"
BY JobIsTyped DEF NextBatch, PayloadOf, Jobs

LEMMA NextBatchPersisted ==
  ASSUME Typed, NEW s \in Slots, ~At(s, "idle"), NEW b, NEW p \in BOOLEAN
  PROVE  NextBatch(s, b, p).persisted = p
BY JobIsTyped DEF NextBatch, PayloadOf, Jobs

LEMMA PersistedStays == ASSUME MarkersInv, [AuctionsNext]_auctionVars PROVE PersistedIsListed'
<1> SUFFICES ASSUME NEW s \in Slots, job'[s].step \in {"save", "mark"}, job'[s].persisted,
                    NEW c, NEW t, c = job'[s].message.channel, t = job'[s].time
             PROVE  Kept(c, t)'
  BY DEF PersistedIsListed, Kept, Listed, Expired
<1> USE DEF MarkersInv
<1>1. Typed
  OBVIOUS
<1>2. ASSUME c = job[s].message.channel, t = job[s].time, job[s].step \in {"save", "mark"}, job[s].persisted
      PROVE  Kept(c, t)'
  <2>1. c \in Channels /\ t \in Times
    BY <1>2, JobIsTyped DEF At, WithSnapshot
  <2>2. Kept(c, t)
    BY <1>2 DEF PersistedIsListed
  <2> QED BY <2>1, <2>2, KeptForEver
<1>3. CASE job'[s] = job[s]
  BY <1>2, <1>3
<1>4. CASE CheckHash(s)
  <2>1. ~At(s, "idle")
    BY <1>4 DEF CheckHash, At
  <2>2. job'[s] = Idle \/ job'[s] = NextBatch(s, 1, FALSE)
    BY <1>4 DEF CheckHash, Goto, Typed
  <2>3. job'[s] # Idle /\ ~NextBatch(s, 1, FALSE).persisted
    <3>1. FALSE \in BOOLEAN
      OBVIOUS
    <3>2. NextBatch(s, 1, FALSE).persisted = FALSE
      BY <1>1, <2>1, <3>1, NextBatchPersisted
    <3>3. ~NextBatch(s, 1, FALSE).persisted
      BY <3>2, Zenon
    <3>4. job'[s] # Idle
      BY DEF Idle
    <3> QED BY <3>3, <3>4
  <2> QED BY <2>2, <2>3
<1>5. CASE SaveBatch(s)
  <2>1. /\ ~At(s, "idle") /\ job[s].message.channel \in Channels /\ job[s].time \in Times
        /\ job[s].batch \in BatchIds
    BY <1>5, JobIsTyped, BatchKnown DEF SaveBatch, At, WithSnapshot
  <2>2. job'[s] = NextBatch(s, job[s].batch + 1, TRUE)
    BY <1>5 DEF SaveBatch, Goto, Typed
  <2>3. c = job[s].message.channel /\ t = job[s].time
    <3>1. TRUE \in BOOLEAN
      OBVIOUS
    <3>2. /\ NextBatch(s, job[s].batch + 1, TRUE).message = job[s].message
          /\ NextBatch(s, job[s].batch + 1, TRUE).time = job[s].time
      BY <1>1, <2>1, <3>1, NextBatchJob
    <3> QED BY <2>2, <3>2
  <2>4. rows'[c][t][job[s].batch] > 0
    BY <1>5, <2>1, <2>3, RowsGrow DEF SaveBatch
  <2> QED BY <2>1, <2>4 DEF Kept, Listed
<1>6. CASE BatchIsLost(s)
  <2>1. ~At(s, "idle") /\ job[s].step = "save"
    BY <1>6 DEF BatchIsLost, At
  <2>2. job'[s] = NextBatch(s, job[s].batch + 1, job[s].persisted)
    BY <1>6 DEF BatchIsLost, Goto, Typed
  <2>3. c = job[s].message.channel /\ t = job[s].time /\ job[s].persisted
    <3>1. job[s].persisted \in BOOLEAN
      BY <1>1, <2>1, JobIsTyped DEF Jobs
    <3>2. /\ NextBatch(s, job[s].batch + 1, job[s].persisted).message = job[s].message
          /\ NextBatch(s, job[s].batch + 1, job[s].persisted).time = job[s].time
      BY <1>1, <2>1, <3>1, NextBatchJob
    <3>3. NextBatch(s, job[s].batch + 1, job[s].persisted).persisted = job[s].persisted
      BY <1>1, <2>1, <3>1, NextBatchPersisted
    <3> QED BY <2>2, <3>2, <3>3, Zenon
  <2> QED BY <1>2, <2>1, <2>3
<1>7. CASE MarkHash(s)
  <2>1. job[s] \in Jobs
    BY <1>7, JobIsTyped DEF MarkHash, At
  <2> QED BY <1>7, <2>1 DEF MarkHash, Goto, Typed, Jobs
<1>8. CASE job'[s].step \in {"idle", "fetch", "check", "stamp"}
  BY <1>8
<1> QED BY <1>3, <1>4, <1>5, <1>6, <1>7, <1>8, JobSteps

LEMMA MarkersStay == ASSUME MarkersInv, [AuctionsNext]_auctionVars PROVE MarkedPayloadsAreListed'
<1> SUFFICES ASSUME NEW c \in Channels, NEW p \in Payloads, NEW t, t = hashes'[c][p], t # 0, ~Expired(t)'
             PROVE  PayloadAt[t] = p /\ Listed(c, t)'
  BY DEF MarkedPayloadsAreListed, Listed, Expired
<1> USE DEF MarkersInv
<1>1. hashes \in [Channels -> [Payloads -> Times \cup {0}]] /\ hashes[c][p] \in Times \cup {0} /\ Typed
  BY DEF Typed
<1>2. CASE t = hashes[c][p]
  <2>1. t \in Times
    BY <1>1, <1>2
  <2>2. ~Expired(t)
    BY <1>1, <2>1, ExpiredForEver
  <2>3. PayloadAt[t] = p /\ Kept(c, t)
    BY <1>2, <2>2 DEF MarkedPayloadsAreListed, Kept
  <2>4. Kept(c, t)'
    BY <1>1, <2>1, <2>3, KeptForEver
  <2> QED BY <2>3, <2>4 DEF Kept
<1>3. CASE ExpireKeys
  BY <1>1, <1>2, <1>3 DEF ExpireKeys
<1>4. ASSUME NEW s \in Slots, MarkHash(s), t # hashes[c][p]
      PROVE  PayloadAt[t] = p /\ Listed(c, t)'
  <2>1. job[s].message.channel \in Channels /\ job[s].time \in Times /\ job[s].step = "mark"
    BY <1>4, JobIsTyped DEF MarkHash, At, WithSnapshot
  <2>2. PayloadOf(s) \in Payloads
    BY <2>1, PayloadKnown DEF PayloadOf
  <2>3. c = job[s].message.channel /\ p = PayloadOf(s) /\ job[s].persisted /\ t = job[s].time
    <3> DEFINE d == job[s].message.channel
               q == PayloadOf(s)
               v == IF job[s].persisted THEN job[s].time ELSE hashes[d][q]
    <3>1. hashes' = [hashes EXCEPT ![d][q] = v] /\ d \in Channels /\ q \in Payloads
      BY <1>1, <1>4, <2>1, <2>2 DEF MarkHash
    <3>2. ~job[s].persisted => v = hashes[d][q]
      OBVIOUS
    <3>3. job[s].persisted => v = job[s].time
      OBVIOUS
    <3> HIDE DEF d, q, v
    <3>4. c = d /\ p = q /\ hashes'[c][p] = v
      BY <1>1, <1>4, <3>1
    <3>5. job[s].persisted
      BY <1>4, <3>2, <3>4
    <3> QED BY <3>3, <3>4, <3>5 DEF d, q
  <2>4. Kept(c, t)
    BY <2>1, <2>3 DEF PersistedIsListed
  <2>5. Kept(c, t)'
    BY <1>1, <2>1, <2>3, <2>4, KeptForEver
  <2> QED BY <2>3, <2>5 DEF Kept, PayloadOf
<1>5. hashes' = hashes \/ ExpireKeys \/ \E s \in Slots : MarkHash(s)
  BY DEF AuctionsNext, auctionVars, Tick, DeleteExpired, DrainQueue, IndexAuctions, IndexCommodity,
     Work, TakeMessage, RefuseMessage, Fetch, CheckHash, SaveBatch, MarkSeries, SetStamp, BatchIsLost, JobFails
<1> QED BY <1>2, <1>3, <1>4, <1>5

LEMMA MarketSteps == ASSUME [MarketNext]_marketVars PROVE [AuctionsNext]_auctionVars
BY DEF marketVars, MarketNext, ChartsNext, ContractsNext, GetLatestTimestampCommodity, GetCached, PriceAxisCommodity,
   ProcessTimestampData, SetCached, ExpireChart, IndexGold, SaveGold, StampGold, GoldFails, DeleteExpiredGold,
   BeginContract, SumOrders, ReadPercentiles, ReadOpenInterest, UpsertContract, BuildFails

(* A payload whose hash is marked is in the market table until it expires, *)
(* under the snapshot that marked it.                                      *)
THEOREM MarkedPayloadsHold == MarketSpec => []MarkedPayloadsAreListed
<1>1. MarketInit => MarkersInv
  <2> SUFFICES ASSUME MarketInit PROVE MarkersInv
    OBVIOUS
  <2>1. Typed
    BY TypedInit DEF MarketInit
  <2>2. PersistedIsListed /\ MarkedPayloadsAreListed
    BY DEF MarketInit, AuctionsInit, Idle, PersistedIsListed, MarkedPayloadsAreListed
  <2> QED BY <2>1, <2>2 DEF MarkersInv
<1>2. MarkersInv /\ [MarketNext]_marketVars => MarkersInv'
  <2> SUFFICES ASSUME MarkersInv, [MarketNext]_marketVars PROVE MarkersInv'
    OBVIOUS
  <2>1. Typed' /\ PersistedIsListed' /\ MarkedPayloadsAreListed'
    BY MarketSteps, TypedSteps, PersistedStays, MarkersStay DEF MarkersInv
  <2> QED BY <2>1 DEF MarkersInv
<1> QED BY <1>1, <1>2, PTL DEF MarketSpec, MarkersInv

-----------------------------------------------------------------------------
(* Gold and its contracts.                                                 *)

Sold(t) == gold[t] # {} \/ Expired(t)

(* Contracts of gold are built, or being built, for t.                     *)
Counted(t) ==
  \/ build # NoBuild /\ build.id[1] = "gold" /\ build.id[3] = t
  \/ \E id \in DOMAIN contracts : id[1] = "gold" /\ id[3] = t

(* Only what was sold, or has expired since, is counted ...                *)
CountedIsSold == \A t \in Times : Counted(t) => Sold(t)

(* ... and what is being saved is of a time that nothing counted.          *)
Scrapes == [step : {"save", "stamp"}, page : SUBSET Listings, time : Times]

ScrapeIsFresh ==
  /\ scrape \in {NoScrape} \cup Scrapes
  /\ scrape.step = "save" => gold[scrape.time] = {} /\ ~Counted(scrape.time)

BuildIsKnown ==
  \/ build = NoBuild
  \/ /\ build.step \in {"sum", "percentiles", "interest", "upsert"}
     /\ build.id[3] \in Times

(* The number of orders that a build has read is the number there is.      *)
BuildIsExact ==
  build # NoBuild /\ build.id[1] = "gold" /\ gold[build.id[3]] # {} =>
    /\ build.step \in {"percentiles", "interest"} => build.orders = Orders("gold", build.id[3])
    /\ build.step = "upsert" => build.contract.orders = Orders("gold", build.id[3])

ContractsAreKnown == \A id \in DOMAIN contracts : id[3] \in Times

GoldInv ==
  /\ gold = [t \in Times |-> gold[t]]
  /\ CountedIsSold /\ ScrapeIsFresh /\ BuildIsKnown /\ BuildIsExact /\ ContractsAreKnown
  /\ GoldContractsCountEveryRealm

(* The gold of a time is saved once, and goes when it has expired.         *)
LEMMA GoldSteps ==
  ASSUME Typed, GoldInv, [MarketNext]_marketVars, NEW t \in Times
  PROVE  /\ \/ gold'[t] = gold[t]
            \/ gold'[t] = {} /\ Expired(t)
            \/ SaveGold /\ t = scrape.time
         /\ Expired(t) => Expired(t)'
<1>1. Expired(t) => Expired(t)'
  BY MarketSteps, ExpiredForEver
<1>2. CASE SaveGold
  BY <1>1, <1>2 DEF SaveGold, GoldInv
<1>3. CASE DeleteExpiredGold
  BY <1>1, <1>3 DEF DeleteExpiredGold
<1>4. CASE gold' = gold
  BY <1>1, <1>4
<1>5. gold' = gold \/ SaveGold \/ DeleteExpiredGold
  BY DEF marketVars, contractVars, MarketNext, ChartsNext, ContractsNext, IndexGold, StampGold, GoldFails,
     BeginContract, SumOrders, ReadPercentiles, ReadOpenInterest, UpsertContract, BuildFails
<1> QED BY <1>2, <1>3, <1>4, <1>5

LEMMA CountedStaysSold ==
  ASSUME Typed, GoldInv, [MarketNext]_marketVars, NEW t \in Times, Counted(t)
  PROVE  Sold(t)' /\ ~(SaveGold /\ t = scrape.time)
<1>1. Sold(t)
  BY DEF GoldInv, CountedIsSold
<1>2. ~(SaveGold /\ t = scrape.time)
  BY DEF GoldInv, ScrapeIsFresh, SaveGold
<1> QED BY <1>1, <1>2, GoldSteps DEF Sold

(* What is counted after a step was counted, or is begun and was sold.     *)
LEMMA CountedSteps ==
  ASSUME Typed, GoldInv, [MarketNext]_marketVars, NEW t \in Times, Counted(t)'
  PROVE  Counted(t) \/ (gold' = gold /\ gold[t] # {} /\ UNCHANGED <<scrape, auctionVars>>)
<1>1. CASE build' = build /\ contracts' = contracts
  BY <1>1 DEF Counted
<1>2. CASE \E item \in Items : BeginContract(item)
  <2>1. contracts' = contracts /\ gold' = gold /\ UNCHANGED <<scrape, auctionVars>>
    BY <1>2 DEF BeginContract
  <2>2. PICK item \in Items, u \in Times :
          /\ build' = [step |-> "sum", id |-> <<item, Today, u>>]
          /\ item = "gold" => gold[u] # {}
    BY <1>2 DEF BeginContract
  <2>3. build'.id[1] = item /\ build'.id[3] = u
    BY <2>2
  <2> QED BY <2>1, <2>2, <2>3 DEF Counted
<1>3. CASE SumOrders \/ ReadPercentiles \/ ReadOpenInterest
  <2>1. build' = NoBuild \/ (build # NoBuild /\ build'.id = build.id)
    BY <1>3 DEF SumOrders, ReadPercentiles, ReadOpenInterest, NoBuild
  <2>2. contracts' = contracts
    BY <1>3 DEF SumOrders, ReadPercentiles, ReadOpenInterest
  <2> QED BY <2>1, <2>2 DEF Counted
<1>4. CASE UpsertContract
  <2>1. build # NoBuild /\ build' = NoBuild /\ DOMAIN contracts' = DOMAIN contracts \cup {build.id}
    BY <1>4 DEF UpsertContract, NoBuild
  <2> QED BY <2>1 DEF Counted
<1>5. CASE BuildFails
  BY <1>5 DEF BuildFails, Counted
<1>6. \/ build' = build /\ contracts' = contracts
      \/ \E item \in Items : BeginContract(item)
      \/ SumOrders \/ ReadPercentiles \/ ReadOpenInterest \/ UpsertContract \/ BuildFails
  BY DEF marketVars, contractVars, MarketNext, ChartsNext, ContractsNext, IndexGold, SaveGold, StampGold, GoldFails,
     DeleteExpiredGold
<1> QED BY <1>1, <1>2, <1>3, <1>4, <1>5, <1>6

LEMMA CountedStays == ASSUME Typed, GoldInv, [MarketNext]_marketVars PROVE CountedIsSold'
<1> SUFFICES ASSUME NEW t \in Times, Counted(t)' PROVE Sold(t)'
  BY DEF CountedIsSold
<1>1. CASE Counted(t)
  BY <1>1, CountedStaysSold
<1>2. CASE gold' = gold /\ gold[t] # {}
  BY <1>2 DEF Sold
<1> QED BY <1>1, <1>2, CountedSteps

LEMMA ScrapeStays == ASSUME Typed, GoldInv, [MarketNext]_marketVars PROVE ScrapeIsFresh'
<1>1. scrape \in {NoScrape} \cup Scrapes
  BY DEF GoldInv, ScrapeIsFresh
<1>2. CASE scrape' = scrape /\ scrape.step = "save"
  <2> SUFFICES ASSUME NEW t, t = scrape.time PROVE gold'[t] = {} /\ ~Counted(t)'
    BY <1>1, <1>2 DEF ScrapeIsFresh, Counted
  <2>1. gold[t] = {} /\ ~Counted(t)
    BY <1>2 DEF GoldInv, ScrapeIsFresh
  <2>2. t \in Times
    BY <1>1, <1>2 DEF NoScrape, Scrapes
  <2>3. ~SaveGold
    BY <1>1, <1>2 DEF SaveGold, NoScrape, Scrapes
  <2>4. gold'[t] = {}
    BY <2>1, <2>2, <2>3, GoldSteps
  <2> QED BY <2>1, <2>2, <2>4, CountedSteps
<1>3. CASE IndexGold /\ scrape' # NoScrape
  <2>1. PICK page \in SUBSET Listings : scrape' = [step |-> "save", page |-> page, time |-> now]
    BY <1>3 DEF IndexGold
  <2>2. gold[now] = {} /\ gold' = gold /\ build' = build /\ contracts' = contracts
    BY <1>3 DEF IndexGold
  <2>3. now \in Times /\ ~Expired(now)
    BY TimesAreNat, TimesAssumption DEF Typed, Expired
  <2>4. ~Counted(now)
    BY <2>2, <2>3 DEF GoldInv, CountedIsSold, Sold
  <2> QED BY <2>1, <2>2, <2>3, <2>4 DEF ScrapeIsFresh, Scrapes, Counted
<1>4. CASE SaveGold
  <2>1. scrape \in Scrapes
    BY <1>1, <1>4 DEF SaveGold, NoScrape
  <2>2. scrape' \in Scrapes /\ scrape'.step = "stamp"
    BY <1>4, <2>1 DEF SaveGold, Scrapes
  <2> QED BY <2>2 DEF ScrapeIsFresh
<1>5. CASE scrape' = NoScrape \/ (scrape' = scrape /\ scrape.step # "save")
  BY <1>1, <1>5 DEF ScrapeIsFresh, NoScrape
<1>6. scrape' = scrape \/ IndexGold \/ SaveGold \/ StampGold \/ GoldFails
  BY DEF marketVars, contractVars, MarketNext, ChartsNext, ContractsNext, DeleteExpiredGold,
     BeginContract, SumOrders, ReadPercentiles, ReadOpenInterest, UpsertContract, BuildFails
<1> QED BY <1>2, <1>3, <1>4, <1>5, <1>6 DEF StampGold, GoldFails

(* Of what a build or a contract counts, nothing comes to be sold.         *)
LEMMA SoldCountedStays ==
  ASSUME Typed, GoldInv, [MarketNext]_marketVars, NEW t \in Times, Counted(t), gold'[t] # {}
  PROVE  gold[t] # {} /\ Orders("gold", t)' = Orders("gold", t)
<1>1. gold'[t] = gold[t]
  BY CountedStaysSold, GoldSteps
<1> QED BY <1>1 DEF Orders

LEMMA BuildStays == ASSUME Typed, GoldInv, [MarketNext]_marketVars PROVE BuildIsKnown' /\ BuildIsExact'
<1>1. CASE build' = NoBuild
  BY <1>1 DEF BuildIsKnown, BuildIsExact
<1>2. CASE \E item \in Items : BeginContract(item)
  <2>1. PICK item \in Items, u \in Times : build' = [step |-> "sum", id |-> <<item, Today, u>>]
    BY <1>2 DEF BeginContract
  <2> QED BY <2>1 DEF BuildIsKnown, BuildIsExact, NoBuild
<1>3. ASSUME build # NoBuild, build' # NoBuild, build'.id = build.id, gold' = gold
      PROVE  build.id[3] \in Times
  BY <1>3 DEF GoldInv, BuildIsKnown
<1>4. CASE SumOrders /\ build' # NoBuild
  <2>1. build # NoBuild /\ gold' = gold /\ build' = [step |-> "percentiles", id |-> build.id, orders |-> Seen]
    BY <1>4 DEF SumOrders, NoBuild
  <2>2. build'.step = "percentiles" /\ build'.id = build.id /\ build'.orders = Seen
    BY <2>1
  <2>3. Seen = Orders(build.id[1], build.id[3])
    BY DEF Seen
  <2> QED BY <1>3, <1>4, <2>1, <2>2, <2>3 DEF BuildIsKnown, BuildIsExact, Orders
<1>5. CASE ReadPercentiles
  <2>1. /\ build # NoBuild /\ build' # NoBuild /\ gold' = gold /\ build.step = "percentiles"
        /\ build'.step = "interest" /\ build'.id = build.id /\ build'.orders = build.orders
    BY <1>5 DEF ReadPercentiles, NoBuild
  <2> QED BY <1>3, <2>1 DEF GoldInv, BuildIsKnown, BuildIsExact, Orders
<1>6. CASE ReadOpenInterest
  <2>1. /\ build # NoBuild /\ build' # NoBuild /\ gold' = gold /\ build.step = "interest"
        /\ build'.step = "upsert" /\ build'.id = build.id /\ build'.contract.orders = build.orders
    BY <1>6 DEF ReadOpenInterest, NoBuild
  <2> QED BY <1>3, <2>1 DEF GoldInv, BuildIsKnown, BuildIsExact, Orders
<1>7. CASE build' = build /\ build # NoBuild
  <2>1. BuildIsKnown' /\ build.id[3] \in Times
    BY <1>7 DEF GoldInv, BuildIsKnown
  <2> SUFFICES ASSUME NEW t, t = build.id[3], build.id[1] = "gold", gold'[t] # {}
               PROVE  /\ build.step \in {"percentiles", "interest"} => build.orders = Orders("gold", t)'
                      /\ build.step = "upsert" => build.contract.orders = Orders("gold", t)'
    BY <1>7, <2>1 DEF BuildIsExact, Orders
  <2>2. Counted(t) /\ t \in Times
    BY <1>7, <2>1 DEF Counted
  <2>3. gold[t] # {} /\ Orders("gold", t)' = Orders("gold", t)
    BY <2>2, SoldCountedStays
  <2> QED BY <1>7, <2>3 DEF GoldInv, BuildIsExact
<1>8. \/ build' = build \/ build' = NoBuild \/ \E item \in Items : BeginContract(item)
      \/ SumOrders \/ ReadPercentiles \/ ReadOpenInterest
  BY DEF marketVars, contractVars, MarketNext, ChartsNext, ContractsNext, IndexGold, SaveGold, StampGold, GoldFails,
     DeleteExpiredGold, UpsertContract, BuildFails
<1> QED BY <1>1, <1>2, <1>4, <1>5, <1>6, <1>7, <1>8

LEMMA ContractsStay ==
  ASSUME Typed, GoldInv, [MarketNext]_marketVars PROVE ContractsAreKnown' /\ GoldContractsCountEveryRealm'
<1>1. CASE contracts' = contracts
  <2>1. ContractsAreKnown'
    BY <1>1 DEF GoldInv, ContractsAreKnown
  <2> SUFFICES ASSUME NEW id \in DOMAIN contracts, id[1] = "gold", NEW t, t = id[3], gold'[t] # {}
               PROVE  contracts[id].orders = Orders("gold", t)'
    BY <1>1, <2>1 DEF GoldContractsCountEveryRealm, Orders
  <2>2. Counted(t) /\ t \in Times
    BY DEF Counted, GoldInv, ContractsAreKnown
  <2>3. gold[t] # {} /\ Orders("gold", t)' = Orders("gold", t)
    BY <2>2, SoldCountedStays
  <2> QED BY <2>3 DEF GoldInv, GoldContractsCountEveryRealm
<1>2. CASE UpsertContract
  <2>1. build # NoBuild /\ build.step = "upsert" /\ gold' = gold
    BY <1>2 DEF UpsertContract, NoBuild
  <2>2. build.id[3] \in Times
    BY <2>1 DEF GoldInv, BuildIsKnown
  <2>3. build.id[1] = "gold" /\ gold[build.id[3]] # {} => build.contract.orders = Orders("gold", build.id[3])
    BY <2>1 DEF GoldInv, BuildIsExact
  <2>4. contracts' = [id \in DOMAIN contracts \cup {build.id} |->
                        IF id = build.id THEN build.contract ELSE contracts[id]]
    BY <1>2 DEF UpsertContract
  <2>5. ContractsAreKnown'
    BY <2>2, <2>4 DEF GoldInv, ContractsAreKnown
  <2>6. GoldContractsCountEveryRealm'
    BY <2>1, <2>3, <2>4 DEF GoldInv, GoldContractsCountEveryRealm, Orders
  <2> QED BY <2>5, <2>6
<1>3. contracts' = contracts \/ UpsertContract
  BY DEF marketVars, contractVars, MarketNext, ChartsNext, ContractsNext, IndexGold, SaveGold, StampGold, GoldFails,
     DeleteExpiredGold, BeginContract, SumOrders, ReadPercentiles, ReadOpenInterest, BuildFails
<1> QED BY <1>1, <1>2, <1>3

(* A gold contract counts the online orders of every realm of its time, as *)
(* long as the gold of that time is in the table.                          *)
THEOREM GoldContractsHold == MarketSpec => []GoldContractsCountEveryRealm
<1>1. MarketInit => Typed /\ GoldInv
  <2> SUFFICES ASSUME MarketInit PROVE Typed /\ GoldInv
    OBVIOUS
  <2>1. Typed
    BY TypedInit DEF MarketInit
  <2>2. GoldInv
    BY DEF MarketInit, ContractsInit, NoScrape, NoBuild, GoldInv, CountedIsSold, Counted, ScrapeIsFresh, BuildIsKnown,
       BuildIsExact, ContractsAreKnown, GoldContractsCountEveryRealm
  <2> QED BY <2>1, <2>2
<1>2. Typed /\ GoldInv /\ [MarketNext]_marketVars => Typed' /\ GoldInv'
  <2> SUFFICES ASSUME Typed, GoldInv, [MarketNext]_marketVars PROVE Typed' /\ GoldInv'
    OBVIOUS
  <2>1. Typed'
    BY MarketSteps, TypedSteps
  <2>2. gold' = [t \in Times |-> gold'[t]]
    BY DEF GoldInv, marketVars, contractVars, MarketNext, ChartsNext, ContractsNext, IndexGold, SaveGold, StampGold,
       GoldFails, DeleteExpiredGold, BeginContract, SumOrders, ReadPercentiles, ReadOpenInterest, UpsertContract, BuildFails
  <2> QED BY <2>1, <2>2, CountedStays, ScrapeStays, BuildStays, ContractsStay DEF GoldInv
<1>3. GoldInv => GoldContractsCountEveryRealm
  BY DEF GoldInv
<1> QED BY <1>1, <1>2, <1>3, PTL DEF MarketSpec

-----------------------------------------------------------------------------
(* The charts.                                                             *)

Held(c, t, b) == rows[c][t][b] > 0 \/ Expired(t)

BatchesOf(t) == 1 .. Batches[PayloadAt[t]]

Whole(t) == \A b \in BatchesOf(t) : Held(AnyRealm, t, b)

(* Where no batch is lost a job saves its batches in order, all of them    *)
(* before it marks anything.                                               *)
BatchesAreSaved ==
  \A s \in Slots :
    /\ job[s].step = "save" =>
         \A b \in 1 .. (job[s].batch - 1) : Held(job[s].message.channel, job[s].time, b)
    /\ job[s].step \in {"mark", "series"} =>
         \A b \in BatchesOf(job[s].time) : Held(job[s].message.channel, job[s].time, b)
    /\ job[s].step = "series" => job[s].message.channel = AnyRealm

SeriesIsWhole == \A t \in series : Whole(t)

RequestTimes == [step : {"cache", "axis"}, times : SUBSET Times]
Reads == [step : {"read"}, times : SUBSET Times, left : SUBSET Times, points : SUBSET (Times \X BatchIds)]

(* A request asks for whole snapshots, and has read them or has yet to.    *)
RequestIsWhole ==
  /\ request \in {NoRequest} \cup RequestTimes \cup Reads
  /\ request # NoRequest => \A t \in request.times : Whole(t)
  /\ request.step = "read" => \A t \in request.times : t \notin request.left =>
       Expired(t) \/ \A b \in BatchesOf(t) : <<t, b>> \in request.points

ChartsInv ==
  /\ charts = [k \in 0 .. MaxTime |-> charts[k]]
  /\ BatchesAreSaved /\ SeriesIsWhole /\ RequestIsWhole /\ CachedChartsAreWhole

LEMMA BatchesKnown == ASSUME NEW t \in Times PROVE BatchesOf(t) \subseteq BatchIds /\ Batches[PayloadAt[t]] \in Nat
BY BatchKnown, PayloadKnown DEF BatchesOf

LEMMA HeldForEver ==
  ASSUME Typed, [AuctionsNext]_auctionVars, NEW c \in Channels, NEW t \in Times, NEW b \in BatchIds, Held(c, t, b)
  PROVE  Held(c, t, b)'
BY RowsStay, ExpiredForEver DEF Held

LEMMA WholeForEver ==
  ASSUME Typed, [AuctionsNext]_auctionVars, NEW t \in Times, Whole(t) PROVE Whole(t)'
<1> SUFFICES ASSUME NEW b \in BatchesOf(t) PROVE Held(AnyRealm, t, b)'
  BY DEF Whole
<1>1. AnyRealm \in Channels /\ b \in BatchIds /\ Held(AnyRealm, t, b)
  BY BatchesKnown DEF Whole, Channels
<1> QED BY <1>1, HeldForEver

LEMMA EnabledStays == ASSUME [MarketNext]_marketVars PROVE enabled' = enabled
<1>1. [AuctionsNext]_auctionVars
  BY MarketSteps
<1> QED BY <1>1 DEF AuctionsNext, auctionVars, Tick, ExpireKeys, DeleteExpired, DrainQueue, IndexAuctions,
     IndexCommodity, Work, TakeMessage, RefuseMessage, Fetch, CheckHash, SaveBatch, MarkHash, MarkSeries, SetStamp,
     BatchIsLost, JobFails

(* How a job comes to where it is.                                         *)
LEMMA SaveSteps ==
  ASSUME Typed, [AuctionsNext]_auctionVars, "lossy" \notin enabled, NEW s \in Slots
  PROVE  \/ job'[s] = job[s]
         \/ job'[s].step \in {"idle", "fetch", "check", "stamp"}
         \/ /\ job[s].step = "check" /\ job'[s] = NextBatch(s, 1, FALSE)
         \/ /\ SaveBatch(s) /\ job'[s] = NextBatch(s, job[s].batch + 1, TRUE)
         \/ /\ job[s].step = "mark" /\ job'[s] = [job[s] EXCEPT !.step = "series"]
            /\ job[s].message.channel = AnyRealm
<1>1. CASE CheckHash(s)
  BY <1>1 DEF CheckHash, Goto, Typed, Idle, At
<1>2. CASE SaveBatch(s)
  BY <1>2 DEF SaveBatch, Goto, Typed
<1>3. CASE MarkHash(s)
  <2>1. job[s] \in Jobs /\ job[s].step = "mark"
    BY <1>3, JobIsTyped DEF MarkHash, At
  <2>2. job'[s] = [job[s] EXCEPT !.step = IF job[s].message.channel = AnyRealm THEN "series" ELSE "stamp"]
    BY <1>3 DEF MarkHash, Goto, Typed
  <2> QED BY <2>1, <2>2 DEF Jobs
<1>4. ~BatchIsLost(s)
  BY DEF BatchIsLost
<1> QED BY <1>1, <1>2, <1>3, <1>4, JobSteps

LEMMA BatchesStay ==
  ASSUME Typed, BatchesAreSaved, [AuctionsNext]_auctionVars, "lossy" \notin enabled PROVE BatchesAreSaved'
<1> SUFFICES ASSUME NEW s \in Slots, NEW c, NEW t, c = job'[s].message.channel, t = job'[s].time
             PROVE  /\ job'[s].step = "save" => \A b \in 1 .. (job'[s].batch - 1) : Held(c, t, b)'
                    /\ job'[s].step \in {"mark", "series"} => \A b \in BatchesOf(t) : Held(c, t, b)'
                    /\ job'[s].step = "series" => c = AnyRealm
  BY DEF BatchesAreSaved, Held, Expired
<1>1. ASSUME job[s].message.channel = c, job[s].time = t, job[s].step \in {"save", "mark", "series"}
      PROVE  /\ c \in Channels /\ t \in Times /\ BatchesOf(t) \subseteq BatchIds /\ Batches[PayloadAt[t]] \in Nat
             /\ job[s].step = "save" => job[s].batch \in BatchesOf(t) /\ 1 .. (job[s].batch - 1) \subseteq BatchIds
             /\ job[s].step = "save" => \A b \in 1 .. (job[s].batch - 1) : Held(c, t, b)'
             /\ job[s].step \in {"mark", "series"} => \A b \in BatchesOf(t) : Held(c, t, b)'
  <2>1. c \in Channels /\ t \in Times
    BY <1>1, JobIsTyped DEF At, WithSnapshot
  <2>2. BatchesOf(t) \subseteq BatchIds /\ Batches[PayloadAt[t]] \in Nat
    BY <2>1, BatchesKnown
  <2>3. job[s].step = "save" => job[s].batch \in BatchesOf(t)
    BY <1>1, JobIsTyped DEF At, WithSnapshot, BatchesOf
  <2>4. job[s].step = "save" => 1 .. (job[s].batch - 1) \subseteq BatchIds
    BY <2>2, <2>3 DEF BatchesOf
  <2>5. job[s].step = "save" => \A b \in 1 .. (job[s].batch - 1) : Held(c, t, b)'
    BY <1>1, <2>1, <2>4, HeldForEver DEF BatchesAreSaved
  <2>6. job[s].step \in {"mark", "series"} => \A b \in BatchesOf(t) : Held(c, t, b)'
    BY <1>1, <2>1, <2>2, HeldForEver DEF BatchesAreSaved
  <2> QED BY <2>1, <2>2, <2>3, <2>4, <2>5, <2>6
<1>2. CASE job'[s] = job[s]
  BY <1>1, <1>2 DEF BatchesAreSaved
<1>3. CASE job'[s].step \in {"idle", "fetch", "check", "stamp"}
  BY <1>3
<1>4. CASE job[s].step = "check" /\ job'[s] = NextBatch(s, 1, FALSE)
  <2>1. ~At(s, "idle") /\ FALSE \in BOOLEAN /\ job[s].time \in Times
    BY <1>4, JobIsTyped DEF At, WithSnapshot
  <2>2. /\ job'[s].batch = 1 /\ job'[s].time = job[s].time
        /\ job'[s].step = IF 1 <= Batches[PayloadAt[job[s].time]] THEN "save" ELSE "mark"
    BY <1>4, <2>1, JobIsTyped DEF NextBatch, PayloadOf, Jobs
  <2>3. t = job[s].time /\ Batches[PayloadAt[t]] \in Nat
    BY <2>1, <2>2, PayloadKnown
  <2>4. CASE 1 <= Batches[PayloadAt[t]]
    <3>1. job'[s].step = "save" /\ job'[s].batch - 1 = 0 /\ 1 .. 0 = {}
      BY <2>2, <2>3, <2>4
    <3> QED BY <3>1
  <2>5. CASE ~(1 <= Batches[PayloadAt[t]])
    <3>1. job'[s].step = "mark" /\ BatchesOf(t) = {}
      BY <2>2, <2>3, <2>5 DEF BatchesOf
    <3> QED BY <3>1
  <2> QED BY <2>4, <2>5
<1>5. CASE SaveBatch(s) /\ job'[s] = NextBatch(s, job[s].batch + 1, TRUE)
  <2> PICK n : n = job[s].batch
    OBVIOUS
  <2>1. ~At(s, "idle") /\ TRUE \in BOOLEAN /\ job[s].step = "save"
    BY <1>5 DEF SaveBatch, At
  <2>2. /\ job'[s].batch = n + 1 /\ job'[s].time = job[s].time /\ job'[s].message = job[s].message
        /\ job'[s].step = IF n + 1 <= Batches[PayloadAt[job[s].time]] THEN "save" ELSE "mark"
    BY <1>5, <2>1, JobIsTyped DEF NextBatch, PayloadOf, Jobs
  <2>3. /\ c \in Channels /\ t \in Times /\ Batches[PayloadAt[t]] \in Nat /\ n \in BatchesOf(t)
        /\ BatchesOf(t) \subseteq BatchIds /\ \A b \in 1 .. (n - 1) : Held(c, t, b)'
    BY <1>1, <2>1, <2>2
  <2>4. Held(c, t, n)'
    <3>1. n \in BatchIds /\ c = job[s].message.channel /\ t = job[s].time
      BY <2>2, <2>3
    <3>2. rows' = [rows EXCEPT ![c][t][n] = @ + 1]
      BY <1>5, <3>1 DEF SaveBatch
    <3>3. rows'[c][t][n] > 0
      BY <2>3, <3>1, <3>2, RowsGrow
    <3> QED BY <3>3 DEF Held
  <2>5. n \in Nat /\ \A b \in 1 .. n : Held(c, t, b)'
    <3>1. n \in Nat
      BY <2>3 DEF BatchesOf
    <3>2. ASSUME NEW b \in 1 .. n PROVE Held(c, t, b)'
      <4>1. b = n \/ b \in 1 .. (n - 1)
        BY <3>1
      <4> QED BY <2>3, <2>4, <4>1, Zenon
    <3> QED BY <3>1, <3>2
  <2>6. CASE n + 1 <= Batches[PayloadAt[t]]
    BY <2>2, <2>5, <2>6
  <2>7. CASE ~(n + 1 <= Batches[PayloadAt[t]])
    <3>1. BatchesOf(t) \subseteq 1 .. n
      BY <2>3, <2>5, <2>7 DEF BatchesOf
    <3> QED BY <2>2, <2>5, <2>7, <3>1
  <2> QED BY <2>6, <2>7
<1>6. CASE job[s].step = "mark" /\ job'[s] = [job[s] EXCEPT !.step = "series"] /\ job[s].message.channel = AnyRealm
  <2>1. job[s] \in Jobs
    BY <1>6, JobIsTyped DEF At
  <2>2. job'[s].step = "series" /\ job'[s].time = job[s].time /\ job'[s].message = job[s].message
    BY <1>6, <2>1 DEF Jobs
  <2> QED BY <1>1, <1>6, <2>2
<1> QED BY <1>2, <1>3, <1>4, <1>5, <1>6, SaveSteps

LEMMA SeriesStays ==
  ASSUME Typed, BatchesAreSaved, SeriesIsWhole, [AuctionsNext]_auctionVars PROVE SeriesIsWhole'
<1> SUFFICES ASSUME NEW t \in series' PROVE Whole(t)'
  BY DEF SeriesIsWhole
<1>1. CASE t \in series
  BY <1>1, WholeForEver DEF SeriesIsWhole, Typed
<1>2. ASSUME NEW s \in Slots, MarkSeries(s), t = job[s].time PROVE Whole(t)'
  <2>1. job[s].step = "series" /\ t \in Times
    BY <1>2, JobIsTyped DEF MarkSeries, At, WithSnapshot
  <2>2. Whole(t)
    BY <1>2, <2>1 DEF BatchesAreSaved, Whole
  <2> QED BY <2>1, <2>2, WholeForEver
<1>3. series' \subseteq series \/ \E s \in Slots : MarkSeries(s) /\ series' = series \cup {job[s].time}
  BY DEF AuctionsNext, auctionVars, Tick, ExpireKeys, DeleteExpired, DrainQueue, IndexAuctions, IndexCommodity,
     Work, TakeMessage, RefuseMessage, Fetch, CheckHash, SaveBatch, MarkHash, MarkSeries, SetStamp, BatchIsLost, JobFails
<1> QED BY <1>1, <1>2, <1>3

(* The latest of some times is one of them.                                *)
LEMMA LeastNumber == ASSUME NEW S \in SUBSET Nat, S # {} PROVE \E x \in S : \A y \in S : x <= y
<1>1. IsWellFoundedOn(OpToRel(<, Nat), Nat)
  BY NatLessThanWellFounded, Zenon
<1>2. \E x \in S : \A y \in S : ~ (<<y, x>> \in OpToRel(<, Nat))
  BY <1>1, WFMin, Zenon
<1>3. OpToRel(<, Nat) = {ss \in Nat \X Nat : ss[1] < ss[2]}
  BY Zenon DEF OpToRel
<1>4. PICK x \in S : \A y \in S : ~ (<<y, x>> \in {ss \in Nat \X Nat : ss[1] < ss[2]})
  BY <1>2, <1>3, Zenon
<1>5. \A y \in S : ~(y < x)
  BY <1>4
<1> QED BY <1>5

LEMMA LatestIsOne == ASSUME NEW S \in SUBSET Times, S # {} PROVE LatestOf(S) \in S
<1> DEFINE left == {MaxTime - t : t \in S}
<1>1. MaxTime \in Nat /\ \A t \in S : t \in Nat /\ t <= MaxTime
  BY TimesAssumption DEF Times
<1>2. left \in SUBSET Nat /\ left # {}
  BY <1>1
<1>3. PICK x \in left : \A y \in left : x <= y
  BY <1>2, LeastNumber
<1>4. PICK t \in S : x = MaxTime - t
  BY <1>3
<1>5. \A u \in S : MaxTime - t <= MaxTime - u
  BY <1>3, <1>4
<1>6. \A u \in S : u <= t
  BY <1>1, <1>5
<1> QED BY <1>6 DEF LatestOf

RequestSteps == GetLatestTimestampCommodity \/ GetCached \/ PriceAxisCommodity \/ ProcessTimestampData \/ SetCached

LEMMA RequestChanges ==
  ASSUME [MarketNext]_marketVars
  PROVE  (request' = request /\ charts' = charts) \/ ((RequestSteps \/ ExpireChart) /\ UNCHANGED auctionVars)
<1>1. CASE ChartsNext
  BY <1>1, Zenon DEF ChartsNext, RequestSteps, GetLatestTimestampCommodity, GetCached, PriceAxisCommodity,
     ProcessTimestampData, SetCached, ExpireChart
<1>2. CASE UNCHANGED chartVars
  <2>1. request' = request /\ charts' = charts
    BY <1>2 DEF chartVars
  <2> QED BY <2>1
<1> QED BY <1>1, <1>2 DEF marketVars, MarketNext

LEMMA WholeUnchanged == ASSUME UNCHANGED auctionVars, NEW t PROVE (Whole(t) => Whole(t)') /\ (Expired(t) <=> Expired(t)')
BY DEF auctionVars, Whole, Held, Expired

(* A whole snapshot that has orders and has not expired is priced.         *)
LEMMA PointsOfWhole ==
  ASSUME NEW t \in Times, Whole(t), ~Expired(t), NEW b \in BatchesOf(t)
  PROVE  Listed(AnyRealm, t) /\ <<t, b>> \in {<<t, a>> : a \in {a \in BatchIds : rows[AnyRealm][t][a] > 0}}
<1>1. b \in BatchIds /\ rows[AnyRealm][t][b] > 0
  BY BatchesKnown DEF Whole, Held
<1> QED BY <1>1 DEF Listed

LEMMA RequestKeeps ==
  ASSUME Typed, RequestIsWhole, UNCHANGED request, [AuctionsNext]_auctionVars PROVE RequestIsWhole'
<1>1. CASE request = NoRequest
  BY <1>1 DEF RequestIsWhole, NoRequest
<1>2. CASE request # NoRequest
  <2>1. request.times \subseteq Times
    BY <1>2 DEF RequestIsWhole, RequestTimes, Reads
  <2>2. \A t \in request.times : Whole(t) /\ Whole(t)' /\ (Expired(t) => Expired(t)')
    BY <1>2, <2>1, WholeForEver, ExpiredForEver DEF RequestIsWhole
  <2>3. request' \in {NoRequest} \cup RequestTimes \cup Reads
    BY DEF RequestIsWhole
  <2>4. \A t \in request'.times : Whole(t)'
    BY <2>2
  <2>5. request'.step = "read" => \A t \in request'.times : t \notin request'.left =>
          Expired(t)' \/ \A b \in BatchesOf(t) : <<t, b>> \in request'.points
    BY <2>2 DEF RequestIsWhole
  <2> QED BY <2>3, <2>4, <2>5 DEF RequestIsWhole, Whole, Held, Expired, BatchesOf
<1> QED BY <1>1, <1>2

LEMMA RequestStays ==
  ASSUME Typed, SeriesIsWhole, RequestIsWhole, RequestSteps, UNCHANGED auctionVars PROVE RequestIsWhole'
<1>0. ASSUME NEW times \in SUBSET Times, \A t \in times : Whole(t), NEW request_ \in RequestTimes \cup Reads,
             request' = request_, request_.times = times,
             request_.step = "read" => \A t \in times : t \notin request_.left =>
               Expired(t) \/ \A b \in BatchesOf(t) : <<t, b>> \in request_.points
      PROVE  RequestIsWhole'
  <2>1. \A t \in times : Whole(t)' /\ (Expired(t) => Expired(t)')
    BY <1>0, WholeUnchanged
  <2> QED BY <1>0, <2>1 DEF RequestIsWhole, Whole, Held, Expired, BatchesOf
<1>1. CASE GetLatestTimestampCommodity
  <2> DEFINE r == [step |-> "cache", times |-> series]
  <2>1. request' = r /\ series \in SUBSET Times /\ \A t \in series : Whole(t)
    BY <1>1 DEF GetLatestTimestampCommodity, Typed, SeriesIsWhole
  <2>2. r \in RequestTimes /\ r.times = series /\ r.step # "read"
    BY <2>1 DEF RequestTimes
  <2> HIDE DEF r
  <2> QED BY <1>0, <2>1, <2>2
<1>2. CASE request' = NoRequest
  BY <1>2 DEF RequestIsWhole, NoRequest
<1>3. CASE GetCached /\ request' # NoRequest
  <2> DEFINE r == [step |-> "axis", times |-> request.times]
  <2>1. request' = r /\ request \in RequestTimes
    BY <1>3 DEF GetCached, RequestIsWhole, NoRequest, Reads
  <2>2. request.times \in SUBSET Times /\ \A t \in request.times : Whole(t)
    BY <2>1 DEF RequestIsWhole, RequestTimes, NoRequest
  <2>3. r \in RequestTimes /\ r.times = request.times /\ r.step # "read"
    BY <2>2 DEF RequestTimes
  <2> HIDE DEF r
  <2> QED BY <1>0, <2>1, <2>2, <2>3
<1>4. CASE PriceAxisCommodity
  <2> DEFINE priced == \E t \in Times : Listed(AnyRealm, t)
             r == [step |-> "read", times |-> request.times, left |-> IF priced THEN request.times ELSE {}, points |-> {}]
  <2>1. request' = r /\ request \in RequestTimes
    BY <1>4 DEF PriceAxisCommodity, RequestIsWhole, NoRequest, Reads
  <2>2. request.times \in SUBSET Times /\ \A t \in request.times : Whole(t)
    BY <2>1 DEF RequestIsWhole, RequestTimes, NoRequest
  <2>3. r \in Reads /\ r.times = request.times
    BY <2>2 DEF Reads
  <2>4. ASSUME NEW t \in request.times, t \notin r.left PROVE Expired(t) \/ \A b \in BatchesOf(t) : <<t, b>> \in r.points
    <3>1. ~priced
      BY <2>4
    <3> QED BY <2>2, <3>1, PointsOfWhole
  <2> HIDE DEF r
  <2> QED BY <1>0, <2>1, <2>2, <2>3, <2>4
<1>5. CASE ProcessTimestampData
  <2>1. request \in Reads
    BY <1>5 DEF ProcessTimestampData, RequestIsWhole, NoRequest, RequestTimes
  <2>2. request.times \in SUBSET Times /\ \A t \in request.times : Whole(t)
    BY <2>1 DEF RequestIsWhole, Reads, NoRequest
  <2>3. PICK u \in request.left : request' = [request EXCEPT !.left = @ \ {u},
          !.points = @ \cup {<<u, b>> : b \in {b \in BatchIds : rows[AnyRealm][u][b] > 0}}]
    BY <1>5 DEF ProcessTimestampData
  <2> DEFINE seen == {<<u, b>> : b \in {b \in BatchIds : rows[AnyRealm][u][b] > 0}}
             r == [request EXCEPT !.left = @ \ {u}, !.points = @ \cup seen]
  <2>4. u \in Times /\ seen \subseteq Times \X BatchIds
    BY <2>1 DEF Reads
  <2>5. r.left = request.left \ {u} /\ r.points = request.points \cup seen /\ r.times = request.times
        /\ r \in Reads /\ request' = r
    <3>1. request' = r
      BY <2>3
    <3> HIDE DEF seen
    <3> QED BY <2>1, <2>4, <3>1 DEF Reads
  <2> HIDE DEF r
  <2>6. ASSUME NEW t \in request.times, t \notin r.left PROVE Expired(t) \/ \A b \in BatchesOf(t) : <<t, b>> \in r.points
    <3>1. CASE t = u
      BY <2>2, <2>5, <2>6, <3>1, PointsOfWhole
    <3>2. CASE t # u
      <4>1. t \notin request.left /\ request.step = "read"
        BY <2>1, <2>5, <2>6, <3>2 DEF Reads
      <4> HIDE DEF seen
      <4> QED BY <2>5, <4>1 DEF RequestIsWhole
    <3> QED BY <3>1, <3>2
  <2> QED BY <1>0, <2>2, <2>5, <2>6
<1> QED BY <1>1, <1>2, <1>3, <1>4, <1>5 DEF RequestSteps, SetCached

LEMMA ChartsStay ==
  ASSUME Typed, ChartsInv, [MarketNext]_marketVars PROVE CachedChartsAreWhole' /\ charts' = [k \in 0 .. MaxTime |-> charts'[k]]
<1>1. [AuctionsNext]_auctionVars /\ enabled' = enabled
  BY MarketSteps, EnabledStays
<1>2. \A k \in Times : k \in 0 .. MaxTime /\ (Expired(k) => Expired(k)')
  BY <1>1, ExpiredForEver, TimesAssumption DEF Times
<1>3. CASE charts' = charts
  BY <1>1, <1>2, <1>3 DEF ChartsInv, CachedChartsAreWhole
<1>4. CASE ExpireChart
  <2>1. PICK k \in 0 .. MaxTime : charts' = [charts EXCEPT ![k] = NoChart]
    BY <1>4 DEF ExpireChart
  <2>2. \A j \in Times : charts'[j] = charts[j] \/ ~charts'[j].cached
    BY <1>2, <2>1 DEF ChartsInv, NoChart
  <2> QED BY <1>1, <1>2, <2>1, <2>2 DEF ChartsInv, CachedChartsAreWhole
<1>5. CASE SetCached
  <2> DEFINE c == [times |-> TrimEmptyXMargins(request.times, request.points), points |-> request.points, cached |-> TRUE]
  <2>1. charts' = [charts EXCEPT ![LatestOf(request.times)] = c] /\ request.step = "read" /\ request.left = {}
    BY <1>5 DEF SetCached
  <2>2. request \in Reads
    BY <2>1 DEF ChartsInv, RequestIsWhole, NoRequest, RequestTimes
  <2>3. c.points = request.points /\ c.times = TrimEmptyXMargins(request.times, request.points)
    OBVIOUS
  <2> HIDE DEF c
  <2>4. ASSUME NEW k \in Times, charts'[k] # charts[k], ~Expired(k), Batches[PayloadAt[k]] > 0
        PROVE  k \in charts'[k].times /\ \A b \in BatchesOf(k) : <<k, b>> \in charts'[k].points
    <3>1. k = LatestOf(request.times) /\ charts'[k] = c
      BY <1>2, <2>1, <2>4 DEF ChartsInv
    <3>2. k \in request.times
      <4>1. request.times \in SUBSET Times /\ k # 0
        BY <2>2, TimesAreNat DEF Reads
      <4>2. request.times # {}
        BY <3>1, <4>1 DEF LatestOf
      <4> QED BY <3>1, <4>1, <4>2, LatestIsOne
    <3>3. \A b \in BatchesOf(k) : <<k, b>> \in request.points
      BY <2>1, <2>4, <3>2 DEF ChartsInv, RequestIsWhole
    <3>4. 1 \in BatchesOf(k) /\ k \in Nat
      BY <2>4, BatchesKnown, TimesAreNat DEF BatchesOf
    <3>5. k \in TrimEmptyXMargins(request.times, request.points)
      <4>1. k \in {p[1] : p \in request.points}
        <5>1. <<k, 1>> \in request.points /\ <<k, 1>>[1] = k
          BY <3>3, <3>4
        <5> QED BY <5>1
      <4> QED BY <3>2, <3>4, <4>1 DEF TrimEmptyXMargins
    <3> QED BY <2>3, <3>1, <3>3, <3>5
  <2>5. charts' = [k \in 0 .. MaxTime |-> charts'[k]]
    BY <2>1 DEF ChartsInv
  <2>6. CachedChartsAreWhole'
    BY <1>1, <1>2, <2>4 DEF ChartsInv, CachedChartsAreWhole, BatchesOf
  <2> QED BY <2>5, <2>6
<1>6. charts' = charts \/ ExpireChart \/ SetCached
  BY RequestChanges DEF RequestSteps, GetLatestTimestampCommodity, GetCached, PriceAxisCommodity, ProcessTimestampData
<1> QED BY <1>3, <1>4, <1>5, <1>6

(* Where no batch is lost, the chart that is served for the latest         *)
(* timestamp shows every batch of that snapshot.                           *)
THEOREM CachedChartsHold == MarketSpec => []CachedChartsAreWhole
<1> DEFINE Inv == Typed /\ ("lossy" \in enabled \/ ChartsInv)
<1>1. MarketInit => Inv
  <2> SUFFICES ASSUME MarketInit PROVE Typed /\ ChartsInv
    OBVIOUS
  <2>1. Typed
    BY TypedInit DEF MarketInit
  <2>2. ChartsInv
    BY DEF MarketInit, AuctionsInit, ChartsInit, Idle, NoRequest, NoChart, ChartsInv, BatchesAreSaved, SeriesIsWhole,
       RequestIsWhole, CachedChartsAreWhole, Times
  <2> QED BY <2>1, <2>2
<1>2. Inv /\ [MarketNext]_marketVars => Inv'
  <2> SUFFICES ASSUME Inv, [MarketNext]_marketVars PROVE Inv'
    OBVIOUS
  <2>1. Typed' /\ enabled' = enabled /\ [AuctionsNext]_auctionVars
    BY MarketSteps, TypedSteps, EnabledStays
  <2>2. CASE "lossy" \in enabled
    BY <2>1, <2>2
  <2>3. CASE "lossy" \notin enabled
    <3>1. BatchesAreSaved' /\ SeriesIsWhole'
      BY <2>1, <2>3, BatchesStay, SeriesStays DEF ChartsInv
    <3>2. RequestIsWhole'
      BY <2>1, <2>3, RequestChanges, RequestKeeps, RequestStays DEF ChartsInv, ExpireChart
    <3>3. CachedChartsAreWhole' /\ charts' = [k \in 0 .. MaxTime |-> charts'[k]]
      BY <2>3, ChartsStay
    <3> QED BY <2>1, <3>1, <3>2, <3>3 DEF ChartsInv
  <2> QED BY <2>2, <2>3
<1>3. Inv => CachedChartsAreWhole
  BY DEF ChartsInv, CachedChartsAreWhole
<1> QED BY <1>1, <1>2, <1>3, PTL DEF MarketSpec
=============================================================================
