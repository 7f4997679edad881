------------------------------ MODULE Auctions ------------------------------
(***************************************************************************)
(* The ingestion of auction snapshots: apps/market's AuctionsService puts  *)
(* one message per due realm on the queue "dma.auctions", the concurrent   *)
(* workers of apps/dma (AuctionsWorker) ask Battle.net for the realm's     *)
(* snapshot if it is newer than the message says, save it batch by batch   *)
(* into the market table and then leave three traces: the marker of the    *)
(* payload's hash in Redis, the series key of a commodity's timestamp in   *)
(* Redis, and the realm's timestamp in Postgres.                           *)
(*                                                                         *)
(* Time is counted in ticks of half an hour, the age at which a realm is   *)
(* due; Day ticks make the 24 hours after which rows and keys expire.      *)
(* An order's content is abstracted to the batch it is saved with.         *)
(***************************************************************************)
EXTENDS Naturals, Sequences, FiniteSets, SequencesExt

CONSTANTS Realms,    \* connected realms
          AnyRealm,       \* REALM_ENTITY_ANY, the channel of commodities
          Slots,     \* jobs that run at once (the worker's concurrency)
          MaxTime,   \* the last tick
          Day,       \* ticks in 24 hours
          PayloadAt, \* what is published at a tick: the same payload may come twice
          Batches,   \* Batches[p]: the number of batches of payload p, 0 for an empty one
          Bounds,    \* Bounds[e]: the bounds [ticks, faults] of deployment e, the set of what
                     \* dmaConfig enables, "auctions" and "commodity", and of the services
                     \* that run; "lossy" where the save of a batch may fail.  Faults are
                     \* requests and processes that fail and queues that pile up.
          Attempts,  \* attempts of a job
          MaxQueue   \* bound: messages that wait

Channels == Realms \cup {AnyRealm}
Times == 1 .. MaxTime
Payloads == {PayloadAt[t] : t \in Times}
BatchIds == UNION {1 .. Batches[p] : p \in Payloads}

ASSUME TimesAssumption == MaxTime \in Nat \ {0} /\ Day \in Nat \ {0}
ASSUME BoundsAssumption == \A e \in DOMAIN Bounds : Bounds[e].ticks \in Times
ASSUME RealmsAssumption == IsFiniteSet(Realms)
ASSUME PayloadsAssumption == /\ DOMAIN PayloadAt = Times
                             /\ Batches \in [Payloads -> Nat]
                             /\ AnyRealm \notin Realms

VARIABLES enabled,   \* isIndexAuctions and isIndexCommodity of this deployment
          now,       \* the current tick
          published, \* published[c]: the Last-Modified of c's snapshot at Battle.net
          stamp,     \* stamp[c]: the realm's auctionsTimestamp or commoditiesTimestamp
          waiting,   \* the messages that wait in the queue
          job,       \* job[s]: what slot s works on
          rows,      \* rows[c][t][b]: how often batch b of snapshot t is in the table
          hashes,    \* hashes[c][p]: the tick of the snapshot of c that marked payload p, or 0
          series,    \* the ticks that have a COMMODITY:TS key
          drained,   \* indexAuctions stands between its drain and its query
          faults     \* faults so far

auctionVars == <<enabled, now, published, stamp, waiting, job, rows, hashes, series, drained, faults>>

Indexed(c) == (IF c = AnyRealm THEN "commodity" ELSE "auctions") \in enabled

Message(c) == [channel |-> c, since |-> stamp[c], attempt |-> 1]

Idle == [step |-> "idle"]

(* The market table without an order, and a realm's column by default. *)
NoRows == [t \in Times |-> [b \in BatchIds |-> 0]]
NeverStamped == 0

AuctionsInit ==
  /\ enabled \in DOMAIN Bounds
  /\ now = 1
  /\ published = [c \in Channels |-> 1]
  /\ stamp \in [Channels -> {NeverStamped, 1}]
  /\ \A c \in Channels : ~Indexed(c) => stamp[c] = NeverStamped
  /\ waiting = <<>>
  /\ job = [s \in Slots |-> Idle]
  /\ rows = [c \in Channels |-> NoRows]
  /\ hashes = [c \in Channels |-> [p \in Payloads |-> 0]]
  /\ series = {}
  /\ drained = FALSE
  /\ faults = 0

-----------------------------------------------------------------------------
(* The environment: time passes and Battle.net publishes.                  *)

(* With half an hour some of the snapshots that are asked for come out. *)
Tick ==
  /\ now < Bounds[enabled].ticks
  /\ now' = now + 1
  /\ \E out \in SUBSET {c \in Channels : Indexed(c)} :
       published' = [c \in Channels |-> IF c \in out THEN now' ELSE published[c]]
  /\ UNCHANGED <<enabled, stamp, waiting, job, rows, hashes, series, drained, faults>>

Expired(t) == t + Day < now

(* Redis forgets the keys that were set 24 hours ago. *)
ExpireKeys ==
  /\ series' = {t \in series : ~Expired(t)}
  /\ hashes' = [c \in Channels |-> [p \in Payloads |->
                  IF Expired(hashes[c][p]) THEN 0 ELSE hashes[c][p]]]
  /\ <<series', hashes'>> # <<series, hashes>>
  /\ UNCHANGED <<enabled, now, published, stamp, waiting, job, rows, drained, faults>>

(* deleteExpiredMarketData, every 12 hours. *)
DeleteExpired ==
  /\ rows' = [c \in Channels |-> [t \in Times |->
                IF Expired(t) THEN [b \in BatchIds |-> 0] ELSE rows[c][t]]]
  /\ rows' # rows
  /\ UNCHANGED <<enabled, now, published, stamp, waiting, job, hashes, series, drained, faults>>

-----------------------------------------------------------------------------
(* The scheduler.                                                          *)

(* Five or ten minutes after a cron's last run nothing waits any more, or  *)
(* it counts as a fault that the workers have not kept up.                 *)
MinutesLater ==
  /\ faults' = IF waiting = <<>> THEN faults ELSE faults + 1
  /\ faults' <= Bounds[enabled].faults

(* Waiting and delayed messages are dropped; active jobs stay. *)
DrainQueue ==
  /\ "auctions" \in enabled /\ ~drained
  /\ drained' = TRUE
  /\ MinutesLater
  /\ waiting' = <<>>
  /\ UNCHANGED <<enabled, now, published, stamp, job, rows, hashes, series>>

Due == {r \in Realms : stamp[r] < now}

IndexAuctions ==
  /\ drained
  /\ drained' = FALSE
  /\ Len(waiting) + Cardinality(Due) <= MaxQueue
  /\ waiting' = waiting \o [i \in 1 .. Cardinality(Due) |-> Message(SetToSeq(Due)[i])]
  /\ UNCHANGED <<enabled, now, published, stamp, job, rows, hashes, series, faults>>

(* Commodities are asked for every five minutes, due or not. *)
IndexCommodity ==
  /\ "commodity" \in enabled
  /\ MinutesLater /\ Len(waiting) < MaxQueue
  /\ waiting' = Append(waiting, Message(AnyRealm))
  /\ UNCHANGED <<enabled, now, published, stamp, job, rows, hashes, series, drained>>

-----------------------------------------------------------------------------
(* The worker.                                                             *)

Goto(s, j) == job' = [job EXCEPT ![s] = j]

At(s, step) == job[s].step = step

(* A job that throws waits for its next attempt, unless it was the last. *)
Fails(s, m) ==
  /\ Goto(s, Idle)
  /\ m.attempt < Attempts => Len(waiting) < MaxQueue
  /\ waiting' = IF m.attempt < Attempts
                THEN Append(waiting, [m EXCEPT !.attempt = @ + 1]) ELSE waiting

(* A message without a timestamp is an error, and 0 is no timestamp. *)
TakeMessage(s) ==
  /\ At(s, "idle") /\ waiting # <<>>
  /\ LET m == Head(waiting) IN
       /\ m.since # 0
       /\ Goto(s, [step |-> "fetch", message |-> m, time |-> 0, batch |-> 1, persisted |-> FALSE])
       /\ waiting' = Tail(waiting)
  /\ UNCHANGED <<enabled, now, published, stamp, rows, hashes, series, drained, faults>>

RefuseMessage(s) ==
  /\ At(s, "idle") /\ waiting # <<>>
  /\ LET m == Head(waiting) IN
       /\ m.since = 0
       /\ waiting' = IF m.attempt < Attempts
                     THEN Append(Tail(waiting), [m EXCEPT !.attempt = @ + 1]) ELSE Tail(waiting)
  /\ UNCHANGED <<enabled, now, published, stamp, job, rows, hashes, series, drained, faults>>

(* If-Modified-Since: a snapshot that is not newer is answered with 304. *)
Fetch(s) ==
  /\ At(s, "fetch")
  /\ LET m == job[s].message IN
       Goto(s, IF published[m.channel] > m.since
               THEN [job[s] EXCEPT !.step = "check", !.time = published[m.channel]] ELSE Idle)
  /\ UNCHANGED <<enabled, now, published, stamp, waiting, rows, hashes, series, drained, faults>>

PayloadOf(s) == PayloadAt[job[s].time]

NextBatch(s, b, persisted) ==
  [job[s] EXCEPT !.step = IF b <= Batches[PayloadOf(s)] THEN "save" ELSE "mark",
                 !.batch = b, !.persisted = persisted]

\* mutant: the series key is set before the orders are saved.
CheckHashAndMarkSeries(s) ==
  /\ At(s, "check")
  /\ Goto(s, IF hashes[job[s].message.channel][PayloadOf(s)] # 0 THEN Idle ELSE NextBatch(s, 1, FALSE))
  /\ series' = IF job[s].message.channel = AnyRealm THEN series \cup {job[s].time} ELSE series
  /\ UNCHANGED <<enabled, now, published, stamp, waiting, rows, hashes, drained, faults>>

\* mutant: the payload is marked when it is looked for, not when it is saved.
CheckAndMarkHash(s) ==
  /\ At(s, "check")
  /\ Goto(s, IF hashes[job[s].message.channel][PayloadOf(s)] # 0 THEN Idle ELSE NextBatch(s, 1, FALSE))
  /\ hashes' = [hashes EXCEPT ![job[s].message.channel][PayloadOf(s)] = IF @ = 0 THEN job[s].time ELSE @]
  /\ UNCHANGED <<enabled, now, published, stamp, waiting, rows, series, drained, faults>>

CheckHash(s) ==
  /\ At(s, "check")
  /\ Goto(s, IF hashes[job[s].message.channel][PayloadOf(s)] # 0 THEN Idle ELSE NextBatch(s, 1, FALSE))
  /\ UNCHANGED <<enabled, now, published, stamp, waiting, rows, hashes, series, drained, faults>>

SaveBatch(s) ==
  /\ At(s, "save")
  /\ rows' = [rows EXCEPT ![job[s].message.channel][job[s].time][job[s].batch] = @ + 1]
  /\ Goto(s, NextBatch(s, job[s].batch + 1, TRUE))
  /\ UNCHANGED <<enabled, now, published, stamp, waiting, hashes, series, drained, faults>>

(* A batch whose save throws is logged and skipped. *)
BatchIsLost(s) ==
  /\ At(s, "save")
  /\ "lossy" \in enabled /\ faults < Bounds[enabled].faults
  /\ faults' = faults + 1
  /\ Goto(s, NextBatch(s, job[s].batch + 1, job[s].persisted))
  /\ UNCHANGED <<enabled, now, published, stamp, waiting, rows, hashes, series, drained>>

\* mutant: the payload is marked whether a batch was saved or not.
MarkHashAlways(s) ==
  /\ At(s, "mark")
  /\ hashes' = [hashes EXCEPT ![job[s].message.channel][PayloadOf(s)] = job[s].time]
  /\ Goto(s, [job[s] EXCEPT !.step = IF job[s].message.channel = AnyRealm THEN "series" ELSE "stamp"])
  /\ UNCHANGED <<enabled, now, published, stamp, waiting, rows, series, drained, faults>>

MarkHash(s) ==
  /\ At(s, "mark")
  /\ hashes' = [hashes EXCEPT ![job[s].message.channel][PayloadOf(s)] =
                   IF job[s].persisted THEN job[s].time ELSE @]
  /\ Goto(s, [job[s] EXCEPT !.step = IF job[s].message.channel = AnyRealm THEN "series" ELSE "stamp"])
  /\ UNCHANGED <<enabled, now, published, stamp, waiting, rows, series, drained, faults>>

MarkSeries(s) ==
  /\ At(s, "series")
  /\ series' = series \cup {job[s].time}
  /\ Goto(s, [job[s] EXCEPT !.step = "stamp"])
  /\ UNCHANGED <<enabled, now, published, stamp, waiting, rows, hashes, drained, faults>>

(* The realm's timestamp is written even when no batch was saved. *)
SetStamp(s) ==
  /\ At(s, "stamp")
  /\ stamp' = [stamp EXCEPT ![job[s].message.channel] = job[s].time]
  /\ Goto(s, Idle)
  /\ UNCHANGED <<enabled, now, published, waiting, rows, hashes, series, drained, faults>>

(* A request fails, a statement outside a batch throws, or the process dies. *)
JobFails(s) ==
  /\ ~At(s, "idle")
  /\ faults < Bounds[enabled].faults
  /\ faults' = faults + 1
  /\ Fails(s, job[s].message)
  /\ UNCHANGED <<enabled, now, published, stamp, rows, hashes, series, drained>>

Work(s) == \/ TakeMessage(s) \/ RefuseMessage(s) \/ Fetch(s) \/ CheckHash(s) \/ SaveBatch(s)
           \/ MarkHash(s) \/ MarkSeries(s) \/ SetStamp(s)

AuctionsNext ==
  \/ Tick \/ ExpireKeys \/ DeleteExpired \/ DrainQueue \/ IndexAuctions \/ IndexCommodity
  \/ \E s \in Slots : Work(s) \/ BatchIsLost(s) \/ JobFails(s)

(* The crons fire for ever, free slots take what waits and a job that runs *)
(* goes on. The adds of the crons and the takes of a slot are each delayed *)
(* by the others for a moment only: their fairness is strong.              *)
AuctionsFairness ==
  /\ SF_auctionVars(DrainQueue) /\ SF_auctionVars(IndexAuctions) /\ SF_auctionVars(IndexCommodity)
  /\ WF_auctionVars(ExpireKeys)
  /\ \A s \in Slots : /\ SF_auctionVars(TakeMessage(s)) /\ SF_auctionVars(RefuseMessage(s))
                      /\ WF_auctionVars(~At(s, "idle") /\ Work(s))

AuctionsSpec == AuctionsInit /\ [][AuctionsNext]_auctionVars /\ AuctionsFairness

-----------------------------------------------------------------------------
Listed(c, t) == \E b \in BatchIds : rows[c][t][b] > 0

(* A payload whose hash is marked is in the market table under the         *)
(* snapshot that marked it until the 24 hours are over, whatever failed    *)
(* and was retried meanwhile: a marked payload is not read again.          *)
MarkedPayloadsAreListed ==
  \A c \in Channels, p \in Payloads :
    LET t == hashes[c][p] IN t # 0 /\ ~Expired(t) => PayloadAt[t] = p /\ Listed(c, t)

(* A snapshot that stays published reaches the table, under its own or an  *)
(* earlier timestamp, of every realm that ever had a timestamp, when no    *)
(* batch fails: no marker, timestamp or failed job hides it for ever.      *)
SnapshotsArrive ==
  \A c \in Channels :
    stamp[c] # 0 /\ Indexed(c) =>
      <>[](\/ \E t \in Times : PayloadAt[t] = PayloadAt[published[c]] /\ Listed(c, t)
           \/ Batches[PayloadAt[published[c]]] = 0
           \/ published[c] = 1 \/ Expired(published[c]))
=============================================================================
