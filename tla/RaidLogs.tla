------------------------------ MODULE RaidLogs ------------------------------
(***************************************************************************)
(* The raid logs of apps/warcraft-logs: runs of indexWarcraftLogs page      *)
(* through a site's listing and save the logs they find, runs of indexLogs  *)
(* fetch the characters of the saved logs and queue them for the OSINT      *)
(* workers, and a migration at boot fills in the realms of older rows.      *)
(*                                                                         *)
(* Cron starts a run whether or not the one before has ended.  Each kind of *)
(* run has a Redis key for a lock: a run that finds it set goes straight to *)
(* its `finally`, which deletes the key all the same, and the key expires.  *)
(* A run is a slot (Lister, Indexer) with the record of what it has read    *)
(* and the step that it awaits.                                            *)
(*                                                                         *)
(* The site lists a realm's logs newest first, so a page shifts as logs are *)
(* published.  The table characters_raid_logs has no unique index: it maps  *)
(* a log to the sequence of its rows.  HTML, GraphQL, the login, headers    *)
(* and what a character's job holds are left out.                          *)
(***************************************************************************)
EXTENDS Naturals, Sequences, FiniteSets

CONSTANTS
  Log,                 \* log ids
  Realm,               \* the realms that have a warcraftLogsId, and their slugs
  Lister, Indexer,     \* slots for the runs that exist at the same time
  Char,                \* characters
  LogCharacters,       \* the characters a log's reports name
  PageSize,            \* logs on a page of the site
  FromPage, ToPage,    \* osintConfig.wclFromPage, wclToPage
  Tolerance,           \* osintConfig.wclLogs
  TakeLimit,           \* logs one run of indexLogs takes
  InitialSite, InitialRows,  \* what is listed and saved when the service boots
  MaxFaults,           \* bound: failed queries and requests, dead processes
  MaxExpiries,         \* bound: keys that expire
  NoRealm

Row == [isIndexed : BOOLEAN, realmSlug : Realm \cup {NoRealm}]

\* at most two logs of a run are in work: mergeMap's concurrency
Concurrency == 2

ASSUME ConstantsAssumption ==
  /\ IsFiniteSet(Lister) /\ Lister # {}
  /\ LogCharacters \in [Log -> SUBSET Char]
  /\ {PageSize, FromPage, ToPage, Tolerance, TakeLimit, MaxFaults, MaxExpiries} \subseteq Nat
  /\ PageSize > 0 /\ FromPage > 0 /\ TakeLimit > 0
  /\ NoRealm \notin Realm
  /\ InitialSite \in [Realm -> Seq(Log)]
  /\ InitialRows \in [Log -> Seq(Row)]
  /\ \A g \in Log : Len(InitialRows[g]) <= 1

VARIABLES
  site,        \* the logs each realm's pages list, newest first
  rows,        \* the rows of each log in characters_raid_logs
  listingLock, indexingLock,  \* the two Redis keys
  lister,      \* the runs of indexWarcraftLogs
  migration,   \* the run of backfillRealmSlug
  indexer,     \* the runs of indexLogs
  queued,      \* the characters handed to the queue osint.characters
  faults, expiries

keys == <<listingLock, indexingLock, expiries>>
vars == <<site, rows, keys, lister, migration, indexer, queued, faults>>

Listed == UNION {{site[r][i] : i \in DOMAIN site[r]} : r \in Realm}

Known(g) == rows[g] # <<>>

Unindexed(g) == \E i \in DOMAIN rows[g] : ~rows[g][i].isIndexed

Indexed(g) == \E i \in DOMAIN rows[g] : rows[g][i].isIndexed

\* the p-th page of a realm; a page behind the last one is empty
LogsOnPage(r, p) ==
  LET size == Len(site[r])
  IN SubSeq(site[r], (p - 1) * PageSize + 1, IF p * PageSize < size THEN p * PageSize ELSE size)

\* the rows of the logs with their realm set, and with isIndexed set
WithRealm(logs, r) ==
  [g \in Log |-> IF g \in logs THEN [i \in DOMAIN rows[g] |-> [rows[g][i] EXCEPT !.realmSlug = r]]
                               ELSE rows[g]]

WithIndexed(logs) ==
  [g \in Log |-> IF g \in logs THEN [i \in DOMAIN rows[g] |-> [rows[g][i] EXCEPT !.isIndexed = TRUE]]
                               ELSE rows[g]]

LacksRealm(g) == \E i \in DOMAIN rows[g] : rows[g][i].realmSlug = NoRealm

\* a run that is not there
NoListing == [step |-> "idle", todo |-> {}, realm |-> NoRealm, page |-> 0, logs |-> <<>>, exists |-> 0]

NoMigration == [step |-> "count", todo |-> {}, realm |-> NoRealm, page |-> 0, logs |-> {}]

NoIndexing == [step |-> "idle", todo |-> {}, jobs |-> {}]

Init ==
  /\ site = InitialSite
  /\ rows = InitialRows
  /\ listingLock = FALSE
  /\ indexingLock = FALSE
  /\ lister = [x \in Lister |-> NoListing]
  /\ migration = NoMigration
  /\ indexer = [x \in Indexer |-> NoIndexing]
  /\ queued = UNION {LogCharacters[g] : g \in {h \in Log : Indexed(h)}}
  /\ faults = 0
  /\ expiries = 0

-----------------------------------------------------------------------------
(* The site and Redis                                                      *)

\* somebody uploads a log
Publish(r, g) ==
  /\ g \notin Listed /\ ~Known(g)
  /\ site' = [site EXCEPT ![r] = <<g>> \o @]
  /\ UNCHANGED <<rows, keys, lister, migration, indexer, queued, faults>>

\* EX: a run may last longer than its key
Expire ==
  /\ expiries < MaxExpiries
  /\ expiries' = expiries + 1
  /\ \/ listingLock /\ listingLock' = FALSE /\ UNCHANGED indexingLock
     \/ indexingLock /\ indexingLock' = FALSE /\ UNCHANGED listingLock
  /\ UNCHANGED <<site, rows, lister, migration, indexer, queued, faults>>

-----------------------------------------------------------------------------
(* indexWarcraftLogs                                                       *)

\* the run x awaited its step and goes on as the record run
Lists(x, run) ==
  /\ lister' = [lister EXCEPT ![x] = run]
  /\ UNCHANGED <<site, migration, indexer, indexingLock, expiries, queued>>

\* cron, or the end of the boot's indexLogs
StartListing(x) ==
  /\ lister[x].step = "idle"
  /\ Lists(x, [NoListing EXCEPT !.step = "check"])
  /\ UNCHANGED <<rows, listingLock, faults>>

CheckListingLock(x) ==
  /\ lister[x].step = "check"
  /\ Lists(x, [lister[x] EXCEPT !.step = IF listingLock THEN "release" ELSE "lock"])
  /\ UNCHANGED <<rows, listingLock, faults>>

LockListing(x) ==
  /\ lister[x].step = "lock"
  /\ listingLock' = TRUE
  /\ Lists(x, [lister[x] EXCEPT !.step = "realm", !.todo = Realm])
  /\ UNCHANGED <<rows, faults>>

\* mutant: the count of known logs is not reset between realms
NextRealmKeepingCount(x) ==
  /\ lister[x].step = "realm"
  /\ IF lister[x].todo = {}
       THEN Lists(x, [lister[x] EXCEPT !.step = "release"])
       ELSE \E r \in lister[x].todo :
              Lists(x, [lister[x] EXCEPT !.step = "page", !.todo = @ \ {r}, !.realm = r,
                                         !.page = FromPage])
  /\ UNCHANGED <<rows, listingLock, faults>>

\* indexCharacterRaidLogs of the next realm, if any
NextRealm(x) ==
  /\ lister[x].step = "realm"
  /\ IF lister[x].todo = {}
       THEN Lists(x, [lister[x] EXCEPT !.step = "release"])
       ELSE \E r \in lister[x].todo :
              Lists(x, [lister[x] EXCEPT !.step = "page", !.todo = @ \ {r}, !.realm = r,
                                         !.page = FromPage, !.exists = 0])
  /\ UNCHANGED <<rows, listingLock, faults>>

\* the realm is done after the last page, an empty one, or too many known logs
ReadPage(x) ==
  /\ lister[x].step = "page"
  /\ LET logs == LogsOnPage(lister[x].realm, lister[x].page)
         isDone == \/ lister[x].page >= ToPage
                   \/ lister[x].exists > Tolerance
                   \/ logs = <<>>
     IN Lists(x, [lister[x] EXCEPT !.step = IF isDone THEN "realm" ELSE "log",
                                   !.logs = IF isDone THEN <<>> ELSE logs])
  /\ UNCHANGED <<rows, listingLock, faults>>

NextLog(run) == [run EXCEPT !.step = "log", !.logs = Tail(@)]

\* mutant: only an indexed row counts as one that exists
FindIndexedLog(x) ==
  /\ lister[x].step = "log"
  /\ LET run == lister[x]
         g == Head(run.logs)
     IN IF run.logs = <<>> THEN Lists(x, [run EXCEPT !.step = "page", !.page = @ + 1])
        ELSE IF ~Indexed(g) THEN Lists(x, [run EXCEPT !.step = "save"])
        ELSE Lists(x, [NextLog(run) EXCEPT !.exists = @ + 1])
  /\ UNCHANGED <<rows, listingLock, faults>>

\* findOne of the next log: any of its rows, were there several
FindLog(x) ==
  /\ lister[x].step = "log"
  /\ LET run == lister[x]
         g == Head(run.logs)
     IN IF run.logs = <<>> THEN Lists(x, [run EXCEPT !.step = "page", !.page = @ + 1])
        ELSE IF ~Known(g) THEN Lists(x, [run EXCEPT !.step = "save"])
        ELSE \E i \in DOMAIN rows[g] :
               Lists(x, IF rows[g][i].realmSlug = NoRealm
                          THEN [run EXCEPT !.step = "slug", !.exists = @ + 1]
                          ELSE [NextLog(run) EXCEPT !.exists = @ + 1])
  /\ UNCHANGED <<rows, listingLock, faults>>

\* a known log without a realm gets it
UpdateSlug(x) ==
  /\ lister[x].step = "slug"
  /\ rows' = WithRealm({Head(lister[x].logs)}, lister[x].realm)
  /\ Lists(x, NextLog(lister[x]))
  /\ UNCHANGED <<listingLock, faults>>

\* a new log takes one off the count of known ones
SaveLog(x) ==
  /\ lister[x].step = "save"
  /\ rows' = [rows EXCEPT ![Head(lister[x].logs)] =
                Append(@, [isIndexed |-> FALSE, realmSlug |-> lister[x].realm])]
  /\ Lists(x, [NextLog(lister[x]) EXCEPT !.exists = IF @ > 1 THEN @ - 1 ELSE @])
  /\ UNCHANGED <<listingLock, faults>>

\* finally: the run deletes the key, also when it found it set by another run
ReleaseListing(x) ==
  /\ lister[x].step = "release"
  /\ listingLock' = FALSE
  /\ Lists(x, NoListing)
  /\ UNCHANGED <<rows, faults>>

Fault == faults < MaxFaults /\ faults' = faults + 1

\* a page that cannot be read counts as an empty one, a query that fails ends
\* the realm; outside indexCharacterRaidLogs it ends the run
ListingFails(x) ==
  /\ Fault
  /\ lister[x].step \notin {"idle", "release"}
  /\ Lists(x, [lister[x] EXCEPT
                 !.step = IF @ \in {"check", "lock", "realm"} THEN "release" ELSE "realm",
                 !.logs = <<>>])
  /\ UNCHANGED <<rows, listingLock>>

-----------------------------------------------------------------------------
(* backfillRealmSlug                                                       *)

Migrates(run) ==
  /\ migration' = run
  /\ UNCHANGED <<site, lister, indexer, indexingLock, expiries, queued>>

\* it does not wait for a listing: it is skipped until the next boot
CheckMigration ==
  /\ migration.step \in {"count", "check"}
  /\ LET isSkipped == IF migration.step = "count" THEN \A g \in Log : ~LacksRealm(g)
                                                 ELSE listingLock
     IN Migrates([migration EXCEPT !.step = IF isSkipped THEN "done"
                                            ELSE IF @ = "count" THEN "check" ELSE "lock"])
  /\ UNCHANGED <<rows, listingLock, faults>>

LockMigration ==
  /\ migration.step = "lock"
  /\ listingLock' = TRUE
  /\ Migrates([migration EXCEPT !.step = "realm", !.todo = Realm])
  /\ UNCHANGED <<rows, faults>>

NextMigrationRealm ==
  /\ migration.step = "realm"
  /\ IF migration.todo = {}
       THEN Migrates([migration EXCEPT !.step = "release"])
       ELSE \E r \in migration.todo :
              Migrates([migration EXCEPT !.step = "page", !.todo = @ \ {r}, !.realm = r, !.page = 1])
  /\ UNCHANGED <<rows, listingLock, faults>>

\* backfillRealm reads pages until one is empty
ReadMigrationPage ==
  /\ migration.step = "page"
  /\ LET logs == LogsOnPage(migration.realm, migration.page)
     IN Migrates([migration EXCEPT !.step = IF logs = <<>> THEN "realm" ELSE "find",
                                   !.logs = {logs[i] : i \in DOMAIN logs}])
  /\ UNCHANGED <<rows, listingLock, faults>>

\* mutant: a page without missing realms ends the realm
FindMissingSlugsOrStop ==
  /\ migration.step = "find"
  /\ LET missing == {g \in migration.logs : LacksRealm(g)}
     IN Migrates([migration EXCEPT !.step = IF missing = {} THEN "realm" ELSE "update",
                                   !.logs = missing])
  /\ UNCHANGED <<rows, listingLock, faults>>

\* the logs of the page that have a row without a realm
FindMissingSlugs ==
  /\ migration.step = "find"
  /\ Migrates([migration EXCEPT !.step = "update",
                                !.logs = {g \in @ : LacksRealm(g)}])
  /\ UNCHANGED <<rows, listingLock, faults>>

UpdateMissingSlugs ==
  /\ migration.step = "update"
  /\ rows' = WithRealm(migration.logs, migration.realm)
  /\ Migrates([migration EXCEPT !.step = "page", !.page = @ + 1, !.logs = {}])
  /\ UNCHANGED <<listingLock, faults>>

ReleaseMigration ==
  /\ migration.step = "release"
  /\ listingLock' = FALSE
  /\ Migrates([NoMigration EXCEPT !.step = "done"])
  /\ UNCHANGED <<rows, faults>>

\* a page that cannot be read ends the realm, a failed query the run; before
\* the lock is taken nothing catches it and the boot fails
MigrationFails ==
  /\ Fault
  /\ migration.step \in {"realm", "page", "find", "update"}
  /\ Migrates([migration EXCEPT !.step = IF @ = "page" THEN "realm" ELSE "release",
                                !.logs = {}])
  /\ UNCHANGED <<rows, listingLock>>

-----------------------------------------------------------------------------
(* indexLogs                                                               *)

Indexes(x, run) ==
  /\ indexer' = [indexer EXCEPT ![x] = run]
  /\ UNCHANGED <<site, lister, migration, listingLock, expiries>>

\* cron, or boot
StartIndexing(x) ==
  /\ indexer[x].step = "idle"
  /\ Indexes(x, [NoIndexing EXCEPT !.step = "check"])
  /\ UNCHANGED <<rows, indexingLock, queued, faults>>

CheckIndexingLock(x) ==
  /\ indexer[x].step = "check"
  /\ Indexes(x, [indexer[x] EXCEPT !.step = IF indexingLock THEN "release" ELSE "lock"])
  /\ UNCHANGED <<rows, indexingLock, queued, faults>>

LockIndexing(x) ==
  /\ indexer[x].step = "lock"
  /\ indexingLock' = TRUE
  /\ Indexes(x, [indexer[x] EXCEPT !.step = "take"])
  /\ UNCHANGED <<rows, queued, faults>>

\* logs that are not indexed, in no particular order; two rows of one log are
\* taken as one, and the second run of its job would change nothing
TakeLogs(x) ==
  /\ indexer[x].step = "take"
  /\ \E logs \in SUBSET {g \in Log : Unindexed(g)} :
       /\ \/ Cardinality(logs) = TakeLimit
          \/ Cardinality(logs) < TakeLimit /\ logs = {g \in Log : Unindexed(g)}
       /\ Indexes(x, [indexer[x] EXCEPT !.step = "work", !.todo = logs])
  /\ UNCHANGED <<rows, indexingLock, queued, faults>>

Job(g, step, characters) == [log |-> g, step |-> step, characters |-> characters]

\* the job of the run x awaited its step and goes on as the jobs of `next`
JobProceeds(x, job, next) ==
  /\ indexer[x].step = "work"
  /\ job \in indexer[x].jobs
  /\ Indexes(x, [indexer[x] EXCEPT !.jobs = (@ \ {job}) \cup next])
  /\ UNCHANGED indexingLock

StartLog(x, g) ==
  /\ indexer[x].step = "work"
  /\ g \in indexer[x].todo
  /\ Cardinality(indexer[x].jobs) < Concurrency
  /\ Indexes(x, [indexer[x] EXCEPT !.todo = @ \ {g}, !.jobs = @ \cup {Job(g, "fights", {})}])
  /\ UNCHANGED <<rows, indexingLock, queued, faults>>

\* mutant: there is no fallback
FetchFightsOnly(x, job) ==
  /\ job.step = "fights"
  /\ \E characters \in {LogCharacters[job.log], {}} :
       JobProceeds(x, job, {Job(job.log, "mark", characters)})
  /\ UNCHANGED <<rows, queued, faults>>

\* getCharactersFromFightsAPI; when it fails or names nobody, GraphQL is asked
FetchFights(x, job) ==
  /\ job.step = "fights"
  /\ \E characters \in {LogCharacters[job.log], {}} :
       JobProceeds(x, job, {Job(job.log, IF characters = {} THEN "graphql" ELSE "mark", characters)})
  /\ UNCHANGED <<rows, queued, faults>>

\* getCharactersFromLogs
FetchGraphQL(x, job) ==
  /\ job.step = "graphql"
  /\ JobProceeds(x, job, {Job(job.log, "mark", LogCharacters[job.log])})
  /\ UNCHANGED <<rows, queued, faults>>

\* getCharactersFromLogs fails: the log counts as one without characters
GraphQLFails(x, job) ==
  /\ Fault
  /\ job.step = "graphql"
  /\ JobProceeds(x, job, {Job(job.log, "mark", {})})
  /\ UNCHANGED <<rows, queued>>

\* mutant: a log without characters is not marked
MarkLogWithCharacters(x, job) ==
  /\ job.step = "mark"
  /\ rows' = IF job.characters = {} THEN rows ELSE WithIndexed({job.log})
  /\ JobProceeds(x, job, IF job.characters = {} THEN {}
                         ELSE {Job(job.log, "queue", job.characters)})
  /\ UNCHANGED <<queued, faults>>

\* markLogAsIndexed comes before the characters are queued
MarkLogAsIndexed(x, job) ==
  /\ job.step = "mark"
  /\ rows' = WithIndexed({job.log})
  /\ JobProceeds(x, job, IF job.characters = {} THEN {}
                         ELSE {Job(job.log, "queue", job.characters)})
  /\ UNCHANGED <<queued, faults>>

CharactersToQueue(x, job) ==
  /\ job.step = "queue"
  /\ queued' = queued \cup job.characters
  /\ JobProceeds(x, job, {})
  /\ UNCHANGED <<rows, faults>>

\* the update or addBulk fails: the error is logged and the log is done with
LogFails(x, job) ==
  /\ Fault
  /\ job.step \in {"mark", "queue"}
  /\ JobProceeds(x, job, {})
  /\ UNCHANGED <<rows, queued>>

FinishIndexing(x) ==
  /\ indexer[x].step = "work"
  /\ indexer[x].todo = {} /\ indexer[x].jobs = {}
  /\ Indexes(x, [indexer[x] EXCEPT !.step = "release"])
  /\ UNCHANGED <<rows, indexingLock, queued, faults>>

\* a query of the run itself fails, or no key is available
IndexingFails(x) ==
  /\ Fault
  /\ indexer[x].step \in {"check", "lock", "take"}
  /\ Indexes(x, [indexer[x] EXCEPT !.step = "release"])
  /\ UNCHANGED <<rows, indexingLock, queued>>

\* finally: as ReleaseListing
ReleaseIndexing(x) ==
  /\ indexer[x].step = "release"
  /\ indexingLock' = FALSE
  /\ Indexes(x, NoIndexing)
  /\ UNCHANGED <<rows, queued, faults>>

\* the process dies and boots again: its runs are gone, the keys are not
Crash ==
  /\ Fault
  /\ lister' = [x \in Lister |-> NoListing]
  /\ indexer' = [x \in Indexer |-> NoIndexing]
  /\ migration' = NoMigration
  /\ UNCHANGED <<site, rows, keys, queued>>

-----------------------------------------------------------------------------
Listing(x) ==
  \/ StartListing(x) \/ CheckListingLock(x) \/ LockListing(x) \/ NextRealm(x) \/ ReadPage(x)
  \/ FindLog(x) \/ UpdateSlug(x) \/ SaveLog(x) \/ ReleaseListing(x)

Migration ==
  \/ CheckMigration \/ LockMigration \/ NextMigrationRealm \/ ReadMigrationPage
  \/ FindMissingSlugs \/ UpdateMissingSlugs \/ ReleaseMigration

JobStep(x, job) ==
  \/ FetchFights(x, job) \/ FetchGraphQL(x, job)
  \/ MarkLogAsIndexed(x, job) \/ CharactersToQueue(x, job)

Indexing(x) ==
  \/ StartIndexing(x) \/ CheckIndexingLock(x) \/ LockIndexing(x) \/ TakeLogs(x)
  \/ \E g \in Log : StartLog(x, g)
  \/ \E job \in indexer[x].jobs : JobStep(x, job)
  \/ FinishIndexing(x) \/ ReleaseIndexing(x)

Failure ==
  \/ \E x \in Lister : ListingFails(x)
  \/ MigrationFails
  \/ \E x \in Indexer : IndexingFails(x)
  \/ \E x \in Indexer : \E job \in indexer[x].jobs : GraphQLFails(x, job) \/ LogFails(x, job)
  \/ Crash

Next ==
  \/ \E r \in Realm, g \in Log : Publish(r, g)
  \/ Expire
  \/ \E x \in Lister : Listing(x)
  \/ Migration
  \/ \E x \in Indexer : Indexing(x)
  \/ Failure

Spec == Init /\ [][Next]_vars

\* cron starts the hourly runs for ever, and what they await returns
Fairness == \A x \in Indexer : WF_vars(Indexing(x))

FairSpec == Spec /\ Fairness

-----------------------------------------------------------------------------
(* Properties                                                              *)

Listings == [step : {"idle", "check", "lock", "realm", "page", "log", "slug", "save", "release"},
             todo : SUBSET Realm, realm : Realm \cup {NoRealm}, page : Nat, logs : Seq(Log),
             exists : Nat]

Migrations == [step : {"count", "check", "lock", "realm", "page", "find", "update", "release",
                       "done"},
               todo : SUBSET Realm, realm : Realm \cup {NoRealm}, page : Nat, logs : SUBSET Log]

Jobs == [log : Log, step : {"fights", "graphql", "mark", "queue"}, characters : SUBSET Char]

Indexings == [step : {"idle", "check", "lock", "take", "work", "release"},
              todo : SUBSET Log, jobs : SUBSET Jobs]

\* Runs, rows and keys hold values of their types.
TypeOK ==
  /\ site \in [Realm -> Seq(Log)]
  /\ rows \in [Log -> Seq(Row)]
  /\ listingLock \in BOOLEAN
  /\ indexingLock \in BOOLEAN
  /\ lister \in [Lister -> Listings]
  /\ migration \in Migrations
  /\ indexer \in [Indexer -> Indexings]
  /\ queued \in SUBSET Char
  /\ faults \in Nat
  /\ expiries \in Nat

\* the listings that found no row of the log and are about to save one
Saving(g) == {x \in Lister : lister[x].step = "save" /\ Head(lister[x].logs) = g}

\* indexCharacterRaidLogs looks for a log and saves it in two steps without a
\* unique index: still, a log has never more rows than runs overlap, one when
\* none do, whatever fails or dies in between and however pages shift.
RowsBounded ==
  \A g \in Log : Len(rows[g]) + Cardinality(Saving(g)) <= Cardinality(Lister)

\* A log is marked before its characters are queued: unless a request, a query
\* or the process failed, the characters of an indexed log are queued or in the
\* hands of a run that queues them next, whether the Fights API answers or not.
IndexedCharactersQueued ==
  faults = 0 => \A g \in Log : Indexed(g) =>
    \/ LogCharacters[g] \subseteq queued
    \/ \E x \in Indexer : Job(g, "queue", LogCharacters[g]) \in indexer[x].jobs

\* Every saved log is indexed in the end: neither a key left by a dead process,
\* nor a run without characters, nor TakeLimit keeps a log waiting for ever.
EveryLogIndexed == \A g \in Log : Unindexed(g) ~> ~Unindexed(g)

\* A migration that nothing failed leaves no row of a listed log without its
\* realm, whatever a listing saves or updates at the same time.
MigrationComplete ==
  faults = 0 /\ migration.step = "release" => \A g \in Listed : ~LacksRealm(g)

\* While a run works, its key is set, so that the next run reports "indexLogs is
\* already running" (warcraft-logs.service.ts:377) and leaves it alone.
RunningIsLocked ==
  expiries = 0 => \A x \in Indexer : indexer[x].step = "work" => indexingLock
=============================================================================
