# A verification development for CMNW

CMNW is a set of NestJS services that collect data about World of Warcraft: characters, guilds,
raid logs, ladders, auctions and contracts. The services share one PostgreSQL database (through
TypeORM), one Redis, BullMQ queues and an S3 bucket. This directory models the parts whose correctness
depends on how their steps interleave and fail, and the pure computations that are easy to get wrong at
their edges; it checks the models with TLC and proves theorems about them with TLAPS. `PROJECT.json` maps
every definition to the lines it models, and lists runs, mutants, findings and hazards.

    tlc -workers 2 -config HashBlocks_concurrent.cfg MCHashBlocks.tla
    tlapm HashBlocks_proofs.tla

## 1. Inventory

How the parts interact: *schedulers* (cron methods in small services) choose rows and put jobs into a
queue; *workers* (`@Processor` classes, several per process, several processes) take a job, ask the
Battle.net API with one of a pool of keys, write rows and perhaps enqueue further jobs; the *API* reads
the rows and may enqueue a job and wait for it. Nothing holds a lock across an `await` except a
PostgreSQL transaction, and there are few of those: most writes are "find, change in memory, save".
BullMQ gives a job at least once (attempts, stalled jobs), and ignores a job whose id it still knows.
"Done before" is remembered in many places by a *marker*, a Redis key with a time to live: whatever a
marker hides is not looked at again, so that the order of work and marker decides what a crash loses.

| Part | State | Operations | What is hard | What must hold |
|---|---|---|---|---|
| Hash blocks (`apps/osint`: hash worker, `HashBlockService`) | `hash_blocks`, `hash_block_members`, `hash_block_logs`, queue `osint.hash` | enqueue, reconcile, boot backfill | reads outside the transaction, READ COMMITTED, unique indexes, deadlocks, retries | counters match members, members have blocks, history accounts for every membership, a character moves only out of a collision |
| Raid logs (`apps/warcraft-logs`) | `characters_raid_logs`, two Redis keys, queue `osint.characters` | hourly listing, hourly indexing, migration at boot | overlapping runs, a lock that is deleted by who did not take it, pages that shift, "mark, then queue" | a listed log is saved, once; its characters are queued; it is indexed in the end |
| Guild rosters (`apps/osint`: guilds worker, guild-roster, -member, -log, -master services) | `guilds`, `characters_guilds_members`, `characters_guilds_logs`, guild fields of `characters` | fetch, compare, join, leave, promote, change of master | a roster of partly failed members, steps that fail one by one, two guilds writing one character | the table follows the roster, every change is logged once |
| Characters (`apps/osint`: characters worker and its services) | `characters`, queue `osint.characters` | find or create, six requests, merge, save, enqueue the hash job | rosters that save the same row, retries that find it fresh, requests that fail one by one | no guild is lost to an older one, a changed hash is handed on |
| Character requests and the feed (`apps/api`) | the sessions' sockets | `GET /character`, forced refresh, progress events | messages dropped as duplicates, waiting for a job without a result | whoever asked hears how it ended |
| Profiles, looking for guild (`apps/osint` profile worker, `apps/wow-progress`) | `characters_profile.lfg_status`, queue `osint.profiles` | five-minute rotation, profile jobs | updates before the pages are read, overlapping runs, late jobs | who leaves the site is forgotten |
| Battle.net keys (`libs/battle-net`, `apps/core` keys service) | `keys` (token, cooldown, last failure), the current key | initialise, request with retries, record 429 and success, refresh tokens | several processes save one row, one field shared by concurrent jobs | a query ends within its retries |
| Realms (`apps/core`) | `realms`, queue `core.realms` | weekly index | the row is saved as it was three requests ago | no snapshot is hidden for good |
| Auctions (`apps/dma`, `apps/market` auctions service) | `market`, timestamps of `realms`, markers and series keys | schedule, ingest in batches, expire | swallowed batch errors, markers after partial success, a queue drained while workers run | a published payload is ingested |
| Gold and contracts (`apps/market`) | gold rows of `market`, `contracts` | hourly listing, builds | four statements on rows that come and go | a contract counts what it says it counts |
| Market API (`apps/api`) | a cache in Redis | chart, price axis | a chart that is built while its snapshot is saved; rounding | what is cached is whole, an order lands in its row |
| Pricing, items, valuations (`apps/market` XVA service, `apps/dma` items worker, `apps/valuations`) | `pricing`, `items.asset_class`, the imported tables, markers | boot phases, weekday cron, items, valuations | half-built tables after a crash, four writers of one array | a mark means that the work is done |
| Evaluation (`apps/market`) | `evaluations` | scheduled job | prices of two moments, overlapping runs | advice agrees with the craft it is stored with |
| Scheduling (`apps/characters`, `apps/guilds`) | an offset in memory, markers | page through the tables, import files | an offset over an order that changes | every row comes round |
| Ladders (`apps/ladder`) | markers | Mythic+ and PvP ladders | a marker that covers several weeks, parallel requests that fail | a marked board is queued |
| Wow Progress ranks (`apps/wow-progress`) | files in S3, markers | download, extract, queue | a file that is never downloaded again | every list in the bucket is queued |
| Analytics (`apps/analytics`, also inside `apps/api`) | `analytics` | daily snapshots, migration | check, then insert; a day that is half stored | one row per metric and day |
| Accounts and searches, realms cache, libraries, bench | users, configuration, DTOs, entities | | none of their own | modelled where the parts use them, or not at all (section 9) |

The hazards of each part are listed in `PROJECT.json` at the line where they bite; more, without a
property, are in section 9.

## 2. Modules

| Module | What it is | Runs |
|---|---|---|
| `HashBlocks` | hash-block reconciliation by concurrent workers, statement by statement | `hash_concurrent` |
| `Overlaps` (extends `HashBlocks`) | the history of overlapping jobs, and what holds of counters in spite of them | `hash_overlaps` |
| `RaidLogs` | the runs of the raid-log service, its keys and its migration | `raidlogs_indexing` |
| `Coverage` (extends `RaidLogs`) | the history of what each listing promises, and that it keeps it | `raidlogs_listing` |
| `GuildRosters` | a guild's scan: roster, members, characters, logs, master | `guilds_scans` |
| `Auctions` | the ingestion of auction snapshots: crons, queue, workers, markers | `market_tables`, `realms` |
| `Charts` (extends `Auctions`) | the cached chart of the API over the same tables | `market_tables` |
| `Contracts` (extends `Auctions`) | the gold listing and the builds of contracts over the same tables | `market_tables` |
| `Market` (extends `Charts` and `Contracts`) | the three of them interleaved: `MarketSpec` | `market_tables` |
| `Realms` (extends `Auctions`) | the index that saves the realms' rows beside the auctions | `realms` |
| `Pricing` | the pricing phase of a boot of the market, and the weekday cron | `catalogue` |
| `AssetClasses` (extends `Pricing`) | the four writers of an item's classes, after the pricing phase | `catalogue`, `catalogue_market` |
| `Evaluations` | the scheduled evaluation: crafts, costs, advice | `catalogue` |
| `PriceAxis` | the pure functions behind the heatmap's axis | `catalogue` |
| `Messages` | the twelve factories of `CharacterMessageDto` | |
| `Characters` (extends `Messages`) | the characters' worker, rosters that write its rows, requests and the feed | `platform`, `characters_force` |
| `Ladders` | both ladders' requests, queueing and markers | `platform` |
| `RankFiles` | download and extraction of rank files | `platform` |
| `Snapshots` | the metrics of the day and the migration of old values | `platform` |
| `Sweeps` | the crons that page through characters and guilds | `crons` |
| `Keys` | a query of Battle.net with its retries and the rows of the keys | `crons` |
| `Retry` | what the caller of a query may rely on; implemented by `Keys` | |
| `LookingForGuild` | the column `lfg_status` between cron, site and profile jobs | `crons` |

`X_proofs` holds the theorems of `X` (`HashBlocks_proofs` also those of `Overlaps`, `RaidLogs_proofs` those of `Coverage`); `Market_proofs` those of `Auctions`, `Charts` and `Contracts`,
`Catalogue_proofs` those of `Pricing`, `AssetClasses`, `Evaluations` and `PriceAxis`, `Platform_proofs` those of `Ladders`, `RankFiles` and
`Snapshots`. `MC...` modules give the constants of the runs their values and compose what shares a run. `Overlaps` and `Coverage` add history
variables that no action of their module reads: they change nothing of its behaviours. *Composition*: where parts write the same tables they are composed by `EXTENDS` and interleaved
(`Market`: ingestion, charts and contracts; `Realms`; `AssetClasses`, whose `ClassesSpec` goes on after `Pricing`'s phases and beside its crons;
in `Characters` worker, rosters, API and feed). `MCPlatform`, `MCCrons` and `MCCatalogue` put parts that share no
table into one run: a constant of each lists *instances* (plans, worlds, shelves, boards), `Init` chooses
one, all others being in an instance with nothing to do (`Busy`, `part`). That is a disjoint union of the parts' behaviours.

Every action bears the name of the method or of the statement it models, and stands for everything
between two `await`s of that method that changes state. Definitions marked "mutant" are the code with a
plausible mistake in it: `PROJECT.json` pairs each with the property that notices it. Counters that bound
a model (`Max...`, or the counters of an instance) bound the environment: how often it sends, fails,
crashes, publishes. `CHECK_DEADLOCK FALSE` stands where everything ends when they are spent.

## 3. HashBlocks

A block groups the characters that share a collection hash. `reconcileCharacter` reads the character,
its membership and the block, outside any transaction (`ReadCharacter`, `LoadMember`, `LoadBlock`),
chooses one of four branches and runs it as one transaction: `Touch`, `UpdateMember`, `Leave` followed
by `Place`, or `Place` alone, which goes on to `Join` or `Genesis`. Each statement of a transaction is a
step. A transaction sees its own writes over what is committed (`Overlay`), and a statement that needs
a row or index entry which another transaction wrote waits for it (`WaitsFor`). `recomputeBlockState`
is a read (in the step before) and a write (`RecomputeLeft`, `Commit`), because the read is where
READ COMMITTED hurts. A unique violation, a deadlock victim and a failed query roll back (`Fail`) and count as an
attempt; a dead process rolls back and its job is given again (`Crash`). The boot's backfill runs beside
the workers. `Refresh` stands for the character worker: it saves new hashes and enqueues the job, whose
id is the character's guid, so that BullMQ ignores it while it knows the id; `Evict` is the retention
limit.

Abstractions: blocks are known by their anchor (unique and never deleted); timestamps and the texts of
the log are left out; the write, its log entry and the read of the recomputation are one step, because
nobody else sees any of them before the commit; the locks of the recomputation are taken as a group;
a saved `hashB` never becomes null again, because TypeORM skips `undefined`, so the branches for it are
not reachable and are left out; a worker whose job stalled is dead, not slow.

Runs:

- `hash_overlaps` (two workers, three characters, two anchors, limit 1, three refreshes, one fault; at the first boot nobody or
  two characters have a hash): `StatsExact`, `ConfirmedExact`, `AccurateKeepsMembers`. Three characters make two of them share an
  anchor, exceed the limit, and a third one corroborate; three refreshes let a character move and come back.
  Characters and workers are symmetric.
- `hash_concurrent` (two workers, two characters, two anchors, two refreshes, one fault): the type invariant, the
  inductive invariant `Inv` and its parts, `LeavesOnlyAsCollision`, and `EveryJobEnds` under fairness.

Two jobs that overlap on a block do leave it with wrong counters (disagreement 4), and a flag that was read before the transaction does go
stale. `Overlaps` says where: `disturbed` holds, for each open transaction, the blocks that another one concerned while it was open, `suspect` the
blocks whose last counters were committed by a transaction disturbed there, `overtaken` the workers since whose read of a block's flag another
transaction concerned that block. The properties claim everything else, with any number of workers and no assumption on their schedule:
counters, flags and confirmations of every other block are exact, a suspect block's are again as soon as one job has it to itself, and whoever leaves
a block leaves a collision block unless it was overtaken. The backfill, rollbacks, dead processes and jobs on other blocks
never make a block suspect.

Fairness: weak fairness for each worker's next statement, for taking a waiting job by an idle worker,
and for the backfill's loop. BullMQ polls for jobs and PostgreSQL answers or fails a statement, and a
deadlock is broken by the server after a second. Nothing is assumed of refreshes, evictions and faults.

`CHECK_DEADLOCK FALSE`: when refreshes are spent and jobs are done, nothing is left to do.

## 4. RaidLogs

`indexWarcraftLogs`, `indexLogs` and `backfillRealmSlug` are three kinds of runs. A run is a record of
its step and of what it has read; cron starts one whether or not the one before has ended, so there are
several slots (`Lister`, `Indexer`). `CheckListingLock` and `LockListing` are two steps, as `get` and `set` are two
commands; the `finally` of a run that met the lock deletes it (`ReleaseListing`, `ReleaseIndexing`), and
`Expire` is the key's TTL. `site` is what the foreign site lists, newest first; `Publish` shifts its pages.
The listing reads a page, looks for each log (`FindLog`) and saves it (`SaveLog`) in two steps: the
table has no unique index, and maps a log to the sequence of its rows. A run of `indexLogs` takes some
logs, works on two at a time (`Concurrency`), asks the Fights API and then GraphQL, marks the log and
then queues its characters. Requests and queries fail in the ways the code tells apart
(`ListingFails`, `MigrationFails`, `IndexingFails`, `GraphQLFails`, `LogFails`), and the process dies
(`Crash`) and boots again, which starts the migration from the beginning and leaves the keys set.

Left out: the login and its session, headers, HTML and GraphQL parsing, what a job carries, the order in
which `find` returns rows, a failing `del`, and a migration whose first query fails (the boot fails).

Runs:

- `raidlogs_listing` (two realms, four logs, pages of one, two listing slots beside the migration, one
  fault): `RowsBounded`, `ListingComplete`, `MigrationComplete`. One log is saved
  without a realm, one is published meanwhile, `Tolerance` is 1: the early stop, a shifted page and a
  realm that begins after another one's count all occur. The two listings overlap before the migration works or after it, and as long as nothing
  has failed; with the migration or a failure goes one listing at a time (`IsCrowded` cuts the rest off, for time). The three properties are proved without this bound.
- `raidlogs_indexing` (two overlapping runs of `indexLogs` beside a listing, one fault, one expiry; the migration is not
  started, no row lacks a realm): `IndexedCharactersQueued`, `EveryLogIndexed`. `TakeLimit` 1 leaves work for a later run.

`ListingComplete`: a run of the listing that takes its lock promises all logs that are listed then, and keeps the promise although it stops
at logs it knows and pages shift under it. `Coverage` records the promise when the run begins. It is none if unknown logs stand behind known
ones, which is what a failed page or a dead process of an earlier run leaves, or if the list is longer than the pages a run reads; and it lapses
when one of the run's own requests or queries fails, another run saves a log meanwhile, or a realm's list grows by more than `Tolerance` or
over its last page. Each of these does lose logs (the hazards name them); other runs that only read, the migration, other runs' failures, crashes
and expiring keys do not.
Fairness is weak fairness of each indexer slot:
cron goes on starting runs, and requests return. Nothing is assumed of listings, faults and expiries.

## 5. GuildRosters

A scan is a job of the guilds worker. BullMQ knows it by the guild's guid, so a guild has one scan at a
time, and several guilds' scans run side by side. The record `scan[g]` holds the step the job has reached
and `todo`, the operations it awaits together (`Promise.allSettled`, `mergeMap`): any of them may be done
next. `FetchGuildData` is the summary and the roster; `FindCharacter` and `SaveCharacter` are
`characterAsGuildMember`, which returns without a row for an unknown character whose realm is not in the table (`KnownRealm`); `CompareRosters` reads the members table; `NextChanges` goes from the ranks to
the joins and to the leaves, whose statements are `SaveLog`, `UpdateRank`, `SaveMember`, `DeleteMember`
and `UpdateCharacter`. `DetectChanges` and `FindMaster` with `ApplyTransition` run beside each other at
the end, and `SaveGuild` ends the job. `SaveMemberWithoutId` is the insert that the table refuses because the
job began without the guild's numeric id. `OperationFails`, `CompareFails` and `JobFails` are the
three places an error is caught at: the statement, the roster and the job.

Abstractions: timestamps are left out, and where one of the guild is compared with one of the character
`isUpdateByGuild` is either; the guild's own columns, its name and faction entries, the status string and
the feed are left out; a roster has exactly one master, and a character is in one guild. That
`save` writes the fields it read even where the row has changed since is kept: TypeORM compares the entity with the
row as it is at the save.

Runs:

- `guilds_scans` (one guild, two characters of which one's realm is unknown, ranks 0 to 2, two changes of the roster, one failure at any
  step). Two characters allow the master and a member to swap, to leave and to come one by one or both; three ranks
  allow a promotion without a master; two changes allow a member to leave and come back.
  `ScanRestoresMembers` and `MembersConverge` hold whatever the failure was.
  `HistoryAgrees` and `CharactersFollow` are for runs without failures: a log entry that
  was saved before its member's row failed has no row to agree with. `CharactersFollow` excepts the character that has
  neither a row nor a known realm: it is in the members table and nowhere else.

Only the master's transaction gives a row the master's rank or takes it away, and it is looked for by the
old master's row. `Follows` therefore lets ranks differ where one of the two is a master's: after a
master has left unnoticed, its successor keeps its old rank in the table, no row is a master's, and no
later transition is noticed either, until the roster is indexed anew or a row is inserted for a joining
master. With two guilds `CharactersFollow` does not hold: a
member that leaves and comes back between two scans of its guild, and was scanned by the other one
meanwhile, is no change for its own guild's table, while its character stays in the other guild.

Fairness: weak fairness of each scan's steps (requests and statements return or time out) and of starting
one: `GuildsService.indexGuilds` queues the guilds with the oldest update every ten minutes. BullMQ ignores
a job it still knows, but keeps only the last thousand completed ones, and the guilds are many more.

## 6. The market

`Auctions` counts time in ticks of half an hour, the age at which a realm is due. The crons (`DrainQueue`,
`IndexAuctions`, `IndexCommodity`) fill a queue that they first drain; a slot takes a message, asks for a
snapshot newer than the message says (`Fetch`), looks for the payload's marker (`CheckHash`), saves batch
by batch (`SaveBatch`, `BatchIsLost`: a failed batch is logged and skipped), sets the marker, a commodity's
series key and the realm's timestamp, and may fail anywhere (`JobFails`). `Tick` lets Battle.net publish;
rows and keys expire. A snapshot's content is its payload, and two snapshots may have the same one.

`Charts` is one request of `getChart`: latest timestamp, cache, price axis, each timestamp's orders, the
trimmed margins and the cache's entry, each a statement among those of the workers. `Contracts` is
`indexGold` (realms looked up, one transaction, timestamps) and the builds, whose four statements read
rows that come and go. `Realms` adds the weekly index whose worker saves a row it read three requests ago.

`Pricing` runs the phases of a boot in order (`init`, `lab`, `build`): recipes are looked for and saved,
the laboratory's methods deleted and saved anew at once (`ClearFails`: a delete that throws is
logged, and the boot goes on with the methods of before), three CSV files imported and marked by content;
the cron indexes recipes beside it; anyone may upload a file. `AssetClasses` goes on with the stages
of the valuations phase, each skipped if Redis has its key for the table's present state, beside
the items worker, the gold item and `apps/valuations`, whose auctions stage asks for an `_id` that its raw rows do not have and so
finds any row (`Found`), and whose tags stage reads all items at once and saves each later (`SaveTagged`). A NULL array is a value of its own, because
`NOT (x = ANY(NULL))` is not true. Each write to the pricing table is given a time of its own (`LastTouch`), while the
keys of the stages print `MAX(updatedAt)` to the second. `Evaluations` keeps costs as fractions and compares cross products; a query for
prices or methods that fails is answered like one that finds nothing, and the run goes on (`Without`, `Readings`).
`PriceAxis` is every axis over the samples; which way `toFixed` takes a five is a choice, and the
logarithmic edges are any ascending ones.

Runs:

- `market_tables`: two slots, one realm or the commodities, four ticks of which one is a day, a payload that
  comes twice, lost batches and failing jobs; five deployments, by what is enabled.
  `MarkedPayloadsAreListed`, `CachedChartsAreWhole`, `GoldContractsCountEveryRealm`. A chart may be built while its
  snapshot is saved, since the series key is older than the last batch of a second worker. `CachedChartsAreWhole` says
  nothing of a snapshot without orders, which the trimming of the margins cuts off, nor of a deployment that loses batches. The slots are symmetric.
- `realms`: one realm or the commodities, three snapshots of which two have one payload, one failure and one index.
  `SnapshotsArrive` is liveness: fairness is strong for the crons' adds and for a slot's taking, because each is delayed
  by the others for a moment only, and weak for a job that runs and for Redis' expiry. It excludes realms that have
  never had a timestamp (they are refused, section 9) and payloads whose batch was lost.
- `catalogue`: one recipe, four methods, three files in two versions, one crash, failure and upload, in seven
  deployments, which say what of phases, cron, items worker and `apps/valuations` runs together; two overlapping evaluations of two recipes with one change of
  price and one query that fails in silence; axes of eight prices that
  meet at the edges of several steps. `MarkedFilesAreImported`, `LabIsRebuilt`,
  `NoClassTwice`, `MarkedStagesAreBuilt`, `AdviceAgrees`, `OrdersLandInTheirRow`.
- `catalogue_market` finds disagreement 1 of section 11.

`LabIsRebuilt` and `MarkedStagesAreBuilt` say nothing when the delete or a save of the boot's laboratory failed (`labFailed`): the error is logged, the
phase goes on with methods of before, and the next boot repairs it. `MarkedStagesAreBuilt` says nothing beside the items worker or `apps/valuations`,
whose saves of a whole array do undo classes that a stage added since their find; `NoClassTwice` holds beside them as well.
`AdviceAgrees` is about rows whose prices did not change since their run began, and none of whose own queries failed in silence: without its methods
an item may be stored as something to buy. A price that changes and comes back counts as changed (section 10).

## 7. Characters, rosters and the API

A job's id is its character's guid: `Add` ignores a message while the queue knows the id. `Take` begins
an attempt; `FindOrCreateCharacter` or `Skip` reads the row; `FetchStatusOnly` and
`FetchAndUpdateCharacterData` are the requests, whose answers set the status of each endpoint
(`ProcessResults`) and the columns; `DiffAndLogChanges` compares with the row as it is now and `Reread`
takes the guild of a row that was saved since the job read it; `SaveCharacter` saves the row whole, and
`EnqueueHashUpdate` hands the hash on. `Fail` ends an attempt, `Crash` makes all running jobs stall; a stalled job is given out
again until it stalled more often than `MaxStalledCount`, which is 500 (`characters.queue.ts:31`).
Rosters read (`RosterReads`) and save (`RosterSaves`, `RosterLeavesRow`) the same rows whole, and
`RosterClears` is the UPDATE of a member that left. `Send` is every producer, with the message that its
factory in `Messages` makes. `GetCharacter` and `GetUnavailable` are `GET /character`, `Connect` and
`Close` a session's sockets; a session `Hears` the last event that was routed to it,
unless its publish fails, which `FeedService.emit` swallows (`lossy` plans). Time is counted in days.

Abstractions: a row is its last save, its guild (id, name and rank as one), and its hash; the other
columns are left out, and a save may differ in one of them (`Stored`). `Repository.save` leaves
undefined fields alone and keeps `updatedAt` when nothing differs. The status is a state for each
endpoint instead of a string of letters, and the three endpoints that only write columns left out here fail together.

- `platform` checks seven plans: rosters of two guilds, a roster with a crash, failures and a crash with two
  hashes, a session with failures and crashes, a session that comes back after days, a session whose events get lost, two characters.
  `RosterPrevails`, `HashIsHandedOn` and, under weak fairness of each job's steps (a worker is always there), `RefreshEnds`.
- `characters_force` finds disagreement 2.

Each of the three properties states the hole it leaves. Between the job's last look and its save, one statement
wide, a roster's guild is lost. An attempt that saved a changed hash and died hands nothing on when the retry finds the row
fresh. And `HashIsHandedOn` was first stated without its condition on the row: that holds of every plan with rosters or crashes
alone, but the attempt to prove it for all plans failed where both meet. A roster that read the row
before the job's save puts it back without the hash, the process dies, and the retry has no hash to hand on. The
second plan was added for this case. Of a refresh a session may miss the end only when the very event of the end
is lost, or when the job stalls for the 501st time: BullMQ then fails it without the worker, so that nobody tells the session.

## 8. Platform and crons

`Ladders`: a run reads the seasons, turns them into requests, works on up to three at a time (PvP: one),
queues a bracket's entries at once or a dungeon's groups one by one, and sets the marker; a board that is not
known is marked (Mythic+) or not (PvP). The marker of a dungeon is shared by its weeks: `MarkedBoardsAreQueued`
therefore says "at least one week", which is what the code gives. An error of any step whose message has a 404 in it is
taken for an unknown board (`ladder.service.ts:451`): `misread` remembers those requests, and marking one may fail as well (`MarkMissingFails`).
`RankFiles`: the boot downloads into the bucket what is not there, with retries, then reads all files in
order (the ones not yet dealt with are the set `files`, of which the least is next), queues each one's guilds and marks its content. `Snapshots`: boot and cron look for any row of the
day and then run five services, each a transaction that reads which metrics exist and inserts the others;
the boot first migrates values row by row. Of the numbers only the hall of fame's are kept, since it compares them.

- `platform`, besides the characters: two ladders with overlapping runs, failures and a restart; two shelves of up to five files
  (unknown realm, same content twice, corrupt, invalid) with three failures and two restarts; three days of
  one host's cron, a day on which a host's boot and cron overlap, a day on which two hosts boot, and two hosts that migrate. `MarkedBoardsAreQueued`,
  `ExtractedRanksAreQueued`, `DaysFillInOrder`, `EachRunStoresOnce`, `LegacyValuesAreGone`.

Runs that overlap do store a day twice (disagreement 9). `EachRunStoresOnce` is what is left of the promise and needs no condition: one host's boot, or its
cron, adds each service of a day at most once and in order, however often it fails, dies or comes again, and whatever others store meanwhile.

`Sweeps`: `IndexPage` reads a page at the offset, `SendNext` queues it, or the call fails
and the rest of the page is dropped while the offset has moved on (`SendFails`); a queue knows its ids until `Kept`
others ended. `Keys`: a query initialises (`FindKey`, `UseKey`; up to `MaxAttempts` looks for a key,
each after a longer delay, before `FindsNoKey` gives up: ten in the code, two in the run), waits for the current key's cooldown, sends,
and records a 429 or a success by a find and a save, on rows that crons save whole with new tokens; `TimePasses` shortens every delay,
also those of copies. `LookingForGuild`: forget who is OLD, demote NOW and NEW, read two pages, make NOW again, push the others to the profile worker.

- `crons`: three characters with pages of two and two jobs kept, four guilds of which one is never saved;
  two queries with two keys, and one key that is refreshed; two seekers, and two overlapping runs with a failure.
  All three properties are temporal. `RowsComeRound` says that every row's job runs again and again;
  `LeaversAreForgotten` that who stays away from the site ends without a status. `QueriesRetry` is the
  *refinement*: `Keys` implements `Retry` with `asked` and the outcome of a query
  (`Retrying == INSTANCE Retry WITH ...`), so that a query sends at most `MaxRetries + 1` requests, never changes
  its outcome, and ends.

Fairness: cron goes on firing, the boot's steps and a query's requests return (BattleNet's HTTP client has a time
limit of a minute), the queues' jobs are run, time passes. Each is weak fairness of the action, and nothing is assumed of failures, refreshes, restarts or the site.

## 9. Not modelled, and hazards without a property

Not modelled: `indexTokens`, `setCommodityItemsAsContracts`, `buildTags`, reverse pricing and the queue of
valuations (never consumed), reads of the analytics (`getLatestMetric`, `getMetricHistory`), `initKeys`,
`resetKeyHealth`, `recordKeyError` and `refreshKeyToken` (nothing calls the last three), the realms' Warcraft Logs ids,
the realms cache (one read per process), accounts and searches, the characters' mounts, pets, professions and media, parsing of HTML and
of files, logging, Swagger and entity declarations, libraries, the bench. The tables of `milling.libs.ts`,
`prospecting.libs.ts` and `disenchanting.libs.ts` are data: `Pricing` takes a small set of methods for them.

Known to go wrong, or not covered, besides section 11:

- Characters: a roster saves the row it read and may put back an older one (`character.dao.ts:12`); two guilds
  that both list a character overwrite each other; `GET /character` answers NotFound also when the job
  succeeded, because the worker returns nothing (`character.service.ts:112`); a forced refresh carries the
  guid as its job id and is dropped while the queue knows it (`character-message.dto.ts:637`).
- Status strings: `status.constants.ts:22` reads "Uppercase = Success, Lowercase = Error". A character's
  `processResult` counts every answered object as a success, although its services answer objects on failure
  (the model does the same). A guild's failed roster is stored as a success, since `updateRoster` overwrites it,
  and SUMMARY is never set to success; guild statuses are not modelled.
- Market: a realm whose timestamp is 0 is refused by every job and never ingested; orders of any realm
  in the gold listing are dropped; realms with only invalid gold orders are stamped all the same
  (`gold.service.ts:111`); a chart caches a timestamp whose statement failed as an empty one
  (`dma.service.ts:283`); a stage's key is computed again after the stage; an evaluation that finds no craft
  leaves the old rows.
- Raid logs: a request that fails at both APIs is taken for an empty answer (`warcraft-logs.service.ts:494`), and a page
  that cannot be read for the end of the realm (`:324`).
- Keys: `initialize` gives up after about fifteen seconds, and a cooldown starts at thirty (`battle-net.service.ts:58`).
- Ladders: the Mythic+ marker has no week (`ladder.service.ts:492`). Ranks: a corrupt file ends every
  extraction, and those behind it wait for ever (`wow-progress.ranks.service.ts:411`). Looking for guild: an empty page demotes
  everybody for a round (`wow-progress.lfg.service.ts:108`).

## 10. What is proved

Each theorem holds for all values of the constants, under the assumptions that the module names.

- `HashBlocks_proofs`, for all characters, hashes, workers and limits, under `ConstantsAssumption`:
  first `TypedSteps` (types, jobs owned by one worker, queued characters have a hash, what each statement
  has read): `TypeOK` alone does not say that a worker that updates a member has read one. Then
  `Inv`: a row has at most one writer (`WritersExclude`) and each open transaction holds only rows it may
  commit (`TransactionsCommittable`), which a commit of another transaction cannot spoil because rows have one
  writer. From it follow `MembersHaveBlocks`, `ReadMembershipHolds`, `MembershipIsLogged` and the action
  property `LeavesOnlyAsCollision`. `StatsExact`, `ConfirmedExact` and the action property
  `AccurateKeepsMembers` are proved of `ObservedSpec` for any number of workers whose transactions overlap at will (`Counters`): an open transaction
  sees right counters of every block in which no other one disturbed it, but for the one it has read and is about to write; marks change nobody's standing,
  and rows of other blocks do not matter to a block (`OthersAgree`), so that a commit of the backfill or of another
  transaction changes nothing that an open one has read of a block which the other did not concern (`OthersCommitAccounts`); that a row has one writer
  (`Inv`) is needed here again, and `OverlapsKnown` says that the history misses no overlap. For `AccurateKeepsMembers`, a block that was a collision when its
  flag was read is one until the job ends, unless another transaction concerned it since (`CollisionsStay`).
- `RaidLogs_proofs`, for all logs, realms, slots and limits: `TypeOK` is strengthened with what a run at a step
  has read (a run that saves has a realm and a non-empty page).  `RowsBounded` is inductive once the listings about to save are
  counted with the rows: a log is found missing only while it has no row, so the first save leaves
  room only for the runs that had found it missing too. `NoCharacterLost` needs that a log's job holds
  exactly the log's characters. `MigrationCompletes` (`SlugsInv`): a row without its realm is of a log that is in the migration's hands or
  on a page to come, since what is published only pushes logs back. `ListingCompletes`, of `ObservedSpec` (`CoverageInv`): since the run began a realm, k logs were
  published, so up to k known logs may be ones that it saw before and that were pushed to its next page; of the
  logs that were there before, a known one has only known ones behind it. The count exceeds k only when such a one
  was met, and the realm then holds nothing more to save. There may be any number of runs, faults, crashes and expiring keys: the theorem has no hypothesis, and the cases in
  which a run promises nothing are those of `Coverage` (section 4).
- `GuildRosters_proofs`, for all characters, ranks, rosters and failures. `ScanRestoresMembers` (theorem
  `ScansRestore`) is inductive with `ScansInv`: every difference between table and roster has its operation in `todo`, or
  belongs to a comparison that is still ahead; and an operation in `todo` belongs to such a difference, so that
  none undoes what agrees. It holds for guilds that have ids of their own (`OwnIds`): a job without an id takes over
  another guild's rows (disagreement 8). `HistoryTells` and `CharactersAreMoved` are about one guild (`OneGuild`), because another guild's
  scan writes the same characters (section 5), and about runs without failures: `ScansGoWell` says for each step which
  entry and which character's save are still to come. A character without a row or a known realm is the
  exception that `CharactersFollow` names. Both hypotheses are those of the run, and the only ones.
- `Market_proofs`, for all realms, snapshots, batches, slots and deployments. `MarkedPayloadsHold`: a job that has saved a batch
  keeps that `Kept` stays true until it marks, though other jobs and the expiry write the same rows. `GoldContractsHold`
  follows the orders of one time through the four statements of a build; gold of a time is saved once, in one transaction, so that what a
  build has read is all there will be until it expires (`GoldInv`). `CachedChartsHold`: a series key means that its snapshot is saved whole
  (`SeriesIsWhole`) and a request that has read its times finds each of them whole or expired (`RequestIsWhole`). The attempt to
  prove it found the property false for a snapshot without orders; its condition was added then.
- `Catalogue_proofs`, for all items, laboratories, files, uploads and crashes, of `ClassesSpec`. `FilesAreImported`: tables
  only grow, and the boot that is about to mark a content has its rows in the table, since what is missing is computed from
  the content it read and not from the file as it is by then. `LabsAreRebuilt` (`LabInv`): while the laboratories are rebuilt and nothing of them failed, the table has
  exactly the methods of those done, less the saves still running; this needs that laboratories' tables are disjoint
  (`LabsAssumption`), as their three methods are. `ClassesAreOnce` (`ClassesInv`): each writer appends to a list it read only what that list
  has not, so that writers lose classes but never repeat one, whichever row they found and however long ago they read it. `StagesAreBuilt` (`StagesInv`, `ClockInv`,
  `SavingInv`): while the boot is the only writer, each class that a stage names is in its row, held by a save, or still to come, and a state that bears
  the table's last write was marked after it, since every later write ages the key.
  Of `EvaluationsSpec`, for all recipes, offers, changes of price and runs, `AdviceIsRight`: prices and costs are naturals and the
  denominators of costs are positive, so that comparing cross products is an order, which has a least element among the
  finitely many methods of an item (`CheapestExists`); the recipe that paid costs no less than it (`CraftsAreAdvised`). `EvaluationsInv` carries
  this through table and runs: while no price changed since a run began, each craft it holds and no query doubted still pays, and the item's side, if nothing of it failed, has that recipe among its methods.
  Of `PriceAxisSpec`, for all prices, steps and roundings, `AxisHolds`: each of the three ways to build an axis yields a strictly ascending
  sequence, since `snapAndDedupe` drops what does not exceed the last edge and the linear bins are made unique after `toFixed`; and
  `OrdersStayInTheirRow`: the loop of `assignPriceBucket` keeps an edge at most the price before `lo` and one above it
  at `hi`, gets shorter with every turn, and ends at the row between the two.
  What is assumed: recipes, reagents, orders, samples and steps are finite sets of natural numbers, steps are positive and there is one
  (`NICE_STEPS`), as the tables and literals of the code are.
- `Platform_proofs`, for all instances. `MarkersHold`: a ladder's request in flight has queued what it no longer holds, so that the
  one that marks has nothing left; `queued` only grows, so other runs cannot spoil it. `ExtractionsAreWhole` (`RanksInv`): what is in the
  bucket and not in `files` has been dealt with, and a marker is that of a content whose guilds are queued, whoever had it first.
  `LegacyGoes` (`LegacyInv`): until every host's boot is past the migration, each old value is one that it still has before it. `DaysFill` and `RunsStoreOnce`
  (`DaysInv`, `StoredInv`): a run stores services in order, the dates of `stored` never fall, and a run that comes again on a day on which it stored something
  looks, finds a row of that day and stores nothing. Neither has a hypothesis about runs beside it.
- `Keys_proofs`, `KeysRetries`: `Init` and every step of `Keys` map to `Init` and a step or a stutter of `Retry`, with
  the invariant that what a query has asked fits its step: below the limit before it sends, counted after. With it the safety part of the refinement holds for
  all keys, queries, delays and crons; that queries end is TLC's.
- `Characters_proofs`, `HashesAreHandedOn`, for all plans: of one character, a due hash in the row means that the job is
  alive, that one which read the row since is not creating it and knows of the row's hash
  (so that its own save cannot pass it over), and that a roster's scan that read a hash finds one
  (`ScanKeeps`), so that rosters lose hashes but never bring one. One lemma for each action; `OneMoves` reduces it to the character that moves.
  `RostersPrevail` is the action property `RosterPrevails`.

Sums, folds and the binary search are proved about without induction theorems that take an operator: what is to
hold is given as the *set* of the numbers, or of the subsets of a finite set, that it holds of (`NumbersFromZero`, `SubsetsFromEmpty`,
from the well-foundedness of `<`), and a function defined by recursion is shown to exist and to satisfy its
equation (`FoldExists`, `DescentExists`), from which what its calls hand on follows (`FoldType`, `DescentKeeps`).

Three proofs changed a model where they could not be finished: `CachedChartsAreWhole` as above; `UpdateCharacter` in `GuildRosters`, whose
cases overlapped, so that the definition left open which one applied; and `Evaluations`, where `steady` compared the offers of two
moments, which is not enough when a price changes and comes back (TLC finds that with two changes of price): it
now counts changes. Earlier, `HashIsHandedOn` was given its condition in this way.

Every safety invariant and every action property that a run checks is proved. Only model-checked is liveness, which
needs `ENABLED` and is beyond the prover: `EveryJobEnds`, `EveryLogIndexed`, `MembersConverge`, `RefreshEnds`,
`SnapshotsArrive`, `RowsComeRound`, `LeaversAreForgotten`, and that queries end (`QueriesRetry`).

## 11. Disagreements found

Two have runs. The formulas of the others stay in the modules. Each is false of its model: the configuration named
with it, with the formula in place of its properties (and the changes given), shows the counterexample within a minute.

1. `EveryMarketItemIsMarked` (run `catalogue_market`): the UPDATE that adds the class MARKET "to all items present in
   the market table" leaves out the items that have no class yet (`xva.service.ts:828`, `:849`).
2. `ForcedRefreshFetches` (run `characters_force`): a forced refresh of a known character is skipped. FORCE, the
   largest integer, is subtracted from the present, and every row was saved after that
   (`character-lifecycle.service.ts:63`, against `osint.controller.ts:60`).
3. `MembershipInSync` (`HashBlocks_concurrent`): a hash job that arrives while an older job of the character runs, or
   is retained after completion, is dropped, because its id is the guid (`hash-message.dto.ts:27`), and nothing
   reconciles the newer hashes.
4. `ConfirmedWhenQuiet` (`Overlaps`): two jobs that join one block compute its counters and confirmations
   without each other's row (`hash-block.service.ts:305`, against `character-response.dto.ts:62`).
5. `GivenUpIsPlaced` (`HashBlocks_concurrent` with one worker): once a block is a collision, the next character with its hash tries to found it
   again, fails at every attempt and stays outside (`hash-block.service.ts:211`, `:375`). A second way there:
   `processGenesis` also collects characters an accurate block kept although their hash changed, and the
   unique index on the member refuses them.
6. `RunningIsLocked` (`RaidLogs_indexing`): a run that finds the lock deletes it in its `finally` (`warcraft-logs.service.ts:424`).
7. `MasterIsTracked` (`GuildRosters_scans`): when the old master has left the guild, its row is deleted before the change of
   masters is looked for (`guilds.worker.ts:147`), so that neither it nor a joining new master has any entry; a
   promoted successor keeps its old rank in the table.
8. `LogsStay` (`GuildRosters_scans` with both guilds and ids, ranks 0 and 1, no failure and `FoundedFirst`): a new guild whose job carries no id takes over the logs of any guild of its realm, because
   TypeORM leaves a null out of a condition (`guild.service.ts:106`, `guild-log.service.ts:62`).
9. `DaysAreStoredOnce` (`Platform`): the look for a row of the day is said to keep a day from
   being stored again (`analytics.service.ts:89`); two hosts, or boot and cron, that look before either inserts
   store it twice. Also, a boot is said not to crash from a failing snapshot (`:63`), while nobody awaits
   the run, whose error is thrown on (`:143`); `ServiceFails` lets the process die.

## 12. Plan

What would add most, in this order:

1. Guild rosters and characters in one run with two guilds, and the guild's status.
2. The Warcraft Logs ids of realms and the realms cache; the token's row.
