--------------------------- MODULE RaidLogs_proofs ---------------------------
(***************************************************************************)
(* Proofs about RaidLogs, for any number of logs, realms and overlapping    *)
(* runs, any page size and limits: types, the bound on a log's rows, what   *)
(* becomes of an indexed log and of its characters, and that a migration    *)
(* and a listing leave nothing out, however the pages shift under them.     *)
(***************************************************************************)
EXTENDS Coverage, FiniteSetTheorems, TLAPS

\* A run that reads a page or a log has a realm and a page, and the log.
Ready(run) ==
  /\ run.step \in {"page", "log", "slug", "save"} => run.realm \in Realm /\ run.page > 0
  /\ run.step \in {"slug", "save"} => run.logs # <<>>

ListersReady == \A x \in Lister : Ready(lister[x])

MigrationReady ==
  migration.step \in {"page", "find", "update"} =>
    migration.realm \in Realm /\ migration.page > 0

\* A run of indexLogs has jobs only while it works.
IndexersReady == \A x \in Indexer : indexer[x].step # "work" => indexer[x].jobs = {}

Typed == TypeOK /\ ListersReady /\ MigrationReady /\ IndexersReady

-----------------------------------------------------------------------------
(* The operators on pages and rows                                         *)

LEMMA PageType ==
  ASSUME site \in [Realm -> Seq(Log)], NEW r \in Realm, NEW p \in Nat, p > 0
  PROVE  LogsOnPage(r, p) \in Seq(Log)
<1> DEFINE size == Len(site[r])
           first == (p - 1) * PageSize + 1
           last == IF p * PageSize < size THEN p * PageSize ELSE size
<1>1. PageSize \in Nat /\ p - 1 \in Nat
  BY ConstantsAssumption
<1>2. (p - 1) * PageSize \in Nat /\ p * PageSize \in Nat
  BY <1>1
<1>3. site[r] \in Seq(Log) /\ size \in Nat
  OBVIOUS
<1>4. first \in Nat /\ first >= 1 /\ last \in Nat /\ last <= size
  BY <1>2, <1>3
<1> HIDE DEF first, last
<1>5. SubSeq(site[r], first, last) = [i \in 1..(last - first + 1) |-> site[r][i + first - 1]]
  BY <1>3, <1>4
<1>6. \A i \in 1..(last - first + 1) : site[r][i + first - 1] \in Log
  BY <1>3, <1>4
<1>7. SubSeq(site[r], first, last) \in Seq(Log)
  BY <1>4, <1>5, <1>6
<1> QED BY <1>7 DEF LogsOnPage, first, last

LEMMA UpdatedRow ==
  ASSUME NEW row \in Row
  PROVE  /\ \A r \in Realm : /\ [row EXCEPT !.realmSlug = r] \in Row
                            /\ [row EXCEPT !.realmSlug = r].isIndexed = row.isIndexed
         /\ [row EXCEPT !.isIndexed = TRUE] \in Row
         /\ [row EXCEPT !.isIndexed = TRUE].isIndexed
BY DEF Row

\* An update of rows keeps their number, and isIndexed where it was set.
LEMMA WithRealmKeeps ==
  ASSUME rows \in [Log -> Seq(Row)], NEW logs, NEW r \in Realm
  PROVE  /\ WithRealm(logs, r) \in [Log -> Seq(Row)]
         /\ \A g \in Log : /\ Len(WithRealm(logs, r)[g]) = Len(rows[g])
                           /\ \A i \in DOMAIN rows[g] :
                                WithRealm(logs, r)[g][i].isIndexed = rows[g][i].isIndexed
<1> SUFFICES ASSUME NEW g \in Log
             PROVE  /\ WithRealm(logs, r)[g] \in Seq(Row)
                    /\ Len(WithRealm(logs, r)[g]) = Len(rows[g])
                    /\ \A i \in DOMAIN rows[g] :
                         WithRealm(logs, r)[g][i].isIndexed = rows[g][i].isIndexed
  BY DEF WithRealm
<1> DEFINE updated == [i \in DOMAIN rows[g] |-> [rows[g][i] EXCEPT !.realmSlug = r]]
<1>1. rows[g] \in Seq(Row) /\ DOMAIN rows[g] = 1..Len(rows[g]) /\ Len(rows[g]) \in Nat
  OBVIOUS
<1>2. \A i \in DOMAIN rows[g] : updated[i] \in Row /\ updated[i].isIndexed = rows[g][i].isIndexed
  <2> SUFFICES ASSUME NEW i \in DOMAIN rows[g]
               PROVE  updated[i] \in Row /\ updated[i].isIndexed = rows[g][i].isIndexed
    OBVIOUS
  <2>1. rows[g][i] \in Row
    BY <1>1
  <2>2. updated[i] = [rows[g][i] EXCEPT !.realmSlug = r]
    OBVIOUS
  <2> QED BY <2>1, <2>2, UpdatedRow
<1>3. updated \in Seq(Row) /\ Len(updated) = Len(rows[g])
  BY <1>1, <1>2
<1>4. WithRealm(logs, r)[g] = IF g \in logs THEN updated ELSE rows[g]
  BY DEF WithRealm
<1> QED BY <1>1, <1>2, <1>3, <1>4

LEMMA WithIndexedKeeps ==
  ASSUME rows \in [Log -> Seq(Row)], NEW logs
  PROVE  /\ WithIndexed(logs) \in [Log -> Seq(Row)]
         /\ \A g \in Log : /\ Len(WithIndexed(logs)[g]) = Len(rows[g])
                           /\ \A i \in DOMAIN rows[g] :
                                /\ rows[g][i].isIndexed => WithIndexed(logs)[g][i].isIndexed
                                /\ g \notin logs =>
                                     WithIndexed(logs)[g][i].isIndexed = rows[g][i].isIndexed
<1> SUFFICES ASSUME NEW g \in Log
             PROVE  /\ WithIndexed(logs)[g] \in Seq(Row)
                    /\ Len(WithIndexed(logs)[g]) = Len(rows[g])
                    /\ \A i \in DOMAIN rows[g] :
                         /\ rows[g][i].isIndexed => WithIndexed(logs)[g][i].isIndexed
                         /\ g \notin logs =>
                              WithIndexed(logs)[g][i].isIndexed = rows[g][i].isIndexed
  BY DEF WithIndexed
<1> DEFINE updated == [i \in DOMAIN rows[g] |-> [rows[g][i] EXCEPT !.isIndexed = TRUE]]
<1>1. rows[g] \in Seq(Row) /\ DOMAIN rows[g] = 1..Len(rows[g]) /\ Len(rows[g]) \in Nat
  OBVIOUS
<1>2. \A i \in DOMAIN rows[g] : updated[i] \in Row /\ updated[i].isIndexed
  BY <1>1, UpdatedRow
<1>3. updated \in Seq(Row) /\ Len(updated) = Len(rows[g])
  BY <1>1, <1>2
<1>4. WithIndexed(logs)[g] = IF g \in logs THEN updated ELSE rows[g]
  BY DEF WithIndexed
<1> QED BY <1>1, <1>2, <1>3, <1>4

-----------------------------------------------------------------------------
(* Types                                                                   *)

LEMMA TypedInit == Init => Typed
<1> SUFFICES ASSUME Init
             PROVE  Typed
  OBVIOUS
<1> USE ConstantsAssumption DEF Init
<1>1. NoListing \in Listings /\ Ready(NoListing)
  BY DEF NoListing, Listings, Ready
<1>2. NoMigration \in Migrations /\ MigrationReady
  BY DEF NoMigration, Migrations, MigrationReady
<1>3. NoIndexing \in Indexings /\ NoIndexing.jobs = {}
  BY DEF NoIndexing, Indexings
<1>4. queued \in SUBSET Char
  OBVIOUS
<1>5. TypeOK
  BY <1>1, <1>2, <1>3, <1>4 DEF TypeOK
<1>6. ListersReady /\ IndexersReady
  BY <1>1, <1>3 DEF ListersReady, IndexersReady
<1> QED BY <1>2, <1>5, <1>6 DEF Typed

\* What a step of a listing has to show of the record it leaves and of what else it writes.
LEMMA ListsKeeps ==
  ASSUME Typed, NEW x \in Lister, NEW run \in Listings, Ready(run), Lists(x, run),
         rows' \in [Log -> Seq(Row)], listingLock' \in BOOLEAN, faults' \in Nat
  PROVE  Typed'
<1> USE DEF Typed, Lists
<1>1. TypeOK'
  BY DEF TypeOK
<1>2. ListersReady'
  BY DEF ListersReady, Ready, TypeOK
<1>3. MigrationReady' /\ IndexersReady'
  BY DEF MigrationReady, IndexersReady
<1> QED BY <1>1, <1>2, <1>3

LEMMA MigratesKeeps ==
  ASSUME Typed, NEW run \in Migrations, Migrates(run),
         run.step \in {"page", "find", "update"} => run.realm \in Realm /\ run.page > 0,
         rows' \in [Log -> Seq(Row)], listingLock' \in BOOLEAN, faults' \in Nat
  PROVE  Typed'
<1> USE DEF Typed, Migrates
<1>1. TypeOK'
  BY DEF TypeOK
<1>2. MigrationReady'
  BY DEF MigrationReady
<1>3. ListersReady' /\ IndexersReady'
  BY DEF ListersReady, Ready, IndexersReady
<1> QED BY <1>1, <1>2, <1>3

LEMMA IndexesKeeps ==
  ASSUME Typed, NEW x \in Indexer, NEW run \in Indexings, Indexes(x, run),
         run.step # "work" => run.jobs = {},
         rows' \in [Log -> Seq(Row)], indexingLock' \in BOOLEAN, queued' \in SUBSET Char,
         faults' \in Nat
  PROVE  Typed'
<1> USE DEF Typed, Indexes
<1>1. TypeOK'
  BY DEF TypeOK
<1>2. IndexersReady'
  BY DEF IndexersReady, TypeOK
<1>3. ListersReady' /\ MigrationReady'
  BY DEF ListersReady, Ready, MigrationReady
<1> QED BY <1>1, <1>2, <1>3

LEMMA StepAndLogs ==
  ASSUME NEW run \in Listings, NEW step \in {"realm", "log", "release"}, NEW logs \in Seq(Log)
  PROVE  LET next == [run EXCEPT !.step = step, !.logs = logs]
         IN /\ next \in Listings
            /\ next.step = step
            /\ next.realm = run.realm
            /\ next.page = run.page
BY DEF Listings

LEMMA ListingTyped ==
  ASSUME Typed, NEW x \in Lister, Listing(x) \/ ListingFails(x)
  PROVE  Typed'
<1> DEFINE run == lister[x]
<1>1. /\ run \in Listings /\ Ready(run)
      /\ rows \in [Log -> Seq(Row)] /\ listingLock \in BOOLEAN /\ faults \in Nat
      /\ site \in [Realm -> Seq(Log)]
  BY DEF Typed, TypeOK, ListersReady
<1>2. NoListing \in Listings /\ Ready(NoListing)
  BY DEF NoListing, Listings, Ready
<1>3. CASE StartListing(x)
  <2>1. [NoListing EXCEPT !.step = "check"] \in Listings
    BY <1>2 DEF Listings
  <2>2. Ready([NoListing EXCEPT !.step = "check"])
    BY DEF Ready, NoListing
  <2> QED BY <1>1, <1>3, <2>1, <2>2, ListsKeeps DEF StartListing
<1>4. CASE CheckListingLock(x)
  <2> DEFINE next == [run EXCEPT !.step = IF listingLock THEN "release" ELSE "lock"]
  <2>1. next \in Listings /\ Ready(next)
    BY <1>1 DEF Listings, Ready
  <2> QED BY <1>1, <1>4, <2>1, ListsKeeps DEF CheckListingLock
<1>5. CASE LockListing(x)
  <2> DEFINE next == [run EXCEPT !.step = "realm", !.todo = Realm]
  <2>1. Listed \in SUBSET Log
    BY <1>1 DEF Listed
  <2>2. next \in Listings /\ Ready(next)
    BY <1>1, <2>1 DEF Listings, Ready
  <2> QED BY <1>1, <1>5, <2>2, ListsKeeps DEF LockListing
<1>6. CASE NextRealm(x)
  <2>1. CASE run.todo = {}
    <3> DEFINE next == [run EXCEPT !.step = "release"]
    <3>1. next \in Listings /\ Ready(next)
      BY <1>1 DEF Listings, Ready
    <3> QED BY <1>1, <1>6, <2>1, <3>1, ListsKeeps DEF NextRealm
  <2>2. CASE run.todo # {}
    <3> DEFINE next(r) == [run EXCEPT !.step = "page", !.todo = @ \ {r}, !.realm = r,
                                      !.page = FromPage, !.exists = 0]
    <3>1. PICK r \in run.todo : Lists(x, next(r))
      BY <1>6, <2>2 DEF NextRealm
    <3>2. r \in Realm /\ run.todo \ {r} \in SUBSET Realm
      BY <1>1 DEF Listings
    <3>3. next(r) \in Listings /\ Ready(next(r))
      BY <1>1, <3>2, ConstantsAssumption DEF Listings, Ready
    <3> HIDE DEF next
    <3> QED BY <1>1, <1>6, <3>1, <3>3, ListsKeeps DEF NextRealm
  <2> QED BY <2>1, <2>2
<1>7. CASE ReadPage(x)
  <2> DEFINE logs == LogsOnPage(run.realm, run.page)
             next(step, read) == [run EXCEPT !.step = step, !.logs = read]
  <2>1. run.step = "page" /\ run.realm \in Realm /\ run.page \in Nat /\ run.page > 0
    BY <1>1, <1>7 DEF ReadPage, Ready, Listings
  <2>2. logs \in Seq(Log)
    BY <1>1, <2>1, PageType
  <2>3. Lists(x, next("realm", <<>>)) \/ Lists(x, next("log", logs))
    BY <1>7 DEF ReadPage
  <2> HIDE DEF logs, run
  <2>4. /\ next("realm", <<>>) \in Listings /\ next("log", logs) \in Listings
        /\ next("realm", <<>>).step = "realm" /\ next("log", logs).step = "log"
        /\ next("log", logs).realm = run.realm /\ next("log", logs).page = run.page
    <3>1. <<>> \in Seq(Log) /\ run \in Listings
      BY <1>1
    <3>2. next("realm", <<>>) \in Listings /\ next("realm", <<>>).step = "realm"
      BY ONLY <3>1, StepAndLogs
    <3>3. /\ next("log", logs) \in Listings /\ next("log", logs).step = "log"
          /\ next("log", logs).realm = run.realm /\ next("log", logs).page = run.page
      BY ONLY <2>2, <3>1 DEF Listings
    <3> QED BY <3>2, <3>3
  <2> HIDE DEF next
  <2>5. Ready(next("realm", <<>>)) /\ Ready(next("log", logs))
    BY <2>1, <2>4 DEF Ready
  <2> QED BY <1>1, <1>7, <2>3, <2>4, <2>5, ListsKeeps DEF ReadPage, run
<1>8. CASE FindLog(x)
  <2>1. /\ run.step = "log" /\ run.realm \in Realm /\ run.page \in Nat /\ run.page > 0
        /\ run.exists \in Nat /\ run.logs \in Seq(Log)
    BY <1>1, <1>8 DEF FindLog, Ready, Listings
  <2>2. CASE run.logs = <<>>
    <3> DEFINE n == run.page + 1
               next == [run EXCEPT !.step = "page", !.page = n]
    <3>1. n \in Nat /\ n > 0
      BY <2>1
    <3>2. Lists(x, next)
      BY <1>8, <2>2 DEF FindLog
    <3> HIDE DEF n, run
    <3>3. next \in Listings /\ next.realm = run.realm /\ next.page = n /\ next.step = "page"
      BY <1>1, <3>1 DEF Listings
    <3> HIDE DEF next
    <3>4. Ready(next)
      BY <2>1, <3>1, <3>3 DEF Ready
    <3> QED BY <1>1, <1>8, <3>2, <3>3, <3>4, ListsKeeps DEF FindLog, run
  <2>3. CASE run.logs # <<>> /\ ~Known(Head(run.logs))
    <3> DEFINE next == [run EXCEPT !.step = "save"]
    <3>1. next \in Listings /\ Ready(next)
      BY <1>1, <2>1, <2>3 DEF Listings, Ready
    <3> QED BY <1>1, <1>8, <2>3, <3>1, ListsKeeps DEF FindLog
  <2>4. CASE run.logs # <<>> /\ Known(Head(run.logs))
    <3> DEFINE n == run.exists + 1
               found == [run EXCEPT !.step = "slug", !.exists = n]
               passed == [NextLog(run) EXCEPT !.exists = n]
    <3>1. n \in Nat /\ Tail(run.logs) \in Seq(Log)
      BY <2>1, <2>4
    <3>2. NextLog(run) \in Listings /\ NextLog(run).exists = run.exists
      BY <1>1, <3>1 DEF NextLog, Listings
    <3>3. Ready(NextLog(run))
      BY <1>1, <2>1 DEF NextLog, Listings, Ready
    <3>4. Lists(x, found) \/ Lists(x, passed)
      BY <1>8, <2>4, <3>2 DEF FindLog
    <3> DEFINE tail == NextLog(run)
    <3> HIDE DEF n, run, tail
    <3>5. /\ found \in Listings
          /\ found.realm = run.realm /\ found.page = run.page /\ found.logs = run.logs
      BY <1>1, <3>1 DEF Listings
    <3>7. passed = [tail EXCEPT !.exists = n]
      BY DEF tail
    <3>8. [tail EXCEPT !.exists = n] \in Listings /\ Ready([tail EXCEPT !.exists = n])
      <4>1. tail \in Listings /\ Ready(tail)
        BY <3>2, <3>3 DEF tail
      <4> QED BY <3>1, <4>1 DEF Listings, Ready
    <3>9. passed \in Listings /\ Ready(passed)
      BY <3>7, <3>8
    <3> HIDE DEF found, passed
    <3>6. Ready(found)
      BY <2>1, <2>4, <3>5 DEF Ready
    <3> QED BY <1>1, <1>8, <3>4, <3>5, <3>6, <3>9, ListsKeeps DEF FindLog, run
  <2> QED BY <2>2, <2>3, <2>4
<1>9. ASSUME run.step \in {"slug", "save"}
      PROVE  /\ run.logs \in Seq(Log) /\ run.logs # <<>> /\ Head(run.logs) \in Log
             /\ NextLog(run) \in Listings /\ Ready(NextLog(run)) /\ run.realm \in Realm
             /\ NextLog(run).exists = run.exists /\ run.exists \in Nat
  <2>1. run.logs \in Seq(Log) /\ run.logs # <<>> /\ run.realm \in Realm /\ run.page > 0
    BY <1>1, <1>9 DEF Listings, Ready
  <2>2. Head(run.logs) \in Log /\ Tail(run.logs) \in Seq(Log)
    BY <2>1
  <2> QED BY <1>1, <2>1, <2>2 DEF NextLog, Listings, Ready
<1>10. CASE UpdateSlug(x)
  <2>1. rows' \in [Log -> Seq(Row)]
    BY <1>1, <1>9, <1>10, WithRealmKeeps DEF UpdateSlug
  <2> QED BY <1>1, <1>9, <1>10, <2>1, ListsKeeps DEF UpdateSlug
<1>11. CASE SaveLog(x)
  <2> DEFINE next == [NextLog(run) EXCEPT !.exists = IF @ > 1 THEN @ - 1 ELSE @]
             row == [isIndexed |-> FALSE, realmSlug |-> run.realm]
  <2>1. run.step = "save"
    BY <1>11 DEF SaveLog
  <2>2. row \in Row
    BY <1>9, <2>1 DEF Row
  <2>3. rows' = [rows EXCEPT ![Head(run.logs)] = Append(@, row)]
    BY <1>11 DEF SaveLog
  <2> HIDE DEF row
  <2>4. rows' \in [Log -> Seq(Row)]
    <3>1. rows[Head(run.logs)] \in Seq(Row)
      BY <1>1, <1>9, <2>1
    <3>2. Append(rows[Head(run.logs)], row) \in Seq(Row)
      BY <2>2, <3>1
    <3> QED BY <1>1, <2>3, <3>2
  <2>6. Lists(x, next)
    BY <1>11 DEF SaveLog
  <2>7. (IF run.exists > 1 THEN run.exists - 1 ELSE run.exists) \in Nat
    BY <1>9, <2>1
  <2>5. next \in Listings /\ Ready(next)
    BY <1>9, <2>1, <2>7 DEF Listings, Ready
  <2> QED BY <1>1, <1>11, <2>4, <2>5, <2>6, ListsKeeps DEF SaveLog
<1>12. CASE ReleaseListing(x)
  BY <1>1, <1>2, <1>12, ListsKeeps DEF ReleaseListing
<1>13. CASE ListingFails(x)
  <2> DEFINE next(step) == [run EXCEPT !.step = step, !.logs = <<>>]
  <2>1. Lists(x, next("release")) \/ Lists(x, next("realm"))
    BY <1>13 DEF ListingFails
  <2> HIDE DEF run
  <2>2. /\ next("release") \in Listings /\ next("release").step = "release"
        /\ next("realm") \in Listings /\ next("realm").step = "realm"
    <3>1. <<>> \in Seq(Log)
      OBVIOUS
    <3> QED BY <1>1, <3>1, StepAndLogs
  <2> HIDE DEF next
  <2>3. Ready(next("release")) /\ Ready(next("realm"))
    BY <2>2 DEF Ready
  <2> QED BY <1>1, <1>13, <2>1, <2>2, <2>3, ListsKeeps DEF ListingFails, Fault, run
<1> QED BY <1>3, <1>4, <1>5, <1>6, <1>7, <1>8, <1>10, <1>11, <1>12, <1>13 DEF Listing

LEMMA MigrationTyped ==
  ASSUME Typed, Migration \/ MigrationFails
  PROVE  Typed'
<1>1. /\ migration \in Migrations /\ MigrationReady
      /\ rows \in [Log -> Seq(Row)] /\ listingLock \in BOOLEAN /\ faults \in Nat
      /\ site \in [Realm -> Seq(Log)]
  BY DEF Typed, TypeOK
<1>2. CASE CheckMigration
  <2> DEFINE next(step) == [migration EXCEPT !.step = step]
  <2>1. PICK step \in {"done", "check", "lock"} : Migrates(next(step))
    BY <1>2 DEF CheckMigration
  <2>2. next(step) \in Migrations /\ next(step).step = step
    BY <1>1 DEF Migrations
  <2> HIDE DEF next
  <2> QED BY <1>1, <1>2, <2>1, <2>2, MigratesKeeps DEF CheckMigration
<1>3. CASE LockMigration
  <2> DEFINE next == [migration EXCEPT !.step = "realm", !.todo = Realm]
  <2>1. next \in Migrations /\ next.step = "realm"
    BY <1>1 DEF Migrations
  <2> QED BY <1>1, <1>3, <2>1, MigratesKeeps DEF LockMigration
<1>4. CASE NextMigrationRealm
  <2>1. CASE migration.todo = {}
    <3> DEFINE next == [migration EXCEPT !.step = "release"]
    <3>1. next \in Migrations /\ next.step = "release"
      BY <1>1 DEF Migrations
    <3> QED BY <1>1, <1>4, <2>1, <3>1, MigratesKeeps DEF NextMigrationRealm
  <2>2. CASE migration.todo # {}
    <3> DEFINE next(r) == [migration EXCEPT !.step = "page", !.todo = @ \ {r}, !.realm = r,
                                            !.page = 1]
    <3>1. PICK r \in migration.todo : Migrates(next(r))
      BY <1>4, <2>2 DEF NextMigrationRealm
    <3>2. r \in Realm /\ migration.todo \ {r} \in SUBSET Realm
      BY <1>1 DEF Migrations
    <3>3. next(r) \in Migrations
      BY <1>1, <3>2 DEF Migrations
    <3>4. next(r).realm \in Realm /\ next(r).page > 0
      BY <1>1, <3>2 DEF Migrations
    <3> HIDE DEF next
    <3> QED BY <1>1, <1>4, <3>1, <3>3, <3>4, MigratesKeeps DEF NextMigrationRealm
  <2> QED BY <2>1, <2>2
<1>5. CASE ReadMigrationPage
  <2> DEFINE logs == LogsOnPage(migration.realm, migration.page)
             next == [migration EXCEPT !.step = IF logs = <<>> THEN "realm" ELSE "find",
                                       !.logs = {logs[i] : i \in DOMAIN logs}]
  <2>1. migration.realm \in Realm /\ migration.page \in Nat /\ migration.page > 0
    BY <1>1, <1>5 DEF ReadMigrationPage, MigrationReady, Migrations
  <2>2. logs \in Seq(Log)
    BY <1>1, <2>1, PageType
  <2>3. Migrates(next)
    BY <1>5 DEF ReadMigrationPage
  <2> HIDE DEF logs
  <2>4. {logs[i] : i \in DOMAIN logs} \in SUBSET Log
    BY <2>2
  <2>5. next \in Migrations /\ next.realm = migration.realm /\ next.page = migration.page
    BY <1>1, <2>4 DEF Migrations
  <2> HIDE DEF next
  <2> QED BY <1>1, <1>5, <2>1, <2>3, <2>5, MigratesKeeps DEF ReadMigrationPage
<1>6. CASE FindMissingSlugs
  <2> DEFINE next == [migration EXCEPT !.step = "update", !.logs = {g \in @ : LacksRealm(g)}]
  <2>1. {g \in migration.logs : LacksRealm(g)} \in SUBSET Log
    BY <1>1 DEF Migrations
  <2>2. next \in Migrations /\ next.realm = migration.realm /\ next.page = migration.page
    BY <1>1, <2>1 DEF Migrations
  <2>3. Migrates(next)
    BY <1>6 DEF FindMissingSlugs
  <2> HIDE DEF next
  <2> QED BY <1>1, <1>6, <2>2, <2>3, MigratesKeeps DEF FindMissingSlugs, MigrationReady
<1>7. CASE UpdateMissingSlugs
  <2> DEFINE n == migration.page + 1
             next == [migration EXCEPT !.step = "page", !.page = n, !.logs = {}]
  <2>1. migration.realm \in Realm /\ n \in Nat /\ n > 0
    BY <1>1, <1>7 DEF UpdateMissingSlugs, MigrationReady, Migrations
  <2>2. Migrates(next)
    BY <1>7 DEF UpdateMissingSlugs
  <2> HIDE DEF n
  <2>3. next \in Migrations
    BY <1>1, <2>1 DEF Migrations
  <2>5. next.realm = migration.realm /\ next.page = n
    BY <1>1, <2>1 DEF Migrations
  <2>4. rows' \in [Log -> Seq(Row)]
    BY <1>1, <1>7, <2>1, WithRealmKeeps DEF UpdateMissingSlugs
  <2> HIDE DEF next
  <2> QED BY <1>1, <1>7, <2>1, <2>2, <2>3, <2>4, <2>5, MigratesKeeps DEF UpdateMissingSlugs
<1>8. CASE ReleaseMigration
  <2> DEFINE next == [NoMigration EXCEPT !.step = "done"]
  <2>1. next \in Migrations /\ next.step = "done"
    BY DEF Migrations, NoMigration
  <2> QED BY <1>1, <1>8, <2>1, MigratesKeeps DEF ReleaseMigration
<1>9. CASE MigrationFails
  <2> DEFINE next(step) == [migration EXCEPT !.step = step, !.logs = {}]
  <2>1. PICK step \in {"realm", "release"} : Migrates(next(step))
    BY <1>9 DEF MigrationFails
  <2>2. next(step) \in Migrations /\ next(step).step = step
    BY <1>1 DEF Migrations
  <2> HIDE DEF next
  <2> QED BY <1>1, <1>9, <2>1, <2>2, MigratesKeeps DEF MigrationFails, Fault
<1> QED BY <1>2, <1>3, <1>4, <1>5, <1>6, <1>7, <1>8, <1>9 DEF Migration

\* A job of a run that works: its record, and what the run's other jobs become.
LEMMA JobProceedsTyped ==
  ASSUME Typed, NEW x \in Indexer, NEW job \in indexer[x].jobs, NEW next \in SUBSET Jobs,
         JobProceeds(x, job, next),
         rows' \in [Log -> Seq(Row)], queued' \in SUBSET Char, faults' \in Nat
  PROVE  Typed'
<1> DEFINE run == [indexer[x] EXCEPT !.jobs = (@ \ {job}) \cup next]
<1>1. indexer[x] \in Indexings /\ indexer[x].step = "work" /\ indexingLock \in BOOLEAN
  BY DEF Typed, TypeOK, JobProceeds
<1>2. run \in Indexings /\ run.step = "work"
  <2>1. (indexer[x].jobs \ {job}) \cup next \in SUBSET Jobs
    BY <1>1 DEF Indexings
  <2> QED BY <1>1, <2>1 DEF Indexings
<1>3. Indexes(x, run) /\ indexingLock' \in BOOLEAN
  BY <1>1 DEF JobProceeds
<1> HIDE DEF run
<1> QED BY <1>2, <1>3, IndexesKeeps

LEMMA JobType ==
  ASSUME NEW g \in Log, NEW step \in {"fights", "graphql", "mark", "queue"},
         NEW characters \in SUBSET Char
  PROVE  Job(g, step, characters) \in Jobs
BY DEF Job, Jobs

LEMMA JobStepTyped ==
  ASSUME Typed, NEW x \in Indexer, NEW job \in indexer[x].jobs,
         JobStep(x, job) \/ GraphQLFails(x, job) \/ LogFails(x, job)
  PROVE  Typed'
<1>1. /\ indexer[x] \in Indexings /\ rows \in [Log -> Seq(Row)]
      /\ queued \in SUBSET Char /\ faults \in Nat
  BY DEF Typed, TypeOK
<1>2. job \in Jobs
  BY <1>1 DEF Indexings
<1>3. job.log \in Log /\ job.characters \in SUBSET Char /\ LogCharacters[job.log] \in SUBSET Char
  BY <1>2, ConstantsAssumption DEF Jobs
<1>4. CASE FetchFights(x, job)
  <2> DEFINE next(characters) ==
               {Job(job.log, IF characters = {} THEN "graphql" ELSE "mark", characters)}
  <2>1. PICK characters \in {LogCharacters[job.log], {}} : JobProceeds(x, job, next(characters))
    BY <1>4 DEF FetchFights
  <2>2. next(characters) \in SUBSET Jobs
    BY <1>3, <2>1, JobType
  <2> HIDE DEF next
  <2> QED BY <1>1, <1>4, <2>1, <2>2, JobProceedsTyped DEF FetchFights
<1>5. CASE FetchGraphQL(x, job)
  <2>1. {Job(job.log, "mark", LogCharacters[job.log])} \in SUBSET Jobs
    BY <1>3, JobType
  <2> QED BY <1>1, <1>5, <2>1, JobProceedsTyped DEF FetchGraphQL
<1>6. CASE MarkLogAsIndexed(x, job)
  <2> DEFINE next == IF job.characters = {} THEN {} ELSE {Job(job.log, "queue", job.characters)}
  <2>1. next \in SUBSET Jobs
    BY <1>3, JobType
  <2>2. rows' \in [Log -> Seq(Row)]
    BY <1>1, <1>6, WithIndexedKeeps DEF MarkLogAsIndexed
  <2>3. JobProceeds(x, job, next)
    BY <1>6 DEF MarkLogAsIndexed
  <2> HIDE DEF next
  <2> QED BY <1>1, <1>6, <2>1, <2>2, <2>3, JobProceedsTyped DEF MarkLogAsIndexed
<1>7. CASE CharactersToQueue(x, job)
  BY <1>1, <1>3, <1>7, JobProceedsTyped DEF CharactersToQueue
<1>8. CASE GraphQLFails(x, job)
  <2>1. {Job(job.log, "mark", {})} \in SUBSET Jobs
    BY <1>3, JobType
  <2> QED BY <1>1, <1>8, <2>1, JobProceedsTyped DEF GraphQLFails, Fault
<1>9. CASE LogFails(x, job)
  BY <1>1, <1>9, JobProceedsTyped DEF LogFails, Fault
<1> QED BY <1>4, <1>5, <1>6, <1>7, <1>8, <1>9 DEF JobStep

LEMMA IndexingTyped ==
  ASSUME Typed, NEW x \in Indexer, Indexing(x) \/ IndexingFails(x)
  PROVE  Typed'
<1> DEFINE run == indexer[x]
<1>1. /\ run \in Indexings /\ (run.step # "work" => run.jobs = {})
      /\ rows \in [Log -> Seq(Row)] /\ indexingLock \in BOOLEAN /\ faults \in Nat
      /\ queued \in SUBSET Char
  BY DEF Typed, TypeOK, IndexersReady
<1>2. \A step \in {"check", "lock", "take", "release", "work"} :
        /\ [run EXCEPT !.step = step] \in Indexings
        /\ [run EXCEPT !.step = step].jobs = run.jobs
  BY <1>1 DEF Indexings
<1>3. NoIndexing \in Indexings /\ NoIndexing.jobs = {}
  BY DEF NoIndexing, Indexings
<1>4. CASE StartIndexing(x)
  <2> DEFINE next == [NoIndexing EXCEPT !.step = "check"]
  <2>1. next \in Indexings /\ next.jobs = {}
    BY DEF NoIndexing, Indexings
  <2> QED BY <1>1, <1>4, <2>1, IndexesKeeps DEF StartIndexing
<1>5. CASE CheckIndexingLock(x)
  <2>1. PICK step \in {"release", "lock"} : Indexes(x, [run EXCEPT !.step = step])
    BY <1>5 DEF CheckIndexingLock
  <2>2. run.jobs = {}
    BY <1>1, <1>5 DEF CheckIndexingLock
  <2> QED BY <1>1, <1>2, <1>5, <2>1, <2>2, IndexesKeeps DEF CheckIndexingLock
<1>6. CASE LockIndexing(x)
  BY <1>1, <1>2, <1>6, IndexesKeeps DEF LockIndexing
<1>7. CASE TakeLogs(x)
  <2> DEFINE next(logs) == [run EXCEPT !.step = "work", !.todo = logs]
  <2>1. PICK logs \in SUBSET Log : Indexes(x, next(logs))
    BY <1>7 DEF TakeLogs
  <2>2. next(logs) \in Indexings /\ next(logs).step = "work"
    BY <1>1 DEF Indexings
  <2> HIDE DEF next
  <2> QED BY <1>1, <1>7, <2>1, <2>2, IndexesKeeps DEF TakeLogs
<1>8. ASSUME NEW g \in Log, StartLog(x, g)
      PROVE  Typed'
  <2> DEFINE job == Job(g, "fights", {})
             next == [run EXCEPT !.todo = @ \ {g}, !.jobs = @ \cup {job}]
  <2>1. job \in Jobs
    BY JobType
  <2>2. Indexes(x, next) /\ run.step = "work"
    BY <1>8 DEF StartLog
  <2> HIDE DEF job
  <2>3. next \in Indexings /\ next.step = "work"
    BY <1>1, <2>1, <2>2 DEF Indexings
  <2> HIDE DEF next
  <2> QED BY <1>1, <1>8, <2>2, <2>3, IndexesKeeps DEF StartLog
<1>9. ASSUME NEW job \in run.jobs, JobStep(x, job)
      PROVE  Typed'
  BY <1>9, JobStepTyped
<1>10. CASE FinishIndexing(x)
  BY <1>1, <1>2, <1>10, IndexesKeeps DEF FinishIndexing
<1>11. CASE ReleaseIndexing(x)
  BY <1>1, <1>3, <1>11, IndexesKeeps DEF ReleaseIndexing
<1>12. CASE IndexingFails(x)
  <2>1. Indexes(x, [run EXCEPT !.step = "release"]) /\ run.jobs = {}
    BY <1>1, <1>12 DEF IndexingFails
  <2>2. UNCHANGED <<rows, indexingLock, queued>> /\ faults' \in Nat
    BY <1>1, <1>12 DEF IndexingFails, Fault
  <2> QED BY <1>1, <1>2, <2>1, <2>2, IndexesKeeps
<1> QED BY <1>4, <1>5, <1>6, <1>7, <1>8, <1>9, <1>10, <1>11, <1>12 DEF Indexing

LEMMA TypedNext == Typed /\ [Next]_vars => Typed'
<1> SUFFICES ASSUME Typed, [Next]_vars
             PROVE  Typed'
  OBVIOUS
<1>1. CASE UNCHANGED vars
  BY <1>1 DEF vars, keys, Typed, TypeOK, ListersReady, Ready, MigrationReady, IndexersReady
<1>2. ASSUME NEW r \in Realm, NEW g \in Log, Publish(r, g)
      PROVE  Typed'
  <2>1. site \in [Realm -> Seq(Log)] /\ site[r] \in Seq(Log)
    BY DEF Typed, TypeOK
  <2>2. <<g>> \o site[r] \in Seq(Log)
    BY <2>1
  <2>3. site' \in [Realm -> Seq(Log)]
    BY <1>2, <2>1, <2>2 DEF Publish
  <2> QED BY <1>2, <2>3 DEF Publish, keys, Typed, TypeOK, ListersReady, Ready, MigrationReady,
                            IndexersReady
<1>3. CASE Expire
  <2>1. listingLock' \in BOOLEAN /\ indexingLock' \in BOOLEAN
    <3>1. listingLock \in BOOLEAN /\ indexingLock \in BOOLEAN
      BY DEF Typed, TypeOK
    <3> QED BY <1>3, <3>1 DEF Expire
  <2>2. expiries' \in Nat
    BY <1>3 DEF Expire, Typed, TypeOK
  <2>3. UNCHANGED <<site, rows, lister, migration, indexer, queued, faults>>
    BY <1>3 DEF Expire
  <2> QED BY <2>1, <2>2, <2>3 DEF Typed, TypeOK, ListersReady, Ready, MigrationReady, IndexersReady
<1>4. ASSUME NEW x \in Lister, Listing(x) \/ ListingFails(x)
      PROVE  Typed'
  BY <1>4, ListingTyped
<1>5. CASE Migration \/ MigrationFails
  BY <1>5, MigrationTyped
<1>6. ASSUME NEW x \in Indexer, Indexing(x) \/ IndexingFails(x)
      PROVE  Typed'
  BY <1>6, IndexingTyped
<1>7. ASSUME NEW x \in Indexer, NEW job \in indexer[x].jobs,
             GraphQLFails(x, job) \/ LogFails(x, job)
      PROVE  Typed'
  BY <1>7, JobStepTyped
<1>8. CASE Crash
  <2>1. NoListing \in Listings /\ Ready(NoListing)
    BY DEF NoListing, Listings, Ready
  <2>2. NoMigration \in Migrations /\ NoMigration.step = "count"
    BY DEF NoMigration, Migrations
  <2>3. NoIndexing \in Indexings /\ NoIndexing.jobs = {}
    BY DEF NoIndexing, Indexings
  <2>4. TypeOK'
    BY <1>8, <2>1, <2>2, <2>3 DEF Crash, Fault, keys, Typed, TypeOK
  <2>5. ListersReady' /\ IndexersReady'
    BY <1>8, <2>1, <2>3 DEF Crash, ListersReady, IndexersReady
  <2>6. MigrationReady'
    BY <1>8, <2>2 DEF Crash, MigrationReady
  <2> QED BY <2>4, <2>5, <2>6 DEF Typed
<1> QED BY <1>1, <1>2, <1>3, <1>4, <1>5, <1>6, <1>7, <1>8 DEF Next, Failure

\* Every reachable state is well-typed, for any number of runs, logs and realms.
THEOREM TypeCorrect == Spec => []TypeOK
<1>1. Spec => []Typed
  BY TypedInit, TypedNext, PTL DEF Spec
<1>2. Typed => TypeOK
  BY DEF Typed
<1> QED BY <1>1, <1>2, PTL

-----------------------------------------------------------------------------
(* What becomes of rows                                                    *)

\* The steps that write rows.
LEMMA RowsWriters ==
  ASSUME [Next]_vars
  PROVE  \/ UNCHANGED rows
         \/ \E x \in Lister : UpdateSlug(x) \/ SaveLog(x)
         \/ UpdateMissingSlugs
         \/ \E x \in Indexer : \E job \in indexer[x].jobs : MarkLogAsIndexed(x, job)
<1>1. CASE UNCHANGED vars
  BY <1>1 DEF vars
<1>2. CASE Migration
  BY <1>2 DEF Migration, CheckMigration, LockMigration, NextMigrationRealm, ReadMigrationPage,
              FindMissingSlugs, ReleaseMigration
<1>3. ASSUME NEW x \in Lister, Listing(x), ~UpdateSlug(x), ~SaveLog(x)
      PROVE  UNCHANGED rows
  BY <1>3 DEF Listing, StartListing, CheckListingLock, LockListing, NextRealm, ReadPage, FindLog,
              ReleaseListing
<1>4. ASSUME NEW x \in Indexer, NEW job \in indexer[x].jobs, JobStep(x, job),
             ~MarkLogAsIndexed(x, job)
      PROVE  UNCHANGED rows
  BY <1>4 DEF JobStep, FetchFights, FetchGraphQL, CharactersToQueue
<1>5. ASSUME NEW x \in Indexer, Indexing(x), \A job \in indexer[x].jobs : ~JobStep(x, job)
      PROVE  UNCHANGED rows
  BY <1>5 DEF Indexing, StartIndexing, CheckIndexingLock, LockIndexing, TakeLogs, StartLog,
              FinishIndexing, ReleaseIndexing
<1>6. CASE Failure
  BY <1>6 DEF Failure, ListingFails, MigrationFails, IndexingFails, GraphQLFails, LogFails, Crash
<1>7. CASE \E r \in Realm, g \in Log : Publish(r, g)
  BY <1>7 DEF Publish
<1>8. CASE Expire
  BY <1>8 DEF Expire
<1> QED BY <1>1, <1>2, <1>3, <1>4, <1>5, <1>6, <1>7, <1>8 DEF Next

LEMMA SavingFinite ==
  ASSUME NEW g \in Log
  PROVE  IsFiniteSet(Saving(g)) /\ Cardinality(Saving(g)) \in Nat
         /\ Cardinality(Saving(g)) <= Cardinality(Lister) /\ Cardinality(Lister) \in Nat
<1>1. Saving(g) \subseteq Lister
  BY DEF Saving
<1> QED BY <1>1, ConstantsAssumption, FS_Subset, FS_CardinalityType

\* A listing that finds no row may join those that save one; it is the only way in.
LEMMA SavingJoins ==
  ASSUME Typed, [Next]_vars, NEW g \in Log, rows[g] # <<>>
  PROVE  Saving(g)' \subseteq Saving(g)
<1> SUFFICES ASSUME NEW y \in Lister, lister'[y].step = "save", Head(lister'[y].logs) = g,
                    lister'[y] # lister[y]
             PROVE  FALSE
  BY DEF Saving
<1>1. lister \in [Lister -> Listings]
  BY DEF Typed, TypeOK
<1>2. ~Crash
  BY DEF Crash, NoListing
<1>3. PICK x \in Lister : Listing(x) \/ ListingFails(x)
  <2>1. lister' # lister
    OBVIOUS
  <2>2. ASSUME NEW x \in Indexer, NEW job \in indexer[x].jobs,
               JobStep(x, job) \/ GraphQLFails(x, job) \/ LogFails(x, job)
        PROVE  FALSE
    BY <2>1, <2>2 DEF JobStep, FetchFights, FetchGraphQL, MarkLogAsIndexed, CharactersToQueue,
                      GraphQLFails, LogFails, JobProceeds, Indexes
  <2>3. ASSUME NEW x \in Indexer, Indexing(x) \/ IndexingFails(x)
        PROVE  FALSE
    BY <2>1, <2>2, <2>3 DEF Indexing, StartIndexing, CheckIndexingLock, LockIndexing, TakeLogs,
                      StartLog, FinishIndexing, ReleaseIndexing, IndexingFails, Indexes
  <2>4. ~(Migration \/ MigrationFails)
    BY <2>1 DEF Migration, MigrationFails, CheckMigration, LockMigration, NextMigrationRealm,
                ReadMigrationPage, FindMissingSlugs, UpdateMissingSlugs, ReleaseMigration, Migrates
  <2>5. ~Expire /\ (\A r \in Realm, h \in Log : ~Publish(r, h)) /\ ~UNCHANGED vars
    BY <2>1 DEF Expire, Publish, vars
  <2> QED BY <1>2, <2>2, <2>3, <2>4, <2>5 DEF Next, Failure
<1>4. \E run : Lists(x, run)
  BY <1>3 DEF Listing, StartListing, CheckListingLock, LockListing, NextRealm, ReadPage, FindLog,
              UpdateSlug, SaveLog, ReleaseListing, ListingFails
<1>5. x = y
  BY <1>1, <1>4 DEF Lists
<1>6. CASE FindLog(x)
  <2> DEFINE run == lister[x]
             passed == [NextLog(run) EXCEPT !.exists = @ + 1]
             found == [run EXCEPT !.step = "slug", !.exists = @ + 1]
  <2>1. CASE run.logs = <<>>
    <3>1. lister'[y] = [run EXCEPT !.step = "page", !.page = @ + 1]
      BY <1>1, <1>5, <1>6, <2>1 DEF FindLog, Lists
    <3> QED BY <1>1, <3>1 DEF Listings
  <2>2. CASE run.logs # <<>> /\ ~Known(Head(run.logs))
    <3>1. lister'[y] = [run EXCEPT !.step = "save"]
      BY <1>1, <1>5, <1>6, <2>2 DEF FindLog, Lists
    <3>2. lister'[y].logs = run.logs
      BY <1>1, <3>1 DEF Listings
    <3> QED BY <2>2, <3>2 DEF Known
  <2>3. CASE run.logs # <<>> /\ Known(Head(run.logs))
    <3>1. Lists(x, found) \/ Lists(x, passed)
      BY <1>6, <2>3 DEF FindLog
    <3>2. found.step = "slug" /\ passed.step = "log"
      BY <1>1 DEF Listings, NextLog
    <3> HIDE DEF found, passed
    <3> QED BY <1>1, <1>5, <3>1, <3>2 DEF Lists
  <2> QED BY <2>1, <2>2, <2>3
<1>7. CASE ~FindLog(x)
  <2> DEFINE run == lister[x]
  <2>1. ASSUME NEW next, Lists(x, next), next.step # "save"
        PROVE  FALSE
    BY <1>1, <1>5, <2>1 DEF Lists
  <2>2. CASE StartListing(x) \/ CheckListingLock(x) \/ LockListing(x)
    BY <1>1, <2>1, <2>2 DEF StartListing, CheckListingLock, LockListing, NoListing, Listings
  <2>3. CASE NextRealm(x)
    BY <1>1, <2>1, <2>3 DEF NextRealm, Listings
  <2>4. CASE ReadPage(x)
    BY <1>1, <2>1, <2>4 DEF ReadPage, Listings
  <2>5. CASE UpdateSlug(x)
    BY <1>1, <2>1, <2>5 DEF UpdateSlug, NextLog, Listings
  <2>6. CASE SaveLog(x)
    BY <1>1, <2>1, <2>6 DEF SaveLog, NextLog, Listings
  <2>7. CASE ReleaseListing(x)
    BY <2>1, <2>7 DEF ReleaseListing, NoListing
  <2>8. CASE ListingFails(x)
    BY <1>1, <2>1, <2>8 DEF ListingFails, Listings
  <2> QED BY <1>3, <1>7, <2>2, <2>3, <2>4, <2>5, <2>6, <2>7, <2>8 DEF Listing
<1> QED BY <1>6, <1>7

\* Only a listing that saves appends, one row, and it leaves Saving as it does.
LEMMA RowsAppended ==
  ASSUME Typed, [Next]_vars, NEW g \in Log, Len(rows'[g]) # Len(rows[g])
  PROVE  \E x \in Saving(g) :
           Len(rows'[g]) = Len(rows[g]) + 1 /\ Saving(g)' \subseteq Saving(g) \ {x}
<1>1. rows \in [Log -> Seq(Row)] /\ lister \in [Lister -> Listings] /\ migration \in Migrations
  BY DEF Typed, TypeOK
<1>2. rows' # rows
  OBVIOUS
<1>3. ASSUME NEW x \in Lister, UpdateSlug(x)
      PROVE  FALSE
  <2>1. lister[x].realm \in Realm
    BY <1>3 DEF UpdateSlug, Typed, ListersReady, Ready
  <2> QED BY <1>1, <1>3, <2>1, WithRealmKeeps DEF UpdateSlug
<1>4. ~UpdateMissingSlugs
  <2> SUFFICES ASSUME UpdateMissingSlugs
               PROVE  FALSE
    OBVIOUS
  <2>1. migration.realm \in Realm
    BY DEF UpdateMissingSlugs, Typed, MigrationReady
  <2> QED BY <1>1, <2>1, WithRealmKeeps DEF UpdateMissingSlugs
<1>5. ASSUME NEW x \in Indexer, NEW job \in indexer[x].jobs, MarkLogAsIndexed(x, job)
      PROVE  FALSE
  BY <1>1, <1>5, WithIndexedKeeps DEF MarkLogAsIndexed
<1>6. PICK x \in Lister : SaveLog(x)
  BY <1>2, <1>3, <1>4, <1>5, RowsWriters
<1> DEFINE row == [isIndexed |-> FALSE, realmSlug |-> lister[x].realm]
           log == Head(lister[x].logs)
<1>7. row \in Row /\ rows' = [rows EXCEPT ![log] = Append(@, row)] /\ lister[x].step = "save"
  BY <1>6 DEF SaveLog, Typed, ListersReady, Ready, Row
<1>8. lister'[x].step = "log" /\ \A y \in Lister : y # x => lister'[y] = lister[y]
  BY <1>1, <1>6 DEF SaveLog, Lists, NextLog, Listings
<1> HIDE DEF row, log
<1>9. g = log
  BY <1>1, <1>7
<1>10. rows[g] \in Seq(Row) /\ rows'[g] = Append(rows[g], row)
  BY <1>1, <1>7, <1>9
<1>11. Len(rows'[g]) = Len(rows[g]) + 1
  BY <1>7, <1>10
<1>12. x \in Saving(g) /\ Saving(g)' \subseteq Saving(g) \ {x}
  BY <1>7, <1>8, <1>9 DEF Saving, log
<1> QED BY <1>11, <1>12

LEMMA RowsBoundedNext == Typed /\ RowsBounded /\ [Next]_vars => RowsBounded'
<1> SUFFICES ASSUME Typed, RowsBounded, [Next]_vars, NEW g \in Log
             PROVE  Len(rows'[g]) + Cardinality(Saving(g)') <= Cardinality(Lister)
  BY DEF RowsBounded
<1>1. /\ Len(rows[g]) + Cardinality(Saving(g)) <= Cardinality(Lister)
      /\ rows[g] \in Seq(Row) /\ Len(rows[g]) \in Nat
  BY DEF RowsBounded, Typed, TypeOK
<1>2. /\ IsFiniteSet(Saving(g)) /\ Cardinality(Saving(g)) \in Nat
      /\ Cardinality(Lister) \in Nat /\ IsFiniteSet(Lister)
  BY SavingFinite, ConstantsAssumption
<1>3. Saving(g)' \subseteq Lister
  BY DEF Saving
<1>4. /\ Cardinality(Saving(g)') \in Nat
      /\ Cardinality(Saving(g)') <= Cardinality(Lister)
  BY <1>2, <1>3, FS_Subset, FS_CardinalityType
<1>5. CASE rows[g] = <<>> /\ Len(rows'[g]) = Len(rows[g])
  BY <1>1, <1>4, <1>5
<1>6. CASE rows[g] # <<>> /\ Len(rows'[g]) = Len(rows[g])
  <2>1. Saving(g)' \subseteq Saving(g)
    BY <1>6, SavingJoins
  <2>2. Cardinality(Saving(g)') <= Cardinality(Saving(g))
    BY <1>2, <2>1, FS_Subset
  <2> QED BY <1>1, <1>2, <1>4, <1>6, <2>2
<1>7. CASE Len(rows'[g]) # Len(rows[g])
  <2>1. PICK x \in Saving(g) :
               Len(rows'[g]) = Len(rows[g]) + 1 /\ Saving(g)' \subseteq Saving(g) \ {x}
    BY <1>7, RowsAppended
  <2>3. /\ IsFiniteSet(Saving(g) \ {x})
        /\ Cardinality(Saving(g) \ {x}) = Cardinality(Saving(g)) - 1
    BY <1>2, <2>1, FS_RemoveElement
  <2>4. Cardinality(Saving(g)') <= Cardinality(Saving(g) \ {x})
    BY <2>1, <2>3, FS_Subset
  <2> QED BY <1>1, <1>2, <1>4, <2>1, <2>3, <2>4
<1> QED BY <1>5, <1>6, <1>7

\* However many listings overlap and whatever fails, a log has at most one row
\* per run that can be in progress at once; one lister never saves it twice.
THEOREM RowsStayBounded == Spec => []RowsBounded
<1>1. Init => RowsBounded
  <2> SUFFICES ASSUME Init, NEW g \in Log
               PROVE  Len(rows[g]) + Cardinality(Saving(g)) <= Cardinality(Lister)
    BY DEF RowsBounded
  <2>1. Saving(g) = {}
    BY DEF Saving, Init, NoListing
  <2>2. Len(rows[g]) \in Nat /\ Len(rows[g]) <= 1
    BY ConstantsAssumption DEF Init
  <2>3. Cardinality(Lister) \in Nat /\ Cardinality(Lister) # 0 /\ Cardinality({}) = 0
    BY ConstantsAssumption, FS_EmptySet, FS_CardinalityType
  <2> QED BY <2>1, <2>2, <2>3
<1> QED BY <1>1, TypedInit, TypedNext, RowsBoundedNext, PTL DEF Spec

-----------------------------------------------------------------------------
(* The characters of indexed logs                                          *)

\* While nothing failed, a job that has read its log knows all its characters.
CharactersKnown ==
  faults = 0 => \A x \in Indexer : \A job \in indexer[x].jobs :
    job.step \in {"mark", "queue"} => job.characters = LogCharacters[job.log]

LEMMA JobFields ==
  ASSUME NEW g, NEW step, NEW characters
  PROVE  /\ Job(g, step, characters).log = g
         /\ Job(g, step, characters).step = step
         /\ Job(g, step, characters).characters = characters
BY DEF Job

LEMMA NothingFailed ==
  ASSUME Typed, [Next]_vars, faults' = 0
  PROVE  faults = 0 /\ ~Failure
<1>1. faults \in Nat
  BY DEF Typed, TypeOK
<1>2. ~Fault
  BY <1>1 DEF Fault
<1>3. ~Failure
  BY <1>2 DEF Failure, ListingFails, MigrationFails, IndexingFails, GraphQLFails, LogFails, Crash
<1>4. faults' = faults
  <2>1. CASE UNCHANGED vars
    BY <2>1 DEF vars
  <2>2. CASE Migration
    BY <2>2 DEF Migration, CheckMigration, LockMigration, NextMigrationRealm, ReadMigrationPage,
                FindMissingSlugs, UpdateMissingSlugs, ReleaseMigration
  <2>3. ASSUME NEW x \in Lister, Listing(x)
        PROVE  UNCHANGED faults
    BY <2>3 DEF Listing, StartListing, CheckListingLock, LockListing, NextRealm, ReadPage, FindLog,
                UpdateSlug, SaveLog, ReleaseListing
  <2>4. ASSUME NEW x \in Indexer, Indexing(x)
        PROVE  UNCHANGED faults
    BY <2>4 DEF Indexing, StartIndexing, CheckIndexingLock, LockIndexing, TakeLogs, StartLog,
                FinishIndexing, ReleaseIndexing, JobStep, FetchFights, FetchGraphQL,
                MarkLogAsIndexed, CharactersToQueue
  <2>5. CASE \E r \in Realm, g \in Log : Publish(r, g)
    BY <2>5 DEF Publish
  <2>6. CASE Expire
    BY <2>6 DEF Expire
  <2> QED BY <1>3, <2>1, <2>2, <2>3, <2>4, <2>5, <2>6 DEF Next
<1> QED BY <1>3, <1>4

\* A log is marked by a job of its own only.
LEMMA MarkedByItsJob ==
  ASSUME Typed, [Next]_vars, NEW g \in Log, Indexed(g)', ~Indexed(g)
  PROVE  \E x \in Indexer : \E job \in indexer[x].jobs : MarkLogAsIndexed(x, job) /\ job.log = g
<1>1. rows \in [Log -> Seq(Row)] /\ lister \in [Lister -> Listings] /\ migration \in Migrations
  BY DEF Typed, TypeOK
<1>2. PICK i \in DOMAIN rows'[g] : rows'[g][i].isIndexed
  BY DEF Indexed
<1>3. \A j \in DOMAIN rows[g] : ~rows[g][j].isIndexed
  BY DEF Indexed
<1>4. rows' # rows
  BY <1>2, <1>3
<1>5. DOMAIN rows[g] = 1..Len(rows[g])
  BY <1>1
<1>6. ASSUME NEW logs, NEW r \in Realm, rows' = WithRealm(logs, r)
      PROVE  FALSE
  <2>1. /\ rows'[g] \in Seq(Row) /\ Len(rows'[g]) = Len(rows[g])
        /\ \A j \in DOMAIN rows[g] : rows'[g][j].isIndexed = rows[g][j].isIndexed
    BY <1>1, <1>6, WithRealmKeeps
  <2>2. i \in DOMAIN rows[g]
    BY <1>2, <1>5, <2>1
  <2> QED BY <1>2, <1>3, <2>1, <2>2
<1>7. ASSUME NEW x \in Lister, UpdateSlug(x)
      PROVE  FALSE
  <2>1. lister[x].realm \in Realm
    BY <1>7 DEF UpdateSlug, Typed, ListersReady, Ready
  <2> QED BY <1>6, <1>7, <2>1 DEF UpdateSlug
<1>8. ~UpdateMissingSlugs
  <2> SUFFICES ASSUME UpdateMissingSlugs
               PROVE  FALSE
    OBVIOUS
  <2>1. migration.realm \in Realm
    BY DEF UpdateMissingSlugs, Typed, MigrationReady
  <2> QED BY <1>6, <2>1 DEF UpdateMissingSlugs
<1>9. ASSUME NEW x \in Lister, SaveLog(x)
      PROVE  FALSE
  <2> DEFINE row == [isIndexed |-> FALSE, realmSlug |-> lister[x].realm]
             log == Head(lister[x].logs)
  <2>1. row \in Row /\ ~row.isIndexed
    BY <1>9 DEF SaveLog, Typed, ListersReady, Ready, Row
  <2>2. rows' = [rows EXCEPT ![log] = Append(@, row)]
    BY <1>9 DEF SaveLog
  <2> HIDE DEF row, log
  <2>3. rows[g] \in Seq(Row) /\ rows'[g] \in {rows[g], Append(rows[g], row)}
    BY <1>1, <2>2
  <2>4. i \in DOMAIN rows[g] \/ rows'[g][i] = row
    BY <1>2, <2>1, <2>3
  <2>5. i \in DOMAIN rows[g] => rows'[g][i] = rows[g][i]
    BY <2>1, <2>3
  <2> QED BY <1>2, <1>3, <2>1, <2>4, <2>5
<1>10. PICK x \in Indexer : \E job \in indexer[x].jobs : MarkLogAsIndexed(x, job)
  BY <1>4, <1>7, <1>8, <1>9, RowsWriters
<1>11. PICK job \in indexer[x].jobs : MarkLogAsIndexed(x, job)
  BY <1>10
<1>12. job.log = g
  <2> SUFFICES ASSUME g \notin {job.log}
               PROVE  FALSE
    OBVIOUS
  <2>1. rows' = WithIndexed({job.log})
    BY <1>11 DEF MarkLogAsIndexed
  <2>2. rows'[g] = rows[g]
    BY <2>1 DEF WithIndexed
  <2> QED BY <1>2, <1>3, <2>2
<1> QED BY <1>11, <1>12

\* The steps that are no failure and touch jobs or the queue.
LEMMA JobsChange ==
  ASSUME Typed, [Next]_vars, ~Failure
  PROVE  \/ /\ queued' = queued
            /\ \A x \in Indexer : indexer'[x].jobs = indexer[x].jobs
         \/ \E x \in Indexer, g \in Log : StartLog(x, g)
         \/ \E x \in Indexer : \E job \in indexer[x].jobs : JobStep(x, job)
<1> DEFINE Same == queued' = queued /\ \A x \in Indexer : indexer'[x].jobs = indexer[x].jobs
<1>1. indexer \in [Indexer -> Indexings] /\ IndexersReady
  BY DEF Typed, TypeOK
<1>2. CASE UNCHANGED vars
  BY <1>2 DEF vars
<1>3. CASE Migration
  BY <1>3 DEF Migration, CheckMigration, LockMigration, NextMigrationRealm, ReadMigrationPage,
              FindMissingSlugs, UpdateMissingSlugs, ReleaseMigration, Migrates
<1>4. ASSUME NEW x \in Lister, Listing(x)
      PROVE  Same
  BY <1>4 DEF Listing, StartListing, CheckListingLock, LockListing, NextRealm, ReadPage, FindLog,
              UpdateSlug, SaveLog, ReleaseListing, Lists
<1>5. ASSUME NEW x \in Indexer, NEW run, Indexes(x, run), run.jobs = indexer[x].jobs, queued' = queued
      PROVE  Same
  BY <1>1, <1>5 DEF Indexes
<1>6. ASSUME NEW x \in Indexer,
             \/ CheckIndexingLock(x) \/ LockIndexing(x) \/ FinishIndexing(x) \/ TakeLogs(x)
      PROVE  Same
  <2>1. \A step, logs : /\ [indexer[x] EXCEPT !.step = step].jobs = indexer[x].jobs
                        /\ [indexer[x] EXCEPT !.step = step, !.todo = logs].jobs = indexer[x].jobs
    BY <1>1 DEF Indexings
  <2> QED BY <1>5, <1>6, <2>1 DEF CheckIndexingLock, LockIndexing, FinishIndexing, TakeLogs
<1>7. ASSUME NEW x \in Indexer, StartIndexing(x) \/ ReleaseIndexing(x)
      PROVE  Same
  <2>1. indexer[x].jobs = {}
    BY <1>1, <1>7 DEF IndexersReady, StartIndexing, ReleaseIndexing
  <2>2. NoIndexing.jobs = {} /\ [NoIndexing EXCEPT !.step = "check"].jobs = {}
    BY DEF NoIndexing
  <2> QED BY <1>5, <1>7, <2>1, <2>2 DEF StartIndexing, ReleaseIndexing
<1>8. CASE \E r \in Realm, g \in Log : Publish(r, g)
  BY <1>8 DEF Publish
<1>9. CASE Expire
  BY <1>9 DEF Expire
<1> QED BY <1>2, <1>3, <1>4, <1>6, <1>7, <1>8, <1>9 DEF Next, Indexing

\* What a job's step leaves in its run, and in the other runs.
LEMMA JobsAfter ==
  ASSUME Typed, NEW x \in Indexer, NEW job, NEW next, JobProceeds(x, job, next)
  PROVE  /\ indexer'[x].jobs = (indexer[x].jobs \ {job}) \cup next
         /\ \A y \in Indexer : y # x => indexer'[y].jobs = indexer[y].jobs
<1>1. indexer \in [Indexer -> Indexings]
  BY DEF Typed, TypeOK
<1> QED BY <1>1 DEF JobProceeds, Indexes, Indexings

LEMMA StartLogAfter ==
  ASSUME Typed, NEW x \in Indexer, NEW g \in Log, StartLog(x, g)
  PROVE  /\ queued' = queued
         /\ indexer'[x].jobs = indexer[x].jobs \cup {Job(g, "fights", {})}
         /\ \A y \in Indexer : y # x => indexer'[y].jobs = indexer[y].jobs
<1>1. indexer \in [Indexer -> Indexings]
  BY DEF Typed, TypeOK
<1> DEFINE job == Job(g, "fights", {})
<1>2. queued' = queued /\ Indexes(x, [indexer[x] EXCEPT !.todo = @ \ {g}, !.jobs = @ \cup {job}])
  BY DEF StartLog
<1> HIDE DEF job
<1>3. /\ indexer'[x].jobs = indexer[x].jobs \cup {job}
      /\ \A y \in Indexer : y # x => indexer'[y].jobs = indexer[y].jobs
  BY <1>1, <1>2 DEF Indexes, Indexings
<1> QED BY <1>2, <1>3 DEF job

LEMMA CharactersKnownNext == Typed /\ CharactersKnown /\ [Next]_vars => CharactersKnown'
<1> SUFFICES ASSUME Typed, CharactersKnown, [Next]_vars, faults' = 0,
                    NEW y \in Indexer, NEW j \in indexer'[y].jobs, j.step \in {"mark", "queue"}
             PROVE  j.characters = LogCharacters[j.log]
  BY DEF CharactersKnown
<1>1. faults = 0 /\ ~Failure
  BY NothingFailed
<1>2. CASE j \in indexer[y].jobs
  BY <1>1, <1>2 DEF CharactersKnown
<1>3. ASSUME NEW x \in Indexer, NEW g \in Log, StartLog(x, g)
      PROVE  j \in indexer[y].jobs
  BY <1>3, StartLogAfter, JobFields
<1>4. ASSUME NEW x \in Indexer, NEW job \in indexer[x].jobs, NEW next, JobProceeds(x, job, next),
             j \notin indexer[y].jobs
      PROVE  j \in next
  BY <1>4, JobsAfter
<1>5. ASSUME NEW x \in Indexer, NEW job \in indexer[x].jobs, JobStep(x, job), j \notin indexer[y].jobs
      PROVE  j.characters = LogCharacters[j.log]
  <2>1. CASE FetchFights(x, job)
    <3>1. PICK characters \in {LogCharacters[job.log], {}} :
                 j = Job(job.log, IF characters = {} THEN "graphql" ELSE "mark", characters)
      BY <1>4, <1>5, <2>1 DEF FetchFights
    <3> QED BY <3>1, JobFields
  <2>2. CASE FetchGraphQL(x, job)
    <3>1. j = Job(job.log, "mark", LogCharacters[job.log])
      BY <1>4, <1>5, <2>2 DEF FetchGraphQL
    <3> QED BY <3>1, JobFields
  <2>3. CASE MarkLogAsIndexed(x, job)
    <3>1. j = Job(job.log, "queue", job.characters)
      BY <1>4, <1>5, <2>3 DEF MarkLogAsIndexed
    <3>2. job.characters = LogCharacters[job.log]
      BY <1>1, <2>3 DEF MarkLogAsIndexed, CharactersKnown
    <3> QED BY <3>1, <3>2, JobFields
  <2>4. CASE CharactersToQueue(x, job)
    BY <1>4, <1>5, <2>4 DEF CharactersToQueue
  <2> QED BY <1>5, <2>1, <2>2, <2>3, <2>4 DEF JobStep
<1> QED BY <1>1, <1>2, <1>3, <1>5, JobsChange

LEMMA IndexedCharactersQueuedNext ==
  Typed /\ CharactersKnown /\ IndexedCharactersQueued /\ [Next]_vars => IndexedCharactersQueued'
<1> SUFFICES ASSUME Typed, CharactersKnown, IndexedCharactersQueued, [Next]_vars, faults' = 0,
                    NEW g \in Log, Indexed(g)'
             PROVE  \/ LogCharacters[g] \subseteq queued'
                    \/ \E x \in Indexer : Job(g, "queue", LogCharacters[g]) \in indexer'[x].jobs
  BY DEF IndexedCharactersQueued
<1> DEFINE owed == Job(g, "queue", LogCharacters[g])
<1>1. faults = 0 /\ ~Failure
  BY NothingFailed
<1>2. CASE ~Indexed(g)
  <2>1. PICK x \in Indexer : \E job \in indexer[x].jobs : MarkLogAsIndexed(x, job) /\ job.log = g
    BY <1>2, MarkedByItsJob
  <2>2. PICK job \in indexer[x].jobs : MarkLogAsIndexed(x, job) /\ job.log = g
    BY <2>1
  <2>3. job.characters = LogCharacters[g]
    BY <1>1, <2>2 DEF MarkLogAsIndexed, CharactersKnown
  <2>4. CASE job.characters # {}
    <3>1. JobProceeds(x, job, {owed})
      BY <2>2, <2>3, <2>4 DEF MarkLogAsIndexed
    <3> QED BY <3>1, JobsAfter
  <2> QED BY <2>3, <2>4
<1>3. queued \subseteq queued'
  <2>1. ASSUME NEW x \in Indexer, NEW job \in indexer[x].jobs, JobStep(x, job)
        PROVE  queued \subseteq queued'
    BY <2>1 DEF JobStep, FetchFights, FetchGraphQL, MarkLogAsIndexed, CharactersToQueue
  <2> QED BY <1>1, <2>1, JobsChange, StartLogAfter
<1>4. CASE LogCharacters[g] \subseteq queued
  BY <1>3, <1>4
<1>5. ASSUME NEW x \in Indexer, owed \in indexer[x].jobs, owed \notin indexer'[x].jobs
      PROVE  LogCharacters[g] \subseteq queued'
  <2>1. PICK y \in Indexer : \E job \in indexer[y].jobs : JobStep(y, job)
    BY <1>1, <1>5, JobsChange, StartLogAfter
  <2>2. PICK job \in indexer[y].jobs : JobStep(y, job)
    BY <2>1
  <2>3. \E next : JobProceeds(y, job, next)
    BY <2>2 DEF JobStep, FetchFights, FetchGraphQL, MarkLogAsIndexed, CharactersToQueue
  <2>4. job = owed
    BY <1>5, <2>3, JobsAfter
  <2>5. job.step = "queue" /\ job.characters = LogCharacters[g]
    BY <2>4, JobFields
  <2> QED BY <2>2, <2>5 DEF JobStep, FetchFights, FetchGraphQL, MarkLogAsIndexed, CharactersToQueue
<1>6. CASE Indexed(g)
  <2>1. \/ LogCharacters[g] \subseteq queued
        \/ \E x \in Indexer : owed \in indexer[x].jobs
    BY <1>1, <1>6 DEF IndexedCharactersQueued
  <2> QED BY <1>4, <1>5, <2>1
<1> QED BY <1>2, <1>6

\* A log is marked before its characters are queued, and still none is lost
\* while nothing fails, in whatever number runs of indexLogs overlap.
THEOREM NoCharacterLost == Spec => []IndexedCharactersQueued
<1>1. Init => CharactersKnown /\ IndexedCharactersQueued
  <2> SUFFICES ASSUME Init
               PROVE  CharactersKnown /\ IndexedCharactersQueued
    OBVIOUS
  <2>1. \A x \in Indexer : indexer[x].jobs = {}
    BY DEF Init, NoIndexing
  <2>2. \A g \in Log : Indexed(g) => LogCharacters[g] \subseteq queued
    BY DEF Init
  <2> QED BY <2>1, <2>2 DEF CharactersKnown, IndexedCharactersQueued
<1> QED BY <1>1, TypedInit, TypedNext, CharactersKnownNext, IndexedCharactersQueuedNext, PTL DEF Spec

-----------------------------------------------------------------------------
(* The realms of rows                                                      *)

\* An update of the realm leaves no row of its logs without one.
LEMMA WithRealmSets ==
  ASSUME rows \in [Log -> Seq(Row)], NEW logs, NEW r \in Realm, NEW g \in Log
  PROVE  /\ DOMAIN WithRealm(logs, r)[g] = DOMAIN rows[g]
         /\ \A i \in DOMAIN rows[g] :
              WithRealm(logs, r)[g][i].realmSlug = IF g \in logs THEN r ELSE rows[g][i].realmSlug
<1>1. \A i \in DOMAIN rows[g] : rows[g][i] \in Row
  OBVIOUS
<1>2. \A i \in DOMAIN rows[g] : [rows[g][i] EXCEPT !.realmSlug = r].realmSlug = r
  BY <1>1 DEF Row
<1> QED BY <1>2 DEF WithRealm

\* No step takes a row's realm back, or saves a row without one.
LEMMA RealmsStay ==
  ASSUME Typed, [Next]_vars, NEW g \in Log, LacksRealm(g)'
  PROVE  LacksRealm(g)
<1>1. /\ rows \in [Log -> Seq(Row)] /\ lister \in [Lister -> Listings] /\ migration \in Migrations
      /\ NoRealm \notin Realm
  BY ConstantsAssumption DEF Typed, TypeOK
<1>2. PICK i \in DOMAIN rows'[g] : rows'[g][i].realmSlug = NoRealm
  BY DEF LacksRealm
<1>3. CASE UNCHANGED rows
  BY <1>3 DEF LacksRealm
<1>4. ASSUME NEW logs, NEW r \in Realm, rows' = WithRealm(logs, r)
      PROVE  LacksRealm(g)
  BY <1>1, <1>2, <1>4, WithRealmSets DEF LacksRealm
<1>5. ASSUME NEW x \in Lister, UpdateSlug(x)
      PROVE  LacksRealm(g)
  <2>1. lister[x].realm \in Realm
    BY <1>5 DEF UpdateSlug, Typed, ListersReady, Ready
  <2> QED BY <1>4, <1>5, <2>1 DEF UpdateSlug
<1>6. ASSUME NEW x \in Lister, SaveLog(x)
      PROVE  LacksRealm(g)
  <2> DEFINE row == [isIndexed |-> FALSE, realmSlug |-> lister[x].realm]
             log == Head(lister[x].logs)
  <2>1. row \in Row /\ row.realmSlug # NoRealm
    BY <1>1, <1>6 DEF SaveLog, Typed, ListersReady, Ready, Row
  <2>2. rows' = [rows EXCEPT ![log] = Append(@, row)]
    BY <1>6 DEF SaveLog
  <2> HIDE DEF row, log
  <2>3. rows[g] \in Seq(Row)
    BY <1>1
  <2>4. CASE g = log
    <3>1. rows'[g] = Append(rows[g], row)
      BY <1>1, <2>2, <2>4
    <3>2. i # Len(rows[g]) + 1
      BY <1>2, <2>1, <2>3, <3>1
    <3>3. i \in DOMAIN rows[g] /\ rows'[g][i] = rows[g][i]
      BY <1>2, <2>1, <2>3, <3>1, <3>2
    <3> QED BY <1>2, <3>3 DEF LacksRealm
  <2>5. CASE g # log
    <3>1. rows'[g] = rows[g]
      BY <1>1, <2>2, <2>5
    <3> QED BY <1>2, <3>1 DEF LacksRealm
  <2> QED BY <2>4, <2>5
<1>7. CASE UpdateMissingSlugs
  <2>1. migration.realm \in Realm
    BY <1>7 DEF UpdateMissingSlugs, Typed, MigrationReady
  <2> QED BY <1>4, <1>7, <2>1 DEF UpdateMissingSlugs
<1>8. ASSUME NEW x \in Indexer, NEW job \in indexer[x].jobs, MarkLogAsIndexed(x, job)
      PROVE  LacksRealm(g)
  <2> DEFINE marked(n) == [rows[g][n] EXCEPT !.isIndexed = TRUE]
  <2>1. rows' = WithIndexed({job.log})
    BY <1>8 DEF MarkLogAsIndexed
  <2>4. \A row \in Row : [row EXCEPT !.isIndexed = TRUE].realmSlug = row.realmSlug
    BY DEF Row
  <2>2. \A n \in DOMAIN rows[g] : marked(n).realmSlug = rows[g][n].realmSlug
    BY <1>1, <2>4
  <2>3. i \in DOMAIN rows[g] /\ (rows'[g][i] = rows[g][i] \/ rows'[g][i] = marked(i))
    BY <1>1, <1>2, <2>1 DEF WithIndexed
  <2> HIDE DEF marked
  <2> QED BY <1>2, <2>2, <2>3 DEF LacksRealm
<1> QED BY <1>3, <1>5, <1>6, <1>7, <1>8, RowsWriters

-----------------------------------------------------------------------------
(* What the migration passes                                               *)

\* A listed log is on the page that is read, or before or behind it.
LEMMA PageHolds ==
  ASSUME site \in [Realm -> Seq(Log)], NEW r \in Realm, NEW p \in Nat, p > 0
  PROVE  LET logs == LogsOnPage(r, p)
             first == (p - 1) * PageSize
         IN /\ first \in Nat /\ p * PageSize = first + PageSize
            /\ logs \in Seq(Log)
            /\ Len(logs) = IF Len(site[r]) <= first THEN 0
                           ELSE IF p * PageSize < Len(site[r]) THEN PageSize ELSE Len(site[r]) - first
            /\ \A i \in 1 .. Len(logs) : first + i \in DOMAIN site[r] /\ logs[i] = site[r][first + i]
<1> DEFINE size == Len(site[r])
           first == (p - 1) * PageSize
           last == IF p * PageSize < size THEN p * PageSize ELSE size
<1>1. PageSize \in Nat /\ PageSize > 0 /\ p - 1 \in Nat
  BY ConstantsAssumption
<1>2. first \in Nat /\ p * PageSize = first + PageSize
  BY <1>1
<1>3. site[r] \in Seq(Log) /\ size \in Nat /\ DOMAIN site[r] = 1 .. size
  OBVIOUS
<1>4. LogsOnPage(r, p) = SubSeq(site[r], first + 1, last)
  BY DEF LogsOnPage
<1>5. last \in Nat /\ last <= size /\ last <= first + PageSize
  BY <1>2, <1>3, <1>1
<1>6. last = IF first + PageSize < size THEN first + PageSize ELSE size
  BY <1>2
<1>8. LogsOnPage(r, p) \in Seq(Log)
  BY PageType
<1> HIDE DEF first, last
<1>7. SubSeq(site[r], first + 1, last) = [i \in 1 .. (last - (first + 1) + 1) |-> site[r][i + (first + 1) - 1]]
  BY <1>2, <1>3, <1>5
<1>9. Len(LogsOnPage(r, p)) = IF last <= first THEN 0 ELSE last - first
  <2>1. last - (first + 1) + 1 = last - first
    BY <1>2, <1>5
  <2>2. CASE last <= first
    <3>1. DOMAIN LogsOnPage(r, p) = 1 .. (last - first)
      BY <1>4, <1>7, <2>1
    <3>2. DOMAIN LogsOnPage(r, p) = 1 .. Len(LogsOnPage(r, p)) /\ Len(LogsOnPage(r, p)) \in Nat
      BY <1>8
    <3> QED BY <1>2, <1>5, <2>2, <3>1, <3>2
  <2>3. CASE ~(last <= first)
    BY <1>2, <1>4, <1>5, <1>7, <2>1, <2>3
  <2> QED BY <2>2, <2>3
<1>10. \A i \in 1 .. Len(LogsOnPage(r, p)) :
         first + i \in DOMAIN site[r] /\ LogsOnPage(r, p)[i] = site[r][first + i]
  <2> SUFFICES ASSUME NEW i \in 1 .. Len(LogsOnPage(r, p))
               PROVE  first + i \in DOMAIN site[r] /\ LogsOnPage(r, p)[i] = site[r][first + i]
    OBVIOUS
  <2>1. i \in Nat /\ 1 <= i /\ first < last /\ i <= last - first
    <3>1. Len(LogsOnPage(r, p)) \in Nat
      BY <1>8
    <3> QED BY ONLY <1>2, <1>5, <1>9, <3>1, i \in 1 .. Len(LogsOnPage(r, p))
  <2>2. first + i \in 1 .. size
    BY ONLY <1>2, <1>3, <1>5, <2>1
  <2>3. i \in 1 .. (last - (first + 1) + 1) /\ i + (first + 1) - 1 = first + i
    BY ONLY <1>2, <1>5, <2>1
  <2>4. LogsOnPage(r, p)[i] = site[r][i + (first + 1) - 1]
    BY <1>4, <1>7, <2>3
  <2> QED BY <1>3, <2>2, <2>3, <2>4
<1>11. Len(LogsOnPage(r, p)) = IF size <= first THEN 0
                               ELSE IF p * PageSize < size THEN PageSize ELSE size - first
  <2>1. p * PageSize < size <=> first + PageSize < size
    BY <1>2
  <2>2. CASE size <= first
    <3>0. first \in Nat /\ PageSize \in Nat /\ size \in Nat
      BY ONLY <1>1, <1>2, <1>3
    <3>3. ~(first + PageSize < size)
      BY ONLY <2>2, <3>0
    <3>1. last <= first
      BY ONLY <1>6, <2>2, <3>0, <3>3
    <3>2. Len(LogsOnPage(r, p)) = 0
      BY <1>9, <3>1
    <3> QED BY <2>2, <3>2
  <2>3. CASE ~(size <= first) /\ first + PageSize < size
    BY <1>1, <1>2, <1>3, <1>6, <1>9, <2>1, <2>3
  <2>4. CASE ~(size <= first) /\ ~(first + PageSize < size)
    BY <1>1, <1>2, <1>3, <1>6, <1>9, <2>1, <2>4
  <2> QED BY <2>2, <2>3, <2>4
<1> QED BY <1>2, <1>8, <1>10, <1>11 DEF first

\* How many logs the pages list that the migration has read.
Passed == (IF migration.step = "page" THEN migration.page - 1 ELSE migration.page) * PageSize

\* The i-th log of the realm is on a page to come, or among those of the page at hand.
IsAhead(r, i) ==
  \/ r \in migration.todo
  \/ /\ migration.step \in {"page", "find", "update"} /\ r = migration.realm
     /\ i > Passed \/ (migration.step # "page" /\ site[r][i] \in migration.logs)

SlugsAreAhead ==
  migration.step \in {"realm", "page", "find", "update", "release"} =>
    \A r \in Realm : \A i \in DOMAIN site[r] : LacksRealm(site[r][i]) => IsAhead(r, i)

\* Until it releases its key, the migration has every missing realm before it.
SlugsInv ==
  faults = 0 => SlugsAreAhead /\ (migration.step = "release" => migration.todo = {})

LEMMA PassedType ==
  ASSUME Typed, migration.step \in {"page", "find", "update"}
  PROVE  Passed \in Nat /\ migration.realm \in Realm /\ migration.page \in Nat /\ migration.page > 0
<1>1. migration.realm \in Realm /\ migration.page \in Nat /\ migration.page > 0 /\ PageSize \in Nat
  BY ConstantsAssumption DEF Typed, TypeOK, MigrationReady, Migrations
<1>2. (migration.page - 1) * PageSize \in Nat /\ migration.page * PageSize \in Nat
  BY <1>1
<1> QED BY <1>1, <1>2 DEF Passed

LEMMA PublishKeepsSlugs ==
  ASSUME Typed, SlugsInv, NEW r \in Realm, NEW g \in Log, Publish(r, g)
  PROVE  SlugsInv'
<1>1. /\ site \in [Realm -> Seq(Log)] /\ site[r] \in Seq(Log)
      /\ site' = [site EXCEPT ![r] = <<g>> \o site[r]] /\ ~Known(g)
      /\ UNCHANGED <<rows, migration, faults>>
  BY DEF Publish, Typed, TypeOK
<1>2. \A h \in Log : LacksRealm(h)' <=> LacksRealm(h)
  BY <1>1 DEF LacksRealm
<1>3. ~LacksRealm(g)
  BY <1>1 DEF LacksRealm, Known
<1>4. Passed' = Passed
  BY <1>1 DEF Passed
<1>5. ASSUME faults = 0, migration.step \in {"realm", "page", "find", "update", "release"},
             NEW s \in Realm, NEW i \in DOMAIN site'[s], LacksRealm(site'[s][i])
      PROVE  IsAhead(s, i)'
  <2>1. CASE s # r
    <3>1. site'[s] = site[s]
      BY <1>1, <2>1
    <3> QED BY <1>1, <1>4, <1>5, <3>1 DEF SlugsInv, SlugsAreAhead, IsAhead
  <2>2. CASE s = r
    <3>1. site'[s] = <<g>> \o site[s] /\ site[s] \in Seq(Log)
      BY <1>1, <2>2
    <3>2. i # 1
      BY <1>3, <1>5, <3>1
    <3>3. i - 1 \in DOMAIN site[s] /\ site'[s][i] = site[s][i - 1] /\ i \in Nat
      BY <3>1, <3>2
    <3>4. IsAhead(s, i - 1)
      BY <1>5, <3>3 DEF SlugsInv, SlugsAreAhead
    <3>5. CASE s \in migration.todo
      BY <1>1, <3>5 DEF IsAhead
    <3>6. CASE s \notin migration.todo
      <4>1. Passed \in Nat
        BY <3>4, <3>6, PassedType DEF IsAhead
      <4>2. i - 1 > Passed => i > Passed
        BY <3>3, <4>1
      <4> QED BY <1>1, <1>4, <3>3, <3>4, <3>6, <4>2 DEF IsAhead
    <3> QED BY <3>5, <3>6
  <2> QED BY <2>1, <2>2
<1> QED BY <1>1, <1>2, <1>5 DEF SlugsInv, SlugsAreAhead

LEMMA MigrationKeepsSlugs ==
  ASSUME Typed, SlugsInv, faults = 0, Migration, \A g \in Log : LacksRealm(g)' => LacksRealm(g)
  PROVE  SlugsInv'
<1>1. /\ site \in [Realm -> Seq(Log)] /\ rows \in [Log -> Seq(Row)] /\ migration \in Migrations
      /\ UNCHANGED site /\ NoRealm \notin Realm
  BY ConstantsAssumption DEF Typed, TypeOK, Migration, CheckMigration, LockMigration, NextMigrationRealm,
     ReadMigrationPage, FindMissingSlugs, UpdateMissingSlugs, ReleaseMigration, Migrates
<1>2. ASSUME NEW r \in Realm, NEW i \in DOMAIN site[r] PROVE site[r][i] \in Log /\ i \in Nat /\ i > 0
  <2>1. site[r] \in Seq(Log)
    BY <1>1
  <2> QED BY <2>1
<1>3. CASE CheckMigration
  <2>1. migration'.step \notin {"realm", "page", "find", "update", "release"}
    BY <1>1, <1>3 DEF CheckMigration, Migrates, Migrations
  <2> QED BY <2>1 DEF SlugsInv, SlugsAreAhead
<1>4. CASE LockMigration
  <2>1. migration'.step = "realm" /\ migration'.todo = Realm
    BY <1>1, <1>4 DEF LockMigration, Migrates, Migrations
  <2>2. \A r \in Realm : \A i : IsAhead(r, i)'
    BY <2>1 DEF IsAhead
  <2> QED BY <2>1, <2>2 DEF SlugsInv, SlugsAreAhead
<1>5. CASE NextMigrationRealm
  <2>1. migration.step = "realm" /\ UNCHANGED rows
    BY <1>5 DEF NextMigrationRealm
  <2>2. \A r \in Realm : \A i \in DOMAIN site[r] : LacksRealm(site[r][i]) => r \in migration.todo
    BY <2>1 DEF SlugsInv, SlugsAreAhead, IsAhead
  <2>3. CASE migration.todo = {}
    <3>1. migration'.todo = {}
      BY <1>1, <1>5, <2>3 DEF NextMigrationRealm, Migrates, Migrations
    <3> QED BY <1>1, <1>2, <2>2, <2>3, <3>1 DEF SlugsInv, SlugsAreAhead
  <2>4. CASE migration.todo # {}
    <3>1. PICK s \in migration.todo :
            migration' = [migration EXCEPT !.step = "page", !.todo = @ \ {s}, !.realm = s, !.page = 1]
      BY <1>5, <2>4 DEF NextMigrationRealm, Migrates
    <3>2. /\ migration'.step = "page" /\ migration'.todo = migration.todo \ {s}
          /\ migration'.realm = s /\ migration'.page = 1
      BY <1>1, <3>1 DEF Migrations
    <3>3. Passed' = 0
      <4>1. PageSize \in Nat /\ 0 * PageSize = 0
        BY ConstantsAssumption
      <4>2. (migration'.page - 1) * PageSize = 0
        BY <3>2, <4>1
      <4> QED BY <3>2, <4>2 DEF Passed
    <3>4. ASSUME NEW r \in Realm, NEW i \in DOMAIN site[r], r \in migration.todo
          PROVE  IsAhead(r, i)'
      BY <1>2, <3>2, <3>3, <3>4 DEF IsAhead
    <3> QED BY <1>1, <1>2, <2>2, <3>2, <3>4 DEF SlugsInv, SlugsAreAhead
  <2> QED BY <2>3, <2>4
<1>6. CASE ReadMigrationPage
  <2> DEFINE s == migration.realm
             p == migration.page
             logs == LogsOnPage(s, p)
             first == (p - 1) * PageSize
  <2>1. migration.step = "page" /\ UNCHANGED rows
    BY <1>6 DEF ReadMigrationPage
  <2>2. s \in Realm /\ p \in Nat /\ p > 0 /\ Passed = first
    BY <2>1, PassedType DEF Passed
  <2>3. /\ logs \in Seq(Log) /\ first \in Nat /\ p * PageSize = first + PageSize
        /\ Len(logs) = IF Len(site[s]) <= first THEN 0
                       ELSE IF p * PageSize < Len(site[s]) THEN PageSize ELSE Len(site[s]) - first
        /\ \A i \in 1 .. Len(logs) : logs[i] = site[s][first + i]
    BY <1>1, <2>2, PageHolds
  <2>4. /\ migration'.step = IF logs = <<>> THEN "realm" ELSE "find"
        /\ migration'.todo = migration.todo /\ migration'.realm = s /\ migration'.page = p
        /\ migration'.logs = {logs[i] : i \in DOMAIN logs}
    BY <1>1, <1>6 DEF ReadMigrationPage, Migrates, Migrations
  <2>5. Passed' = first + PageSize \/ logs = <<>>
    BY <2>3, <2>4 DEF Passed
  <2> HIDE DEF logs, first
  <2>6. PageSize \in Nat /\ PageSize > 0
    BY ConstantsAssumption
  <2>7. ASSUME NEW i \in DOMAIN site[s], i > first
        PROVE  /\ logs # <<>>
               /\ i > first + PageSize \/ site[s][i] \in {logs[n] : n \in DOMAIN logs}
    <3>1. Len(site[s]) \in Nat /\ i \in 1 .. Len(site[s])
      BY <1>1, <2>2
    <3>2. ~(Len(site[s]) <= first)
      BY <2>3, <2>7, <3>1
    <3>3. Len(logs) > 0 /\ Len(logs) \in Nat
      BY <2>3, <2>6, <3>1, <3>2
    <3>4. CASE ~(i > first + PageSize)
      <4>1. i - first \in 1 .. Len(logs)
        BY <2>3, <2>6, <2>7, <3>1, <3>2, <3>4
      <4>2. logs[i - first] = site[s][i]
        BY <2>3, <3>1, <4>1
      <4> QED BY <2>3, <3>3, <4>1, <4>2
    <3> QED BY <3>3, <3>4
  <2>8. ASSUME NEW r \in Realm, NEW i \in DOMAIN site[r], LacksRealm(site[r][i])
        PROVE  IsAhead(r, i)'
    <3>1. IsAhead(r, i)
      BY <2>1, <2>8 DEF SlugsInv, SlugsAreAhead
    <3>2. CASE r \in migration.todo
      BY <2>4, <3>2 DEF IsAhead
    <3>3. CASE r \notin migration.todo
      <4>1. r = s /\ i > first
        BY <2>1, <2>2, <3>1, <3>3 DEF IsAhead
      <4>2. /\ logs # <<>>
            /\ i > first + PageSize \/ site[r][i] \in {logs[n] : n \in DOMAIN logs}
        BY <2>7, <4>1
      <4>3. migration'.step = "find" /\ site'[r][i] = site[r][i] /\ (i > Passed' \/ site[r][i] \in migration'.logs)
        BY <1>1, <2>4, <2>5, <4>2
      <4> QED BY <2>4, <4>1, <4>3 DEF IsAhead
    <3> QED BY <3>2, <3>3
  <2> QED BY <1>1, <1>2, <2>4, <2>8 DEF SlugsInv, SlugsAreAhead
<1>7. CASE FindMissingSlugs
  <2>1. migration.step = "find" /\ UNCHANGED rows
    BY <1>7 DEF FindMissingSlugs
  <2>2. /\ migration'.step = "update" /\ migration'.todo = migration.todo
        /\ migration'.realm = migration.realm /\ migration'.page = migration.page
        /\ migration'.logs = {g \in migration.logs : LacksRealm(g)}
    BY <1>1, <1>7 DEF FindMissingSlugs, Migrates, Migrations
  <2>3. Passed' = Passed
    BY <2>1, <2>2 DEF Passed
  <2>4. ASSUME NEW r \in Realm, NEW i \in DOMAIN site[r], LacksRealm(site[r][i])
        PROVE  IsAhead(r, i)'
    <3>1. IsAhead(r, i)
      BY <2>1, <2>4 DEF SlugsInv, SlugsAreAhead
    <3> QED BY <1>1, <2>1, <2>2, <2>3, <2>4, <3>1 DEF IsAhead
  <2> QED BY <1>1, <1>2, <2>2, <2>4 DEF SlugsInv, SlugsAreAhead
<1>8. CASE UpdateMissingSlugs
  <2>1. migration.step = "update" /\ rows' = WithRealm(migration.logs, migration.realm)
    BY <1>8 DEF UpdateMissingSlugs
  <2>2. /\ migration'.step = "page" /\ migration'.todo = migration.todo
        /\ migration'.realm = migration.realm /\ migration'.page = migration.page + 1
    BY <1>1, <1>8 DEF UpdateMissingSlugs, Migrates, Migrations
  <2>3. migration.realm \in Realm /\ migration.page \in Nat
    BY <2>1, PassedType
  <2>4. Passed' = Passed
    <3>1. (migration.page + 1) - 1 = migration.page
      BY <2>3
    <3>2. Passed = migration.page * PageSize
      BY <2>1 DEF Passed
    <3>3. Passed' = (migration'.page - 1) * PageSize
      BY <2>2 DEF Passed
    <3> QED BY <2>2, <3>1, <3>2, <3>3
  <2>5. \A g \in Log : LacksRealm(g)' => g \notin migration.logs
    <3> SUFFICES ASSUME NEW g \in Log, g \in migration.logs, LacksRealm(g)'
                 PROVE  FALSE
      OBVIOUS
    <3>1. PICK n \in DOMAIN rows'[g] : rows'[g][n].realmSlug = NoRealm
      BY DEF LacksRealm
    <3> QED BY <1>1, <2>1, <2>3, <3>1, WithRealmSets
  <2>6. ASSUME NEW r \in Realm, NEW i \in DOMAIN site[r], LacksRealm(site[r][i])'
        PROVE  IsAhead(r, i)'
    <3> DEFINE h == site[r][i]
    <3>1. PICK g \in Log : g = site[r][i]
      BY <1>2
    <3>2. LacksRealm(g)'
      BY <1>1, <2>6, <3>1 DEF LacksRealm
    <3>3. LacksRealm(g) /\ g \notin migration.logs
      BY <2>5, <3>2
    <3>4. IsAhead(r, i)
      BY <2>1, <3>1, <3>3 DEF SlugsInv, SlugsAreAhead
    <3> QED BY <2>1, <2>2, <2>4, <3>1, <3>3, <3>4 DEF IsAhead
  <2> QED BY <1>1, <2>2, <2>6 DEF SlugsInv, SlugsAreAhead
<1>9. CASE ReleaseMigration
  <2>1. migration'.step = "done"
    BY <1>9 DEF ReleaseMigration, Migrates, NoMigration
  <2> QED BY <2>1 DEF SlugsInv, SlugsAreAhead
<1> QED BY <1>3, <1>4, <1>5, <1>6, <1>7, <1>8, <1>9 DEF Migration

LEMMA SlugsNext == Typed /\ SlugsInv /\ [Next]_vars => SlugsInv'
<1> SUFFICES ASSUME Typed, SlugsInv, [Next]_vars, faults' = 0
             PROVE  SlugsInv'
  BY DEF SlugsInv
<1>1. faults = 0 /\ ~Failure
  BY NothingFailed
<1>2. \A g \in Log : LacksRealm(g)' => LacksRealm(g)
  BY RealmsStay
<1>3. CASE Migration
  BY <1>1, <1>2, <1>3, MigrationKeepsSlugs
<1>4. CASE \E r \in Realm, g \in Log : Publish(r, g)
  BY <1>4, PublishKeepsSlugs
<1>5. CASE UNCHANGED <<site, migration>>
  <2>1. ASSUME NEW r \in Realm, NEW i \in DOMAIN site[r], LacksRealm(site[r][i])'
        PROVE  LacksRealm(site[r][i])
    <3>1. site[r] \in Seq(Log)
      BY DEF Typed, TypeOK
    <3>2. PICK g \in Log : g = site[r][i]
      BY <3>1
    <3>3. LacksRealm(g)'
      BY <1>5, <2>1, <3>2 DEF LacksRealm
    <3> QED BY <1>2, <3>2, <3>3
  <2>2. Passed' = Passed
    BY <1>5 DEF Passed
  <2> QED BY <1>1, <1>5, <2>1, <2>2 DEF SlugsInv, SlugsAreAhead, IsAhead
<1>6. CASE UNCHANGED vars
  BY <1>5, <1>6 DEF vars
<1>7. CASE Expire
  BY <1>5, <1>7 DEF Expire
<1>8. ASSUME NEW x \in Lister, Listing(x)
      PROVE  UNCHANGED <<site, migration>>
  BY <1>8 DEF Listing, StartListing, CheckListingLock, LockListing, NextRealm, ReadPage,
     FindLog, UpdateSlug, SaveLog, ReleaseListing, Lists
<1>9. ASSUME NEW x \in Indexer, Indexing(x)
      PROVE  UNCHANGED <<site, migration>>
  BY <1>9 DEF Indexing, StartIndexing, CheckIndexingLock, LockIndexing, TakeLogs, StartLog, JobStep, FetchFights,
     FetchGraphQL, MarkLogAsIndexed, CharactersToQueue, JobProceeds, FinishIndexing, ReleaseIndexing, Indexes
<1> QED BY <1>1, <1>3, <1>4, <1>5, <1>6, <1>7, <1>8, <1>9 DEF Next

\* A migration that nothing failed leaves no row of a listed log without its
\* realm: pages shift only away from the site's front, and behind the migration.
THEOREM MigrationCompletes == Spec => []MigrationComplete
<1>1. Init => SlugsInv
  BY DEF Init, NoMigration, SlugsInv, SlugsAreAhead
<1>2. Typed /\ SlugsInv => MigrationComplete
  <2> SUFFICES ASSUME Typed, SlugsInv, faults = 0, migration.step = "release",
                      NEW g \in Listed, LacksRealm(g)
               PROVE  FALSE
    BY DEF MigrationComplete
  <2>1. PICK r \in Realm : \E i \in DOMAIN site[r] : g = site[r][i]
    BY DEF Listed
  <2>2. PICK i \in DOMAIN site[r] : g = site[r][i]
    BY <2>1
  <2> QED BY <2>1, <2>2 DEF SlugsInv, SlugsAreAhead, IsAhead
<1> QED BY <1>1, <1>2, TypedInit, TypedNext, SlugsNext, PTL DEF Spec

-----------------------------------------------------------------------------
(* The progress of a listing through the list s of a realm, which had      *)
(* `first` logs at boot, where `known` are the saved logs and `listed` the *)
(* ones that were listed when the run began: k logs have been published    *)
(* since the run read the realm's first page, the front u of which no page *)
(* shows the run any more; t logs have been looked for, and from k to b    *)
(* reach those that had been listed before and were looked for.            *)
Kept(s, known, listed, exists, first, k, b, u, t) ==
  /\ k + first <= Len(s) /\ u <= k /\ b <= Len(s) /\ exists <= t
  /\ \A i \in 1 .. Len(s) :
       /\ i <= u => s[i] \notin known /\ s[i] \notin listed
       /\ k < i /\ i <= b => s[i] \in known
       /\ b < i /\ s[i] \in known => \A j \in 1 .. Len(s) : i < j => s[j] \in known
  /\ \/ exists + b <= t + k
     \/ \A i \in 1 .. Len(s) : b < i => s[i] \in known

\* Before a page is read.
AtPage(s, known, listed, exists, first, k, b, u, t) ==
  /\ Kept(s, known, listed, exists, first, k, b, u, t)
  /\ t <= b \/ b = Len(s)
  /\ \A i \in 1 .. Len(s) : u < i /\ i <= t => s[i] \in known

\* While the page's logs are looked for, of which `rest` is left; n have been
\* published since the page was read, and at its end `next` will have been looked for.
InPage(s, known, listed, exists, first, k, b, u, t, n, rest, next) ==
  /\ Kept(s, known, listed, exists, first, k, b, u, t)
  /\ u <= t + n /\ t + n <= b
  /\ \A i \in 1 .. Len(s) : u < i /\ i <= t + n => s[i] \in known
  /\ t + n + Len(rest) <= Len(s)
  /\ \A i \in 1 .. Len(rest) : rest[i] = s[t + n + i]
  /\ \/ t + Len(rest) = next
     \/ t + Len(rest) <= next /\ t + n + Len(rest) = Len(s)

IsDistinct(s) == \A i, j \in 1 .. Len(s) : s[i] = s[j] => i = j

\* Whatever is known has only known logs behind it.
IsSuffix(s, known) ==
  \A i, j \in 1 .. Len(s) : i < j /\ s[i] \in known => s[j] \in known

LEMMA Prepended ==
  ASSUME NEW s \in Seq(Log), NEW g \in Log
  PROVE  /\ <<g>> \o s \in Seq(Log) /\ Len(<<g>> \o s) = Len(s) + 1
         /\ \A i \in 1 .. Len(s) + 1 :
              IF i = 1 THEN (<<g>> \o s)[i] = g
                       ELSE i - 1 \in 1 .. Len(s) /\ (<<g>> \o s)[i] = s[i - 1]
OBVIOUS

LEMMA PublishKeepsCounts ==
  ASSUME NEW s \in Seq(Log), NEW z \in Seq(Log), NEW g \in Log, NEW known, NEW listed, g \notin known, g \notin listed,
         NEW exists \in Nat, NEW first \in Nat, NEW k \in Nat, NEW b \in Nat, NEW u \in Nat, NEW t \in Nat,
         z = <<g>> \o s,
         Kept(s, known, listed, exists, first, k, b, u, t)
  PROVE  Kept(z, known, listed, exists, first, k + 1, b + 1, u + 1, t)
<1>1. /\ Len(z) = Len(s) + 1 /\ Len(s) \in Nat
      /\ \A i \in 1 .. Len(z) : IF i = 1 THEN z[i] = g ELSE i - 1 \in 1 .. Len(s) /\ z[i] = s[i - 1]
  BY Prepended
<1>2. (k + 1) + first <= Len(z) /\ u + 1 <= k + 1 /\ b + 1 <= Len(z) /\ exists <= t
  BY <1>1 DEF Kept
<1>3. ASSUME NEW i \in 1 .. Len(z)
      PROVE  /\ i <= u + 1 => z[i] \notin known /\ z[i] \notin listed
             /\ k + 1 < i /\ i <= b + 1 => z[i] \in known
             /\ b + 1 < i /\ z[i] \in known => \A j \in 1 .. Len(z) : i < j => z[j] \in known
  <2>1. CASE i = 1
    BY <1>1, <2>1
  <2>2. CASE i # 1
    <3>1. i - 1 \in 1 .. Len(s) /\ z[i] = s[i - 1] /\ i \in Nat
      BY <1>1, <2>2
    <3>2. i <= u + 1 => z[i] \notin known /\ z[i] \notin listed
      <4>1. i <= u + 1 => i - 1 <= u
        BY <3>1
      <4> QED BY <3>1, <4>1 DEF Kept
    <3>3. k + 1 < i /\ i <= b + 1 => z[i] \in known
      <4>1. k + 1 < i /\ i <= b + 1 => k < i - 1 /\ i - 1 <= b
        BY <3>1
      <4> QED BY <3>1, <4>1 DEF Kept
    <3>4. ASSUME b + 1 < i, z[i] \in known, NEW j \in 1 .. Len(z), i < j
          PROVE  z[j] \in known
      <4>1. j \in Nat /\ j # 1
        BY ONLY <1>1, <3>1, <3>4, j \in 1 .. Len(z), i \in 1 .. Len(z)
      <4>2. j - 1 \in 1 .. Len(s) /\ z[j] = s[j - 1]
        BY <1>1, <4>1
      <4>3. b < i - 1 /\ i - 1 < j - 1
        BY ONLY <3>1, <3>4, <4>1, b \in Nat
      <4>4. s[i - 1] \in known
        BY <3>1, <3>4
      <4>5. s[j - 1] \in known
        BY <3>1, <4>2, <4>3, <4>4 DEF Kept
      <4> QED BY <4>2, <4>5
    <3> QED BY <3>2, <3>3, <3>4
  <2> QED BY <2>1, <2>2
<1>4. \/ exists + (b + 1) <= t + (k + 1)
      \/ \A i \in 1 .. Len(z) : b + 1 < i => z[i] \in known
  <2>1. CASE exists + b <= t + k
    BY <2>1
  <2>2. CASE \A i \in 1 .. Len(s) : b < i => s[i] \in known
    <3>1. ASSUME NEW i \in 1 .. Len(z), b + 1 < i PROVE z[i] \in known
      <4>1. i - 1 \in 1 .. Len(s) /\ z[i] = s[i - 1] /\ b < i - 1
        BY <1>1, <3>1
      <4> QED BY <2>2, <4>1
    <3> QED BY <3>1
  <2> QED BY <2>1, <2>2 DEF Kept
<1> QED BY <1>2, <1>3, <1>4 DEF Kept

LEMMA PublishAtPage ==
  ASSUME NEW s \in Seq(Log), NEW z \in Seq(Log), NEW g \in Log, NEW known, NEW listed, g \notin known, g \notin listed,
         NEW exists \in Nat, NEW first \in Nat, NEW k \in Nat, NEW b \in Nat, NEW u \in Nat, NEW t \in Nat,
         z = <<g>> \o s,
         AtPage(s, known, listed, exists, first, k, b, u, t)
  PROVE  AtPage(z, known, listed, exists, first, k + 1, b + 1, u + 1, t)
<1>1. /\ Len(z) = Len(s) + 1 /\ Len(s) \in Nat
      /\ \A i \in 1 .. Len(z) : IF i = 1 THEN z[i] = g ELSE i - 1 \in 1 .. Len(s) /\ z[i] = s[i - 1]
  BY Prepended
<1>2. Kept(z, known, listed, exists, first, k + 1, b + 1, u + 1, t)
  BY PublishKeepsCounts DEF AtPage
<1>3. t <= b + 1 \/ b + 1 = Len(z)
  BY <1>1 DEF AtPage
<1>4. ASSUME NEW i \in 1 .. Len(z), u + 1 < i, i <= t PROVE z[i] \in known
  <2>1. i - 1 \in 1 .. Len(s) /\ z[i] = s[i - 1] /\ u < i - 1 /\ i - 1 <= t
    BY <1>1, <1>4
  <2> QED BY <2>1 DEF AtPage
<1> QED BY <1>2, <1>3, <1>4 DEF AtPage

LEMMA PublishInPage ==
  ASSUME NEW s \in Seq(Log), NEW z \in Seq(Log), NEW g \in Log, NEW known, NEW listed, g \notin known, g \notin listed,
         NEW exists \in Nat, NEW first \in Nat, NEW k \in Nat, NEW b \in Nat, NEW u \in Nat, NEW t \in Nat,
         NEW n \in Nat, NEW rest \in Seq(Log), NEW next \in Nat,
         z = <<g>> \o s,
         InPage(s, known, listed, exists, first, k, b, u, t, n, rest, next)
  PROVE  InPage(z, known, listed, exists, first, k + 1, b + 1, u + 1, t, n + 1, rest, next)
<1>1. /\ Len(z) = Len(s) + 1 /\ Len(s) \in Nat /\ Len(rest) \in Nat
      /\ \A i \in 1 .. Len(z) : IF i = 1 THEN z[i] = g ELSE i - 1 \in 1 .. Len(s) /\ z[i] = s[i - 1]
  BY Prepended
<1>2. Kept(z, known, listed, exists, first, k + 1, b + 1, u + 1, t)
  BY PublishKeepsCounts DEF InPage
<1>3. u + 1 <= t + (n + 1) /\ t + (n + 1) <= b + 1
  BY DEF InPage
<1>4. ASSUME NEW i \in 1 .. Len(z), u + 1 < i, i <= t + (n + 1) PROVE z[i] \in known
  <2>2. i \in Nat /\ i # 1 /\ u < i - 1 /\ i - 1 <= t + n
    BY <1>4
  <2>1. i - 1 \in 1 .. Len(s) /\ z[i] = s[i - 1] /\ u < i - 1 /\ i - 1 <= t + n
    BY <1>1, <2>2
  <2> QED BY <2>1 DEF InPage
<1>8. t + n + Len(rest) <= Len(s) /\ \A i \in 1 .. Len(rest) : rest[i] = s[t + n + i]
  BY DEF InPage
<1>5. t + (n + 1) + Len(rest) <= Len(z)
  BY <1>1, <1>8
<1>6. ASSUME NEW i \in 1 .. Len(rest) PROVE rest[i] = z[t + (n + 1) + i]
  <2>1. t + (n + 1) + i \in 1 .. Len(z) /\ t + (n + 1) + i # 1 /\ (t + (n + 1) + i) - 1 = t + n + i
    BY <1>1, <1>5, <1>6
  <2>2. z[t + (n + 1) + i] = s[t + n + i]
    BY <1>1, <2>1
  <2> QED BY <1>8, <2>2
<1>7. \/ t + Len(rest) = next
      \/ t + Len(rest) <= next /\ t + (n + 1) + Len(rest) = Len(z)
  BY <1>1 DEF InPage
<1> QED BY <1>2, <1>3, <1>4, <1>5, <1>6, <1>7 DEF InPage

\* The first page of a realm.
LEMMA BeginsAtPage ==
  ASSUME NEW s \in Seq(Log), NEW known, NEW listed, NEW first \in Nat, first <= Len(s), IsSuffix(s, known)
  PROVE  AtPage(s, known, listed, 0, first, 0, 0, 0, 0)
<1>1. Len(s) \in Nat
  OBVIOUS
<1> QED BY <1>1 DEF AtPage, Kept, IsSuffix

\* A page is read: what was published before that may still be on it.
LEMMA PageIsRead ==
  ASSUME NEW s \in Seq(Log), NEW known, NEW listed, NEW exists \in Nat, NEW first \in Nat,
         NEW k \in Nat, NEW b \in Nat, NEW u \in Nat, NEW t \in Nat,
         AtPage(s, known, listed, exists, first, k, b, u, t),
         NEW rest \in Seq(Log), NEW next \in Nat, t < Len(s), t < next,
         Len(rest) = IF next < Len(s) THEN next - t ELSE Len(s) - t,
         \A i \in 1 .. Len(rest) : rest[i] = s[t + i]
  PROVE  \E v \in Nat : InPage(s, known, listed, exists, first, k, b, v, t, 0, rest, next)
<1> DEFINE v == IF u < t THEN u ELSE t
<1>1. Len(s) \in Nat /\ v \in Nat /\ v <= u /\ v <= t
  OBVIOUS
<1>2. t <= b
  BY <1>1 DEF AtPage
<1>3. Kept(s, known, listed, exists, first, k, b, v, t)
  <2>1. v <= k
    BY <1>1 DEF AtPage, Kept
  <2>2. \A i \in 1 .. Len(s) : i <= v => i <= u
    BY <1>1
  <2> HIDE DEF v
  <2> QED BY <2>1, <2>2 DEF AtPage, Kept
<1>4. \A i \in 1 .. Len(s) : v < i /\ i <= t + 0 => s[i] \in known
  <2> SUFFICES ASSUME NEW i \in 1 .. Len(s), v < i, i <= t PROVE s[i] \in known
    OBVIOUS
  <2>1. u < i
    OBVIOUS
  <2> QED BY <2>1 DEF AtPage
<1>5. t + 0 + Len(rest) <= Len(s)
  BY <1>1
<1>6. \A i \in 1 .. Len(rest) : rest[i] = s[t + 0 + i]
  <2>1. t + 0 = t
    OBVIOUS
  <2> QED BY <2>1
<1>7. \/ t + Len(rest) = next
      \/ t + Len(rest) <= next /\ t + 0 + Len(rest) = Len(s)
  BY <1>1
<1> HIDE DEF v
<1>8. v <= t + 0 /\ t + 0 <= b
  BY <1>1, <1>2
<1> QED BY <1>1, <1>3, <1>4, <1>5, <1>6, <1>7, <1>8 DEF InPage

\* The next log is known: one that was published since pushed it to this page,
\* or it was known before, and then so is everything behind it.
LEMMA KnownIsCounted ==
  ASSUME NEW s \in Seq(Log), NEW known, NEW listed, NEW exists \in Nat, NEW first \in Nat,
         NEW k \in Nat, NEW b \in Nat, NEW u \in Nat, NEW t \in Nat,
         NEW n \in Nat, NEW rest \in Seq(Log), NEW next \in Nat,
         InPage(s, known, listed, exists, first, k, b, u, t, n, rest, next),
         rest # <<>>, Head(rest) \in known
  PROVE  \E c \in Nat : InPage(s, known, listed, exists + 1, first, k, c, u, t + 1, n, Tail(rest), next)
<1>1. /\ Len(s) \in Nat /\ Len(rest) \in Nat /\ Len(rest) > 0 /\ Head(rest) = rest[1]
      /\ Len(Tail(rest)) = Len(rest) - 1 /\ \A i \in 1 .. Len(Tail(rest)) : Tail(rest)[i] = rest[i + 1]
  OBVIOUS
<1> DEFINE p == t + n + 1
           c == IF b < p THEN p ELSE b
<1>2. p \in 1 .. Len(s) /\ s[p] = Head(rest) /\ s[p] \in known
  <2>1. t + n + Len(rest) <= Len(s) /\ 1 \in 1 .. Len(rest)
    BY <1>1 DEF InPage
  <2>2. p \in 1 .. Len(s)
    BY <1>1, <2>1
  <2> QED BY <1>1, <2>1, <2>2 DEF InPage
<1>3. p \in Nat /\ c \in Nat /\ b <= c /\ p <= c /\ c <= Len(s) /\ (c = b \/ (c = p /\ p = b + 1))
  <2>1. t + n <= b /\ b <= Len(s)
    BY DEF InPage, Kept
  <2> QED BY <1>1, <1>2, <2>1
<1>4. \A i \in 1 .. Len(s) : k < i /\ i <= c => s[i] \in known
  <2> SUFFICES ASSUME NEW i \in 1 .. Len(s), k < i, i <= c PROVE s[i] \in known
    OBVIOUS
  <2>1. i <= b \/ i = p
    BY <1>3
  <2> QED BY <1>2, <2>1 DEF InPage, Kept
<1>5. \A i \in 1 .. Len(s) : c < i => b < i
  BY <1>3
<1>6. \/ (exists + 1) + c <= (t + 1) + k
      \/ \A i \in 1 .. Len(s) : c < i => s[i] \in known
  <2>1. CASE c = b
    <3>1. CASE exists + b <= t + k
      BY <2>1, <3>1
    <3>2. CASE \A i \in 1 .. Len(s) : b < i => s[i] \in known
      BY <2>1, <3>2
    <3> QED BY <3>1, <3>2 DEF InPage, Kept
  <2>2. CASE c = p /\ p = b + 1
    <3>1. b < p
      BY <2>2
    <3>2. \A j \in 1 .. Len(s) : p < j => s[j] \in known
      BY <1>2, <3>1 DEF InPage, Kept
    <3> QED BY <2>2, <3>2
  <2> QED BY <1>3, <2>1, <2>2
<1>7. (t + 1) + n = p
  OBVIOUS
<1> HIDE DEF c
<1>8. Kept(s, known, listed, exists + 1, first, k, c, u, t + 1)
  <2>1. exists + 1 <= t + 1
    BY DEF InPage, Kept
  <2> QED BY <1>3, <1>4, <1>5, <1>6, <2>1 DEF InPage, Kept
<1>9. \A i \in 1 .. Len(s) : u < i /\ i <= (t + 1) + n => s[i] \in known
  <2> SUFFICES ASSUME NEW i \in 1 .. Len(s), u < i, i <= p PROVE s[i] \in known
    BY <1>7
  <2>1. i <= t + n \/ i = p
    OBVIOUS
  <2> QED BY <1>2, <2>1 DEF InPage
<1>10. u <= (t + 1) + n
  BY DEF InPage
<1>11. /\ (t + 1) + n + Len(Tail(rest)) <= Len(s)
       /\ \/ (t + 1) + Len(Tail(rest)) = next
          \/ (t + 1) + Len(Tail(rest)) <= next /\ (t + 1) + n + Len(Tail(rest)) = Len(s)
  <2>1. (t + 1) + n + Len(Tail(rest)) = t + n + Len(rest) /\ (t + 1) + Len(Tail(rest)) = t + Len(rest)
    BY <1>1
  <2> QED BY <2>1 DEF InPage
<1>12. \A i \in 1 .. Len(Tail(rest)) : Tail(rest)[i] = s[(t + 1) + n + i]
  <2> SUFFICES ASSUME NEW i \in 1 .. Len(Tail(rest)) PROVE Tail(rest)[i] = s[(t + 1) + n + i]
    OBVIOUS
  <2>1. i + 1 \in 1 .. Len(rest) /\ (t + 1) + n + i = t + n + (i + 1)
    BY <1>1
  <2> QED BY <1>1, <2>1 DEF InPage
<1> HIDE DEF p
<1> QED BY <1>3, <1>7, <1>8, <1>9, <1>10, <1>11, <1>12 DEF InPage

\* The next log is saved.
LEMMA SavedIsKnown ==
  ASSUME NEW s \in Seq(Log), NEW known, NEW listed, NEW exists \in Nat, NEW first \in Nat,
         NEW k \in Nat, NEW b \in Nat, NEW u \in Nat, NEW t \in Nat,
         NEW n \in Nat, NEW rest \in Seq(Log), NEW next \in Nat,
         InPage(s, known, listed, exists, first, k, b, u, t, n, rest, next),
         rest # <<>>, IsDistinct(s), NEW fewer \in Nat, fewer <= exists
  PROVE  \E c \in Nat :
           InPage(s, known \cup {Head(rest)}, listed, fewer, first, k, c, u, t + 1, n, Tail(rest), next)
<1>1. /\ Len(s) \in Nat /\ Len(rest) \in Nat /\ Len(rest) > 0 /\ Head(rest) = rest[1]
      /\ Len(Tail(rest)) = Len(rest) - 1 /\ \A i \in 1 .. Len(Tail(rest)) : Tail(rest)[i] = rest[i + 1]
  OBVIOUS
<1> DEFINE p == t + n + 1
           c == IF b < p THEN p ELSE b
           saved == known \cup {Head(rest)}
<1>2. p \in 1 .. Len(s) /\ s[p] = Head(rest)
  <2>1. t + n + Len(rest) <= Len(s) /\ 1 \in 1 .. Len(rest)
    BY <1>1 DEF InPage
  <2>2. p \in 1 .. Len(s)
    BY <1>1, <2>1
  <2> QED BY <1>1, <2>1, <2>2 DEF InPage
<1>3. p \in Nat /\ c \in Nat /\ b <= c /\ p <= c /\ c <= Len(s) /\ (c = b \/ (c = p /\ p = b + 1))
  <2>1. t + n <= b /\ b <= Len(s)
    BY DEF InPage, Kept
  <2> QED BY <1>1, <1>2, <2>1
<1>4. \A i \in 1 .. Len(s) : s[i] \in saved <=> s[i] \in known \/ i = p
  BY <1>2 DEF IsDistinct
<1>5. u < p
  BY DEF InPage
<1>7. (t + 1) + n = p
  OBVIOUS
<1> HIDE DEF saved, c
<1>6. ASSUME NEW i \in 1 .. Len(s)
      PROVE  /\ i <= u => s[i] \notin saved /\ s[i] \notin listed
             /\ k < i /\ i <= c => s[i] \in saved
             /\ c < i /\ s[i] \in saved => \A j \in 1 .. Len(s) : i < j => s[j] \in saved
  <2>1. i <= u => s[i] \notin saved /\ s[i] \notin listed
    <3>1. i <= u => i # p
      BY <1>3, <1>5
    <3> QED BY <1>4, <3>1 DEF InPage, Kept
  <2>2. k < i /\ i <= c => s[i] \in saved
    <3>1. i <= c => i <= b \/ i = p
      BY <1>3
    <3> QED BY <1>4, <3>1 DEF InPage, Kept
  <2>3. c < i /\ s[i] \in saved => \A j \in 1 .. Len(s) : i < j => s[j] \in saved
    <3>1. c < i => b < i /\ i # p
      BY <1>3
    <3> QED BY <1>4, <3>1 DEF InPage, Kept
  <2> QED BY <2>1, <2>2, <2>3
<1>8. \/ fewer + c <= (t + 1) + k
      \/ \A i \in 1 .. Len(s) : c < i => s[i] \in saved
  <2>1. CASE exists + b <= t + k
    BY <1>3, <2>1
  <2>2. CASE \A i \in 1 .. Len(s) : b < i => s[i] \in known
    <3>1. \A i \in 1 .. Len(s) : c < i => b < i
      BY <1>3
    <3> QED BY <1>4, <2>2, <3>1
  <2> QED BY <2>1, <2>2 DEF InPage, Kept
<1>9. Kept(s, saved, listed, fewer, first, k, c, u, t + 1)
  <2>1. fewer <= t + 1
    BY DEF InPage, Kept
  <2>2. k + first <= Len(s) /\ u <= k
    BY DEF InPage, Kept
  <2> QED BY <1>3, <1>6, <1>8, <2>1, <2>2 DEF Kept
<1>10. \A i \in 1 .. Len(s) : u < i /\ i <= (t + 1) + n => s[i] \in saved
  <2> SUFFICES ASSUME NEW i \in 1 .. Len(s), u < i, i <= p PROVE s[i] \in saved
    BY <1>7
  <2>1. i <= t + n \/ i = p
    OBVIOUS
  <2> QED BY <1>4, <2>1 DEF InPage
<1>11. /\ (t + 1) + n + Len(Tail(rest)) <= Len(s)
       /\ \/ (t + 1) + Len(Tail(rest)) = next
          \/ (t + 1) + Len(Tail(rest)) <= next /\ (t + 1) + n + Len(Tail(rest)) = Len(s)
  <2>1. (t + 1) + n + Len(Tail(rest)) = t + n + Len(rest) /\ (t + 1) + Len(Tail(rest)) = t + Len(rest)
    BY <1>1
  <2> QED BY <2>1 DEF InPage
<1>12. \A i \in 1 .. Len(Tail(rest)) : Tail(rest)[i] = s[(t + 1) + n + i]
  <2> SUFFICES ASSUME NEW i \in 1 .. Len(Tail(rest)) PROVE Tail(rest)[i] = s[(t + 1) + n + i]
    OBVIOUS
  <2>1. i + 1 \in 1 .. Len(rest) /\ (t + 1) + n + i = t + n + (i + 1)
    BY <1>1
  <2> QED BY <1>1, <2>1 DEF InPage
<1>13. u <= (t + 1) + n
  BY DEF InPage
<1> HIDE DEF p
<1>14. InPage(s, saved, listed, fewer, first, k, c, u, t + 1, n, Tail(rest), next)
  BY <1>3, <1>7, <1>9, <1>10, <1>11, <1>12, <1>13 DEF InPage
<1> QED BY <1>3, <1>14 DEF saved

\* The page has ended.
LEMMA PageEnds ==
  ASSUME NEW s \in Seq(Log), NEW known, NEW listed, NEW exists \in Nat, NEW first \in Nat,
         NEW k \in Nat, NEW b \in Nat, NEW u \in Nat, NEW t \in Nat, NEW n \in Nat, NEW next \in Nat,
         InPage(s, known, listed, exists, first, k, b, u, t, n, <<>>, next)
  PROVE  AtPage(s, known, listed, exists, first, k, b, u, next)
<1>1. Len(s) \in Nat /\ (t = next \/ (t <= next /\ t + n = Len(s))) /\ t + n <= b /\ b <= Len(s)
  BY DEF InPage, Kept
<1>2. next <= b \/ b = Len(s)
  BY <1>1
<1>3. \A i \in 1 .. Len(s) : u < i /\ i <= next => s[i] \in known
  <2> SUFFICES ASSUME NEW i \in 1 .. Len(s), u < i, i <= next PROVE s[i] \in known
    OBVIOUS
  <2>1. i <= t + n
    BY <1>1
  <2> QED BY <2>1 DEF InPage
<1>4. Kept(s, known, listed, exists, first, k, b, u, next)
  <2>1. exists <= t /\ t <= next /\ exists \in Nat
    BY <1>1 DEF InPage, Kept
  <2>2. exists <= next
    BY <2>1
  <2>3. exists + b <= t + k => exists + b <= next + k
    BY <2>1
  <2> QED BY <2>2, <2>3 DEF InPage, Kept
<1> QED BY <1>2, <1>3, <1>4 DEF AtPage

\* The realm is done: there is no further log, or too many were known already.
LEMMA RealmEnds ==
  ASSUME NEW s \in Seq(Log), NEW known, NEW listed, NEW exists \in Nat, NEW first \in Nat,
         NEW k \in Nat, NEW b \in Nat, NEW u \in Nat, NEW t \in Nat,
         AtPage(s, known, listed, exists, first, k, b, u, t),
         Len(s) <= t \/ k < exists
  PROVE  IsSuffix(s, known) /\ \A i \in 1 .. Len(s) : s[i] \in listed => s[i] \in known
<1>1. Len(s) \in Nat
  OBVIOUS
<1>2. \A i \in 1 .. Len(s) : i <= u => s[i] \notin known /\ s[i] \notin listed
  BY DEF AtPage, Kept
<1>3. \A i \in 1 .. Len(s) : u < i => s[i] \in known
  <2> SUFFICES ASSUME NEW i \in 1 .. Len(s), u < i, ~(i <= t) PROVE s[i] \in known
    BY DEF AtPage
  <2>1. k < exists /\ exists <= t /\ (t <= b \/ b = Len(s))
    BY <1>1 DEF AtPage, Kept
  <2>2. k < exists /\ k < i
    BY <1>1 DEF AtPage, Kept
  <2>3. CASE i <= b
    BY <2>2, <2>3 DEF AtPage, Kept
  <2>4. CASE b < i
    <3>1. t <= b
      BY <1>1, <2>4 DEF AtPage
    <3>2. ~(exists + b <= t + k)
      BY <2>2, <3>1 DEF AtPage, Kept
    <3> QED BY <2>4, <3>2 DEF AtPage, Kept
  <2> QED BY <2>3, <2>4 DEF AtPage, Kept
<1>4. IsSuffix(s, known)
  <2> SUFFICES ASSUME NEW i \in 1 .. Len(s), NEW j \in 1 .. Len(s), i < j, s[i] \in known PROVE s[j] \in known
    BY DEF IsSuffix
  <2>1. u < i
    BY <1>2
  <2> QED BY <1>3, <2>1
<1>5. \A i \in 1 .. Len(s) : s[i] \in listed => s[i] \in known
  <2> SUFFICES ASSUME NEW i \in 1 .. Len(s), s[i] \in listed PROVE s[i] \in known
    OBVIOUS
  <2>1. u < i
    BY <1>2
  <2> QED BY <1>3, <2>1
<1> QED BY <1>4, <1>5

-----------------------------------------------------------------------------
(* What a listing relies on                                                *)

\* The logs that the lists of the realms hold.
InLists(lists) == UNION {{lists[r][i] : i \in DOMAIN lists[r]} : r \in Realm}

SavedLogs == {g \in Log : Known(g)}

\* Only a listing makes a log known.
LEMMA SaveLogSaves ==
  ASSUME Typed, NEW x \in Lister, SaveLog(x)
  PROVE  SavedLogs' = SavedLogs \cup {Head(lister[x].logs)}
<1> DEFINE row == [isIndexed |-> FALSE, realmSlug |-> lister[x].realm]
           log == Head(lister[x].logs)
<1>1. rows \in [Log -> Seq(Row)] /\ lister[x].logs \in Seq(Log) /\ lister[x].logs # <<>>
  BY DEF SaveLog, Typed, TypeOK, ListersReady, Ready, Listings
<1>2. log \in Log
  BY <1>1
<1>3. rows' = [rows EXCEPT ![log] = Append(@, row)]
  BY DEF SaveLog
<1> HIDE DEF row, log
<1>4. rows'[log] # <<>> /\ \A g \in Log \ {log} : rows'[g] = rows[g]
  BY <1>1, <1>2, <1>3
<1> QED BY <1>2, <1>4 DEF SavedLogs, Known, log

LEMMA SavedSteps ==
  ASSUME Typed, [Next]_vars, \A x \in Lister : ~SaveLog(x)
  PROVE  SavedLogs' = SavedLogs
<1>1. rows \in [Log -> Seq(Row)] /\ lister \in [Lister -> Listings] /\ migration \in Migrations
  BY DEF Typed, TypeOK
<1>2. ASSUME rows' \in [Log -> Seq(Row)], \A g \in Log : Len(rows'[g]) = Len(rows[g])
      PROVE  SavedLogs' = SavedLogs
  <2>1. ASSUME NEW g \in Log PROVE rows'[g] # <<>> <=> rows[g] # <<>>
    <3>1. rows[g] \in Seq(Row) /\ rows'[g] \in Seq(Row) /\ Len(rows'[g]) = Len(rows[g])
      BY <1>1, <1>2
    <3> QED BY <3>1
  <2> QED BY <2>1 DEF SavedLogs, Known
<1>3. CASE UNCHANGED rows
  BY <1>3 DEF SavedLogs, Known
<1>4. ASSUME NEW x \in Lister, UpdateSlug(x)
      PROVE  SavedLogs' = SavedLogs
  <2>1. lister[x].realm \in Realm
    BY <1>4 DEF UpdateSlug, Typed, ListersReady, Ready
  <2> QED BY <1>1, <1>2, <1>4, <2>1, WithRealmKeeps DEF UpdateSlug
<1>5. CASE UpdateMissingSlugs
  <2>1. migration.realm \in Realm
    BY <1>5 DEF UpdateMissingSlugs, Typed, MigrationReady
  <2> QED BY <1>1, <1>2, <1>5, <2>1, WithRealmKeeps DEF UpdateMissingSlugs
<1>6. ASSUME NEW x \in Indexer, NEW job \in indexer[x].jobs, MarkLogAsIndexed(x, job)
      PROVE  SavedLogs' = SavedLogs
  BY <1>1, <1>2, <1>6, WithIndexedKeeps DEF MarkLogAsIndexed
<1> QED BY <1>3, <1>4, <1>5, <1>6, RowsWriters

-----------------------------------------------------------------------------
(* The runs of indexWarcraftLogs                                           *)

\* The run pages through the realm.
IsAt(run, r) == run.step \in {"page", "log", "slug", "save"} /\ run.realm = r

\* The logs of the page that are still to be looked for.
Rest(run) == IF run.step = "slug" THEN Tail(run.logs) ELSE run.logs

\* The realm is still to come, or what was listed is saved.
IsServed(run, s, known, listed, r) ==
  r \in run.todo \/ \A i \in 1 .. Len(s) : s[i] \in listed => s[i] \in known

\* The run has its lock, and serves the realms one after the other.
RunProgress(run, lists, known, listed, sz) ==
  /\ listed \subseteq InLists(lists)
  /\ run.step \notin {"idle", "check", "lock"}
  /\ run.step = "release" => run.todo = {}
  /\ \A r \in Realm : ~IsAt(run, r) => IsSuffix(lists[r], known) /\ IsServed(run, lists[r], known, listed, r)
  /\ run.step = "page" => \E k, b, u \in Nat :
       AtPage(lists[run.realm], known, listed, run.exists, sz[run.realm], k, b, u,
              (run.page - 1) * PageSize)
  /\ run.step \in {"log", "slug", "save"} => \E k, b, u, t, n \in Nat :
       InPage(lists[run.realm], known, listed, run.exists, sz[run.realm], k, b, u, t, n,
              Rest(run), run.page * PageSize)

\* No more has been published than the run tolerates and its pages hold.
IsFit(lists, sz) ==
  /\ FromPage = 1
  /\ \A r, s \in Realm : \A i \in DOMAIN lists[r], j \in DOMAIN lists[s] :
       lists[r][i] = lists[s][j] => r = s /\ i = j
  /\ \A r \in Realm :
       /\ sz[r] <= Len(lists[r])
       /\ Len(lists[r]) <= sz[r] + Tolerance
       /\ Len(lists[r]) <= (ToPage - 1) * PageSize

ObservedType == promised \in [Lister -> SUBSET Log] /\ sizes \in [Lister -> [Realm -> Nat]]

\* A run that promises something is able to keep it.
CoverageInv ==
  \A x \in Lister : promised[x] # {} =>
    IsFit(site, sizes[x]) /\ RunProgress(lister[x], site, SavedLogs, promised[x], sizes[x])

LEMMA PageStart ==
  ASSUME NEW p \in Nat, p > 0
  PROVE  /\ (p - 1) * PageSize \in Nat /\ p * PageSize = (p - 1) * PageSize + PageSize
         /\ PageSize \in Nat /\ PageSize > 0
<1>1. PageSize \in Nat /\ PageSize > 0 /\ p - 1 \in Nat
  BY ConstantsAssumption
<1> QED BY <1>1

LEMMA PublishKeepsProgress ==
  ASSUME NEW listed \in SUBSET Log, NEW sz \in [Realm -> Nat], Typed, NEW r \in Realm, NEW g \in Log, Publish(r, g),
         NEW x \in Lister, RunProgress(lister[x], site, SavedLogs, listed, sz)
  PROVE  RunProgress(lister[x], site', SavedLogs, listed, sz)
<1> DEFINE run == lister[x]
           known == SavedLogs
<1>1. /\ g \notin Listed /\ g \notin known /\ site' = [site EXCEPT ![r] = <<g>> \o site[r]]
      /\ site \in [Realm -> Seq(Log)] /\ run \in Listings /\ Ready(run)
  BY DEF Publish, Typed, TypeOK, ListersReady, SavedLogs
<1>2. \A s \in Realm : s # r => site'[s] = site[s]
  BY <1>1
<1>3. site[r] \in Seq(Log) /\ site'[r] \in Seq(Log) /\ site'[r] = <<g>> \o site[r]
  BY <1>1, Prepended
<1>4. /\ Len(site'[r]) = Len(site[r]) + 1 /\ Len(site[r]) \in Nat
      /\ \A i \in 1 .. Len(site'[r]) :
           IF i = 1 THEN site'[r][i] = g ELSE i - 1 \in 1 .. Len(site[r]) /\ site'[r][i] = site[r][i - 1]
  BY <1>3, Prepended
<1>5. g \notin listed
  BY <1>1 DEF RunProgress, InLists, Listed
<1>6. listed \subseteq InLists(site')
  <2> SUFFICES ASSUME NEW h \in listed PROVE h \in InLists(site')
    OBVIOUS
  <2>1. h \in InLists(site)
    BY DEF RunProgress
  <2>2. PICK s \in Realm : \E i \in DOMAIN site[s] : h = site[s][i]
    BY <2>1 DEF InLists
  <2>3. PICK i \in DOMAIN site[s] : h = site[s][i]
    BY <2>2
  <2>4. CASE s # r
    BY <1>2, <2>3, <2>4 DEF InLists
  <2>5. CASE s = r
    <3>1. i \in 1 .. Len(site[r]) /\ i \in Nat
      BY <1>3, <2>5
    <3>2. i + 1 \in 1 .. Len(site'[r]) /\ i + 1 # 1 /\ (i + 1) - 1 = i
      BY <1>4, <3>1
    <3>3. site'[r][i + 1] = h /\ i + 1 \in DOMAIN site'[r]
      BY <1>3, <1>4, <2>3, <2>5, <3>2
    <3> QED BY <3>3 DEF InLists
  <2> QED BY <2>4, <2>5
<1>7. ASSUME IsSuffix(site[r], known) PROVE IsSuffix(site'[r], known)
  <2> SUFFICES ASSUME NEW i \in 1 .. Len(site'[r]), NEW j \in 1 .. Len(site'[r]), i < j, site'[r][i] \in known
               PROVE  site'[r][j] \in known
    BY DEF IsSuffix
  <2>1. i # 1 /\ i \in Nat /\ j \in Nat /\ j # 1
    BY <1>1, <1>4
  <2>2. /\ i - 1 \in 1 .. Len(site[r]) /\ j - 1 \in 1 .. Len(site[r]) /\ i - 1 < j - 1
        /\ site'[r][i] = site[r][i - 1] /\ site'[r][j] = site[r][j - 1]
    BY <1>4, <2>1
  <2> QED BY <1>7, <2>2 DEF IsSuffix
<1>8. ASSUME IsServed(run, site[r], known, listed, r) PROVE IsServed(run, site'[r], known, listed, r)
  BY <1>4, <1>5, <1>8 DEF IsServed
<1>9. \A s \in Realm : ~IsAt(run, s) => IsSuffix(site'[s], known) /\ IsServed(run, site'[s], known, listed, s)
  BY <1>2, <1>7, <1>8 DEF RunProgress
<1>10. run.exists \in Nat /\ run.page \in Nat /\ run.logs \in Seq(Log)
  BY <1>1 DEF Listings
<1>11. ASSUME run.step = "page"
       PROVE  \E k, b, u \in Nat :
                AtPage(site'[run.realm], known, listed, run.exists, sz[run.realm], k, b, u,
                       (run.page - 1) * PageSize)
  <2> DEFINE q == run.realm
             t == (run.page - 1) * PageSize
             first == sz[q]
  <2>1. q \in Realm /\ run.page > 0
    BY <1>1, <1>11 DEF Ready
  <2>6. first \in Nat
    BY <2>1
  <2>7. run.page \in Nat /\ run.page > 0
    BY <1>10, <2>1
  <2>8. t \in Nat
    BY ONLY <2>7, PageStart
  <2>2. t \in Nat /\ first \in Nat
    BY <2>6, <2>8
  <2>3. PICK k \in Nat, b \in Nat, u \in Nat : AtPage(site[q], known, listed, run.exists, first, k, b, u, t)
    BY <1>11 DEF RunProgress
  <2> HIDE DEF t, first
  <2>4. CASE q # r
    BY <1>2, <2>1, <2>3, <2>4 DEF t, first
  <2>5. CASE q = r
    <3>1. AtPage(site'[q], known, listed, run.exists, first, k + 1, b + 1, u + 1, t)
      BY <1>1, <1>3, <1>5, <1>10, <2>2, <2>3, <2>5, PublishAtPage
    <3> QED BY <3>1 DEF t, first
  <2> QED BY <2>4, <2>5
<1>12. ASSUME run.step \in {"log", "slug", "save"}
       PROVE  \E k, b, u, t, n \in Nat :
                InPage(site'[run.realm], known, listed, run.exists, sz[run.realm], k, b, u, t, n,
                       Rest(run), run.page * PageSize)
  <2> DEFINE q == run.realm
             next == run.page * PageSize
             first == sz[q]
             rest == Rest(run)
  <2>1. q \in Realm /\ run.page > 0 /\ (run.step = "slug" => run.logs # <<>>)
    BY <1>1, <1>12 DEF Ready
  <2>6. first \in Nat /\ PageSize \in Nat
    BY <2>1, ConstantsAssumption
  <2>7. rest \in Seq(Log)
    BY <1>10, <2>1 DEF Rest
  <2>2. next \in Nat /\ first \in Nat /\ rest \in Seq(Log)
    BY <1>10, <2>6, <2>7
  <2>3. PICK k \in Nat, b \in Nat, u \in Nat, t \in Nat, n \in Nat :
          InPage(site[q], known, listed, run.exists, first, k, b, u, t, n, rest, next)
    BY <1>12 DEF RunProgress
  <2> HIDE DEF next, first, rest
  <2>4. CASE q # r
    <3>1. site'[q] = site[q]
      BY <1>2, <2>1, <2>4
    <3>2. InPage(site'[q], known, listed, run.exists, first, k, b, u, t, n, rest, next)
      BY <2>3, <3>1
    <3> QED BY <3>2 DEF next, first, rest
  <2>5. CASE q = r
    <3>1. /\ site[q] \in Seq(Log) /\ site'[q] \in Seq(Log) /\ site'[q] = <<g>> \o site[q]
          /\ g \notin known /\ g \notin listed /\ run.exists \in Nat
      BY <1>1, <1>3, <1>5, <1>10, <2>5
    <3>2. InPage(site'[q], known, listed, run.exists, first, k + 1, b + 1, u + 1, t, n + 1, rest, next)
      BY <2>2, <2>3, <3>1, PublishInPage
    <3> QED BY <3>2 DEF next, first, rest
  <2> QED BY <2>4, <2>5
<1> QED BY <1>6, <1>9, <1>11, <1>12 DEF RunProgress

\* A page is empty behind the last log, and the run has passed the last page's logs
\* when it ends a realm there.
LEMMA PagesAreEnough ==
  ASSUME NEW sz \in [Realm -> Nat], Typed, IsFit(site, sz), NEW r \in Realm, NEW p \in Nat, p >= ToPage
  PROVE  Len(site[r]) <= (p - 1) * PageSize
<1>1. ToPage \in Nat /\ PageSize \in Nat /\ PageSize > 0
  BY ConstantsAssumption
<1>2. Len(site[r]) <= (ToPage - 1) * PageSize /\ Len(site[r]) \in Nat
  <2>1. site[r] \in Seq(Log)
    BY DEF Typed, TypeOK
  <2> QED BY <2>1 DEF IsFit
<1>3. ToPage > 0
  <2> SUFFICES ASSUME ToPage = 0 PROVE FALSE
    BY <1>1
  <2>1. (ToPage - 1) * PageSize = 0 - PageSize
    BY <1>1
  <2> QED BY <1>1, <1>2, <2>1
<1>4. PICK d \in Nat : p - 1 = (ToPage - 1) + d
  <2>1. p - ToPage \in Nat /\ p - 1 = (ToPage - 1) + (p - ToPage)
    BY <1>1
  <2> QED BY <2>1
<1>5. \A a, c, e \in Nat : (a + c) * e = a * e + c * e /\ c * e \in Nat /\ a * e \in Nat
  OBVIOUS
<1>6. (p - 1) * PageSize = (ToPage - 1) * PageSize + d * PageSize /\ d * PageSize \in Nat
      /\ (ToPage - 1) * PageSize \in Nat
  BY <1>1, <1>3, <1>4, <1>5
<1> QED BY <1>2, <1>6

LEMMA ReadPageKeepsProgress ==
  ASSUME NEW listed \in SUBSET Log, NEW sz \in [Realm -> Nat], Typed, IsFit(site, sz), NEW x \in Lister, ReadPage(x),
         RunProgress(lister[x], site, SavedLogs, listed, sz)
  PROVE  RunProgress(lister'[x], site, SavedLogs, listed, sz)
<1> DEFINE run == lister[x]
           r == run.realm
           p == run.page
           s == site[r]
           known == SavedLogs
           t == (p - 1) * PageSize
           first == sz[r]
           logs == LogsOnPage(r, p)
           isDone == p >= ToPage \/ run.exists > Tolerance \/ logs = <<>>
<1>1. /\ site \in [Realm -> Seq(Log)] /\ lister \in [Lister -> Listings] /\ run \in Listings /\ run.step = "page"
      /\ r \in Realm /\ p \in Nat /\ p > 0 /\ run.exists \in Nat
  BY DEF ReadPage, Typed, TypeOK, ListersReady, Ready, Listings
<1>2. /\ t \in Nat /\ p * PageSize = t + PageSize /\ PageSize \in Nat /\ PageSize > 0 /\ first \in Nat
      /\ s \in Seq(Log) /\ Len(s) \in Nat /\ Tolerance \in Nat
  <2>1. first \in Nat /\ Tolerance \in Nat
    BY <1>1, ConstantsAssumption
  <2>2. s \in Seq(Log)
    BY <1>1
  <2>3. t \in Nat /\ p * PageSize = t + PageSize /\ PageSize \in Nat /\ PageSize > 0
    BY <1>1, PageStart
  <2> QED BY <2>1, <2>2, <2>3
<1>3. /\ logs \in Seq(Log)
      /\ Len(logs) = IF Len(s) <= t THEN 0 ELSE IF p * PageSize < Len(s) THEN PageSize ELSE Len(s) - t
      /\ \A i \in 1 .. Len(logs) : logs[i] = s[t + i]
  BY <1>1, PageHolds
<1>4. PICK k \in Nat, b \in Nat, u \in Nat : AtPage(s, known, listed, run.exists, first, k, b, u, t)
  BY <1>1 DEF RunProgress
<1>5. /\ lister'[x].step = IF isDone THEN "realm" ELSE "log"
      /\ lister'[x].logs = IF isDone THEN <<>> ELSE logs
      /\ lister'[x].todo = run.todo /\ lister'[x].realm = r /\ lister'[x].page = p
      /\ lister'[x].exists = run.exists
  BY <1>1 DEF ReadPage, Lists, Listings
<1>6. k <= Tolerance
  <2>1. Len(s) <= first + Tolerance
    BY <1>1 DEF IsFit
  <2>2. k + first <= Len(s)
    BY <1>4 DEF AtPage, Kept
  <2> HIDE DEF first, s
  <2> QED BY <1>2, <2>1, <2>2
<1>7. p >= ToPage => Len(s) <= t
  BY <1>1, PagesAreEnough
<1> HIDE DEF t, first, logs, s
<1>8. logs = <<>> <=> Len(s) <= t
  <2>1. Len(logs) \in Nat /\ (logs = <<>> <=> Len(logs) = 0)
    BY <1>3
  <2> QED BY <1>2, <1>3, <2>1
<1>9. \A q \in Realm : q # r => IsSuffix(site[q], known) /\ IsServed(lister'[x], site[q], known, listed, q)
  BY <1>1, <1>5 DEF RunProgress, IsAt, IsServed
<1>10. CASE isDone
  <2>1. Len(s) <= t \/ k < run.exists
    BY <1>1, <1>2, <1>6, <1>7, <1>8, <1>10
  <2>2. IsSuffix(s, known) /\ \A i \in 1 .. Len(s) : s[i] \in listed => s[i] \in known
    <3> HIDE DEF run, known
    <3>1. s \in Seq(Log) /\ run.exists \in Nat /\ first \in Nat /\ t \in Nat
      BY <1>1, <1>2
    <3> QED BY <1>4, <2>1, <3>1, RealmEnds
  <2>3. IsSuffix(site[r], known) /\ IsServed(lister'[x], site[r], known, listed, r)
    BY <1>5, <2>2 DEF IsServed, s
  <2>4. \A q \in Realm : IsSuffix(site[q], known) /\ IsServed(lister'[x], site[q], known, listed, q)
    BY <1>9, <2>3
  <2> QED BY <1>5, <1>10, <2>4 DEF RunProgress
<1>11. CASE ~isDone
  <2> DEFINE next == p * PageSize
  <2>7. next = t + PageSize
    BY <1>2 DEF next
  <2>8. t < Len(s)
    BY <1>2, <1>8, <1>11
  <2> HIDE DEF next
  <2>9. t \in Nat /\ PageSize \in Nat /\ PageSize > 0
    BY <1>2
  <2>1. t < Len(s) /\ t < next /\ next \in Nat /\ next - t = PageSize
    BY ONLY <2>7, <2>8, <2>9
  <2>2. Len(logs) = IF next < Len(s) THEN next - t ELSE Len(s) - t
    BY <1>2, <1>3, <2>1 DEF next
  <2>3. PICK v \in Nat : InPage(s, known, listed, run.exists, first, k, b, v, t, 0, logs, next)
    BY <1>1, <1>2, <1>3, <1>4, <2>1, <2>2, PageIsRead
  <2>4. lister'[x].step = "log" /\ Rest(lister'[x]) = logs
    BY <1>5, <1>11 DEF Rest
  <2>5. \E kk, bb, uu, tt, nn \in Nat :
          InPage(site[r], known, listed, run.exists, sz[r], kk, bb, uu, tt, nn, logs, p * PageSize)
    BY <1>2, <2>3 DEF s, first, next
  <2>6. \A q \in Realm : ~IsAt(lister'[x], q) => IsSuffix(site[q], known) /\ IsServed(lister'[x], site[q], known, listed, q)
    BY <1>5, <1>9, <2>4 DEF IsAt
  <2> QED BY <1>5, <2>4, <2>5, <2>6 DEF RunProgress
<1> QED BY <1>10, <1>11

LEMMA NextLogIs ==
  ASSUME NEW run \in Listings, run.logs # <<>>
  PROVE  /\ NextLog(run).step = "log" /\ NextLog(run).logs = Tail(run.logs) /\ NextLog(run).page = run.page
         /\ NextLog(run).exists = run.exists /\ NextLog(run).realm = run.realm /\ NextLog(run).todo = run.todo
         /\ NextLog(run) \in Listings
<1> DEFINE rest == Tail(run.logs)
<1>1. rest \in Seq(Log)
  BY DEF Listings
<1>2. NextLog(run) = [run EXCEPT !.step = "log", !.logs = rest]
  BY DEF NextLog
<1> HIDE DEF rest
<1>3. /\ NextLog(run).step = "log" /\ NextLog(run).logs = rest /\ NextLog(run).page = run.page
      /\ NextLog(run).exists = run.exists /\ NextLog(run).realm = run.realm /\ NextLog(run).todo = run.todo
  BY <1>2 DEF Listings
<1>4. NextLog(run) \in Listings
  BY <1>1, <1>2 DEF Listings
<1> QED BY <1>3, <1>4 DEF rest

LEMMA FindLogKeepsProgress ==
  ASSUME NEW listed \in SUBSET Log, NEW sz \in [Realm -> Nat], Typed, NEW x \in Lister, FindLog(x),
         RunProgress(lister[x], site, SavedLogs, listed, sz)
  PROVE  RunProgress(lister'[x], site, SavedLogs, listed, sz)
<1> DEFINE run == lister[x]
           r == run.realm
           s == site[r]
           known == SavedLogs
           next == run.page * PageSize
           first == sz[r]
           logs == run.logs
           g == Head(logs)
<1>1. /\ site \in [Realm -> Seq(Log)] /\ lister \in [Lister -> Listings] /\ run \in Listings /\ run.step = "log"
      /\ r \in Realm /\ run.page \in Nat /\ run.page > 0 /\ run.exists \in Nat /\ logs \in Seq(Log)
  BY DEF FindLog, Typed, TypeOK, ListersReady, Ready, Listings
<1>2. /\ next \in Nat /\ first \in Nat /\ s \in Seq(Log)
  <2>1. first \in Nat
    BY <1>1
  <2>2. (run.page - 1) * PageSize \in Nat /\ next = (run.page - 1) * PageSize + PageSize /\ PageSize \in Nat
    BY <1>1, PageStart
  <2>3. s \in Seq(Log)
    BY <1>1
  <2> HIDE DEF next
  <2> QED BY <2>1, <2>2, <2>3
<1>3. PICK k \in Nat, b \in Nat, u \in Nat, t \in Nat, n \in Nat :
        InPage(s, known, listed, run.exists, first, k, b, u, t, n, logs, next)
  BY <1>1 DEF RunProgress, Rest
<1>4. \A q \in Realm : q # r => IsSuffix(site[q], known) /\ IsServed(run, site[q], known, listed, q)
  BY <1>1 DEF RunProgress, IsAt
<1>5. ASSUME lister'[x].realm = r, lister'[x].todo = run.todo,
             lister'[x].step \in {"page", "log", "slug", "save"}
      PROVE  /\ listed \subseteq InLists(site)
             /\ \A q \in Realm : ~IsAt(lister'[x], q) =>
                  IsSuffix(site[q], known) /\ IsServed(lister'[x], site[q], known, listed, q)
  BY <1>4, <1>5 DEF RunProgress, IsAt, IsServed
<1>6. CASE logs = <<>>
  <2>1. lister'[x] = [run EXCEPT !.step = "page", !.page = run.page + 1]
    BY <1>1, <1>6 DEF FindLog, Lists
  <2>2. /\ lister'[x].step = "page" /\ lister'[x].page = run.page + 1 /\ lister'[x].exists = run.exists
        /\ lister'[x].realm = r /\ lister'[x].todo = run.todo
    BY <1>1, <2>1 DEF Listings
  <2>3. AtPage(s, known, listed, run.exists, first, k, b, u, next)
    <3> DEFINE exists == run.exists
    <3>1. InPage(s, known, listed, exists, first, k, b, u, t, n, <<>>, next) /\ exists \in Nat
      BY <1>1, <1>3, <1>6
    <3> HIDE DEF s, known, exists, first, next, run, logs, r
    <3>2. AtPage(s, known, listed, exists, first, k, b, u, next)
      BY <1>2, <3>1, PageEnds
    <3> QED BY <3>2 DEF exists
  <2>4. (lister'[x].page - 1) * PageSize = next
    <3>1. (run.page + 1) - 1 = run.page
      BY <1>1
    <3> QED BY <2>2, <3>1
  <2> QED BY <1>5, <2>2, <2>3, <2>4 DEF RunProgress
<1>7. CASE logs # <<>> /\ ~Known(g)
  <2>1. lister'[x] = [run EXCEPT !.step = "save"]
    BY <1>1, <1>7 DEF FindLog, Lists
  <2>2. /\ lister'[x].step = "save" /\ lister'[x].page = run.page /\ lister'[x].exists = run.exists
        /\ lister'[x].realm = r /\ lister'[x].todo = run.todo
        /\ lister'[x].logs = logs
    BY <1>1, <2>1 DEF Listings
  <2>3. Rest(lister'[x]) = logs
    BY <2>2 DEF Rest
  <2> QED BY <1>3, <1>5, <2>2, <2>3 DEF RunProgress
<1>8. CASE logs # <<>> /\ Known(g)
  <2>1. \/ lister'[x] = [run EXCEPT !.step = "slug", !.exists = run.exists + 1]
        \/ lister'[x] = [NextLog(run) EXCEPT !.exists = run.exists + 1]
    <3>1. PICK i \in DOMAIN rows[g] :
            Lists(x, IF rows[g][i].realmSlug = NoRealm
                       THEN [run EXCEPT !.step = "slug", !.exists = @ + 1]
                       ELSE [NextLog(run) EXCEPT !.exists = @ + 1])
      BY <1>8 DEF FindLog
    <3>2. NextLog(run).exists = run.exists
      BY <1>1, <1>8, NextLogIs
    <3>3. CASE rows[g][i].realmSlug = NoRealm
      BY <1>1, <3>1, <3>3 DEF Lists
    <3>4. CASE rows[g][i].realmSlug # NoRealm
      BY <1>1, <3>1, <3>2, <3>4 DEF Lists
    <3> QED BY <3>3, <3>4
  <2>2. /\ lister'[x].step \in {"slug", "log"} /\ lister'[x].page = run.page /\ lister'[x].exists = run.exists + 1
        /\ lister'[x].realm = r /\ lister'[x].todo = run.todo
        /\ lister'[x].logs = IF lister'[x].step = "slug" THEN logs ELSE Tail(logs)
    <3>1. CASE lister'[x] = [run EXCEPT !.step = "slug", !.exists = run.exists + 1]
      BY <1>1, <3>1 DEF Listings
    <3>2. CASE lister'[x] = [NextLog(run) EXCEPT !.exists = run.exists + 1]
      <4>1. /\ NextLog(run).step = "log" /\ NextLog(run).logs = Tail(logs) /\ NextLog(run).page = run.page
            /\ NextLog(run).realm = r /\ NextLog(run).todo = run.todo
            /\ NextLog(run) \in Listings
        BY <1>1, <1>8, NextLogIs
      <4> QED BY <3>2, <4>1 DEF Listings
    <3> QED BY <2>1, <3>1, <3>2
  <2>3. Rest(lister'[x]) = Tail(logs)
    BY <2>2 DEF Rest
  <2>4. g \in known
    BY <1>1, <1>8 DEF SavedLogs
  <2> HIDE DEF next, first, s, known
  <2>5. PICK c \in Nat : InPage(s, known, listed, run.exists + 1, first, k, c, u, t + 1, n, Tail(logs), next)
    BY <1>1, <1>2, <1>3, <1>8, <2>4, KnownIsCounted
  <2>6. t + 1 \in Nat
    OBVIOUS
  <2>7. \E kk, bb, uu, tt, nn \in Nat :
          InPage(site[lister'[x].realm], SavedLogs, listed, lister'[x].exists,
                 sz[lister'[x].realm], kk, bb, uu, tt, nn, Rest(lister'[x]),
                 lister'[x].page * PageSize)
    <3>1. /\ lister'[x].realm = r /\ lister'[x].exists = run.exists + 1
          /\ lister'[x].page = run.page /\ Rest(lister'[x]) = Tail(logs)
      BY <2>2, <2>3
    <3>2. InPage(site[r], SavedLogs, listed, run.exists + 1, sz[r], k, c, u, t + 1, n,
                 Tail(logs), run.page * PageSize)
      BY <2>5 DEF next, first, s, known
    <3> HIDE DEF run, r, logs, g
    <3>3. InPage(site[lister'[x].realm], SavedLogs, listed, lister'[x].exists,
                 sz[lister'[x].realm], k, c, u, t + 1, n, Rest(lister'[x]),
                 lister'[x].page * PageSize)
      BY <3>1, <3>2
    <3> QED BY <2>6, <3>3
  <2>8. /\ listed \subseteq InLists(site)
        /\ \A q \in Realm : ~IsAt(lister'[x], q) =>
             IsSuffix(site[q], SavedLogs) /\ IsServed(lister'[x], site[q], SavedLogs, listed, q)
    BY <1>5, <2>2 DEF known
  <2>9. lister'[x].step \in {"slug", "log"}
    BY <2>2
  <2> HIDE DEF run, r, logs, g
  <2> QED BY <2>7, <2>8, <2>9 DEF RunProgress
<1> QED BY <1>6, <1>7, <1>8

LEMMA SaveLogKeepsProgress ==
  ASSUME NEW listed \in SUBSET Log, NEW sz \in [Realm -> Nat], Typed, IsFit(site, sz), NEW x \in Lister, SaveLog(x),
         RunProgress(lister[x], site, SavedLogs, listed, sz),
         NEW saved, saved = SavedLogs \cup {Head(lister[x].logs)}
  PROVE  RunProgress(lister'[x], site, saved, listed, sz)
<1> DEFINE run == lister[x]
           r == run.realm
           s == site[r]
           known == SavedLogs
           next == run.page * PageSize
           first == sz[r]
           logs == run.logs
           g == Head(logs)
           fewer == IF run.exists > 1 THEN run.exists - 1 ELSE run.exists
<1>1. /\ site \in [Realm -> Seq(Log)] /\ lister \in [Lister -> Listings] /\ run \in Listings /\ run.step = "save"
      /\ r \in Realm /\ run.page \in Nat /\ run.page > 0 /\ run.exists \in Nat /\ logs \in Seq(Log) /\ logs # <<>>
  BY DEF SaveLog, Typed, TypeOK, ListersReady, Ready, Listings
<1>2. /\ next \in Nat /\ first \in Nat /\ s \in Seq(Log)
  <2>1. first \in Nat
    BY <1>1
  <2>2. (run.page - 1) * PageSize \in Nat /\ next = (run.page - 1) * PageSize + PageSize /\ PageSize \in Nat
    BY <1>1, PageStart
  <2>3. s \in Seq(Log)
    BY <1>1
  <2> HIDE DEF next
  <2> QED BY <2>1, <2>2, <2>3
<1>3. PICK k \in Nat, b \in Nat, u \in Nat, t \in Nat, n \in Nat :
        InPage(s, known, listed, run.exists, first, k, b, u, t, n, logs, next)
  BY <1>1 DEF RunProgress, Rest
<1>4. /\ lister'[x].step = "log" /\ lister'[x].page = run.page /\ lister'[x].exists = fewer
      /\ lister'[x].realm = r /\ lister'[x].todo = run.todo
      /\ lister'[x].logs = Tail(logs)
  <2>1. lister'[x] = [NextLog(run) EXCEPT !.exists = IF @ > 1 THEN @ - 1 ELSE @]
    BY <1>1 DEF SaveLog, Lists
  <2>2. /\ NextLog(run).step = "log" /\ NextLog(run).logs = Tail(logs) /\ NextLog(run).page = run.page
        /\ NextLog(run).exists = run.exists /\ NextLog(run).realm = r /\ NextLog(run).todo = run.todo
        /\ NextLog(run) \in Listings
    BY <1>1, NextLogIs
  <2> QED BY <2>1, <2>2 DEF Listings
<1>5. fewer \in Nat /\ fewer <= run.exists
  BY <1>1
<1>6. IsDistinct(s)
  BY <1>1 DEF IsFit, IsDistinct
<1>7. g = s[t + n + 1] /\ t + n + 1 \in 1 .. Len(s)
  <2>1. t + n + Len(logs) <= Len(s) /\ \A i \in 1 .. Len(logs) : logs[i] = s[t + n + i]
    BY <1>3 DEF InPage
  <2>2. Len(logs) \in Nat /\ Len(logs) > 0 /\ g = logs[1] /\ Len(s) \in Nat
    BY <1>1, <1>2
  <2> HIDE DEF s, logs, g
  <2> QED BY <2>1, <2>2
<1>8. ASSUME NEW q \in Realm, q # r
      PROVE  IsSuffix(site[q], saved) /\ IsServed(lister'[x], site[q], saved, listed, q)
  <2>1. \A i \in 1 .. Len(site[q]) : site[q][i] # g
    <3>1. t + n + 1 \in DOMAIN site[r]
      BY <1>1, <1>7
    <3>2. DOMAIN site[q] = 1 .. Len(site[q])
      BY <1>1
    <3> QED BY <1>1, <1>7, <1>8, <3>1, <3>2 DEF IsFit
  <2>2. IsSuffix(site[q], known) /\ IsServed(run, site[q], known, listed, q)
    BY <1>1, <1>8 DEF RunProgress, IsAt
  <2> QED BY <1>4, <2>1, <2>2 DEF IsSuffix, IsServed
<1> HIDE DEF next, first, s, known, fewer
<1>9. PICK c \in Nat : InPage(s, known \cup {g}, listed, fewer, first, k, c, u, t + 1, n, Tail(logs), next)
  BY <1>1, <1>2, <1>3, <1>5, <1>6, SavedIsKnown
<1>10. InPage(s, saved, listed, fewer, first, k, c, u, t + 1, n, Tail(logs), next) /\ t + 1 \in Nat
  BY <1>9 DEF known
<1>11. Rest(lister'[x]) = Tail(logs)
  BY <1>4 DEF Rest
<1>12. \A q \in Realm : ~IsAt(lister'[x], q) => IsSuffix(site[q], saved) /\ IsServed(lister'[x], site[q], saved, listed, q)
  BY <1>4, <1>8 DEF IsAt
<1>13. \E kk, bb, uu, tt, nn \in Nat :
         InPage(site[lister'[x].realm], saved, listed, lister'[x].exists,
                sz[lister'[x].realm], kk, bb, uu, tt, nn, Rest(lister'[x]),
                lister'[x].page * PageSize)
  BY <1>4, <1>10, <1>11 DEF s, first, next
<1>14. listed \subseteq InLists(site)
  BY <1>4 DEF RunProgress
<1>15. lister'[x].step = "log"
  BY <1>4
<1> HIDE DEF run, r, logs, g
<1> QED BY <1>12, <1>13, <1>14, <1>15 DEF RunProgress

LEMMA UpdateSlugKeepsProgress ==
  ASSUME NEW listed \in SUBSET Log, NEW sz \in [Realm -> Nat], Typed, NEW x \in Lister, UpdateSlug(x),
         RunProgress(lister[x], site, SavedLogs, listed, sz)
  PROVE  RunProgress(lister'[x], site, SavedLogs, listed, sz)
<1> DEFINE run == lister[x]
<1>1. lister \in [Lister -> Listings] /\ run \in Listings /\ run.step = "slug" /\ run.logs # <<>>
  BY DEF UpdateSlug, Typed, TypeOK, ListersReady, Ready
<1>2. lister'[x] = NextLog(run)
  BY <1>1 DEF UpdateSlug, Lists
<1> DEFINE next == lister'[x]
<1>3. /\ next.step = "log" /\ next.logs = Tail(run.logs) /\ next.page = run.page /\ next.exists = run.exists
      /\ next.realm = run.realm /\ next.todo = run.todo
  BY <1>1, <1>2, NextLogIs
<1>4. Rest(next) = Rest(run)
  BY <1>1, <1>3 DEF Rest
<1>5. \A r \in Realm : IsAt(next, r) <=> IsAt(run, r)
  BY <1>1, <1>3 DEF IsAt
<1> HIDE DEF run, next
<1> QED BY <1>1, <1>3, <1>4, <1>5 DEF RunProgress, IsServed, run, next

LEMMA NextRealmKeepsProgress ==
  ASSUME NEW listed \in SUBSET Log, NEW sz \in [Realm -> Nat], Typed, IsFit(site, sz), NEW x \in Lister, NextRealm(x),
         RunProgress(lister[x], site, SavedLogs, listed, sz)
  PROVE  RunProgress(lister'[x], site, SavedLogs, listed, sz)
<1> DEFINE run == lister[x]
           next == lister'[x]
<1>1. /\ lister \in [Lister -> Listings] /\ run \in Listings /\ run.step = "realm"
      /\ site \in [Realm -> Seq(Log)]
  BY ConstantsAssumption DEF NextRealm, Typed, TypeOK
<1>2. \A r \in Realm : IsSuffix(site[r], SavedLogs) /\ IsServed(run, site[r], SavedLogs, listed, r)
  BY <1>1 DEF RunProgress, IsAt
<1>3. listed \subseteq InLists(site)
  BY DEF RunProgress
<1>4. CASE run.todo = {}
  <2>1. next = [run EXCEPT !.step = "release"]
    BY <1>1, <1>4 DEF NextRealm, Lists
  <2>2. next.step = "release" /\ next.todo = {}
    BY <1>1, <1>4, <2>1 DEF Listings
  <2>3. \A r \in Realm : IsServed(next, site[r], SavedLogs, listed, r)
    BY <1>2, <1>4, <2>2 DEF IsServed
  <2> HIDE DEF run, next
  <2> QED BY <1>2, <1>3, <2>2, <2>3 DEF RunProgress, run, next
<1>5. CASE run.todo # {}
  <2>1. PICK r \in run.todo :
          next = [run EXCEPT !.step = "page", !.todo = run.todo \ {r}, !.realm = r, !.page = FromPage, !.exists = 0]
    BY <1>1, <1>5 DEF NextRealm, Lists
  <2>2. /\ next.step = "page" /\ next.todo = run.todo \ {r} /\ next.realm = r /\ next.page = 1
        /\ next.exists = 0
    BY <1>1, <2>1 DEF Listings, IsFit
  <2>3. r \in Realm
    BY <1>1 DEF Listings
  <2>4. site[r] \in Seq(Log) /\ sz[r] \in Nat /\ sz[r] <= Len(site[r])
    BY <1>1, <2>3 DEF IsFit
  <2>5. AtPage(site[r], SavedLogs, listed, 0, sz[r], 0, 0, 0, 0)
    BY <1>2, <2>3, <2>4, BeginsAtPage
  <2>6. (next.page - 1) * PageSize = 0
    <3>1. PageSize \in Nat
      BY ConstantsAssumption
    <3> QED BY <2>2, <3>1
  <2>7. \A q \in Realm : ~IsAt(next, q) => IsServed(next, site[q], SavedLogs, listed, q)
    BY <1>2, <2>2 DEF IsAt, IsServed
  <2>8. AtPage(site[next.realm], SavedLogs, listed, next.exists, sz[next.realm], 0, 0, 0,
               (next.page - 1) * PageSize)
    <3> HIDE DEF next, run
    <3> QED BY <2>2, <2>5, <2>6
  <2>9. \E k, b, u \in Nat :
          AtPage(site[next.realm], SavedLogs, listed, next.exists, sz[next.realm], k, b, u,
                 (next.page - 1) * PageSize)
    BY <2>8
  <2> HIDE DEF run, next
  <2> QED BY <1>2, <1>3, <2>2, <2>7, <2>9 DEF RunProgress, run, next
<1> QED BY <1>4, <1>5

\* The run gives its lock back and is at its end.
LEMMA ListingEnds ==
  ASSUME NEW listed, NEW sz, NEW x \in Lister, RunProgress(lister[x], site, SavedLogs, listed, sz), Listing(x)
  PROVE  \/ NextRealm(x) \/ ReadPage(x) \/ FindLog(x) \/ UpdateSlug(x) \/ SaveLog(x)
         \/ ReleaseListing(x)
BY DEF Listing, RunProgress, StartListing, CheckListingLock, LockListing

LEMMA ListingKeepsProgress ==
  ASSUME NEW listed \in SUBSET Log, NEW sz \in [Realm -> Nat], Typed, IsFit(site, sz), [Next]_vars,
         NEW x \in Lister, Listing(x), lister'[x].step # "idle", \A y \in Lister \ {x} : ~SaveLog(y),
         RunProgress(lister[x], site, SavedLogs, listed, sz)
  PROVE  RunProgress(lister'[x], site, SavedLogs', listed, sz)
<1>1. CASE SaveLog(x)
  <2>1. SavedLogs' = SavedLogs \cup {Head(lister[x].logs)}
    BY <1>1, SaveLogSaves
  <2> QED BY <1>1, <2>1, SaveLogKeepsProgress
<1>2. CASE ~SaveLog(x)
  <2>1. SavedLogs' = SavedLogs
    BY <1>2, SavedSteps
  <2>2. ~ReleaseListing(x)
    <3> SUFFICES ASSUME ReleaseListing(x) PROVE FALSE
      OBVIOUS
    <3>1. lister' = [lister EXCEPT ![x] = NoListing] /\ lister \in [Lister -> Listings]
      BY DEF ReleaseListing, Lists, Typed, TypeOK
    <3>2. lister'[x] = NoListing
      BY <3>1
    <3> QED BY <3>2 DEF NoListing
  <2>3. NextRealm(x) \/ ReadPage(x) \/ FindLog(x) \/ UpdateSlug(x)
    BY <1>2, <2>2, ListingEnds
  <2>4. RunProgress(lister'[x], site, SavedLogs, listed, sz)
    BY <2>3, UpdateSlugKeepsProgress, NextRealmKeepsProgress, ReadPageKeepsProgress, FindLogKeepsProgress
  <2> QED BY <2>1, <2>4
<1> QED BY <1>1, <1>2

-----------------------------------------------------------------------------
(* What is observed of the runs                                            *)

LEMMA ObservedTypeNext == ASSUME Typed, ObservedType, [ObservedNext]_<<vars, history>> PROVE ObservedType'
<1>1. CASE UNCHANGED <<vars, history>>
  BY <1>1 DEF history, ObservedType
<1>2. CASE ObservedNext
  <2>1. Promise \in SUBSET Log
    <3>1. \A r \in Realm : site[r] \in Seq(Log)
      BY DEF Typed, TypeOK
    <3>2. Listed \subseteq Log
      BY <3>1 DEF Listed
    <3> QED BY <3>2 DEF Promise
  <2>2. promised' \in [Lister -> SUBSET Log]
    BY <1>2, <2>1 DEF ObservedNext, Observe, ObservedType
  <2>3. [r \in Realm |-> Len(site[r])] \in [Realm -> Nat]
    <3>1. \A r \in Realm : Len(site[r]) \in Nat
      BY DEF Typed, TypeOK
    <3> QED BY <3>1
  <2>4. sizes' \in [Lister -> [Realm -> Nat]]
    BY <1>2, <2>3 DEF ObservedNext, Observe, ObservedType
  <2> QED BY <2>2, <2>4 DEF ObservedType
<1> QED BY <1>1, <1>2

\* A promise is given with the lock, and kept while nothing comes in its way.
LEMMA PromiseStays ==
  ASSUME ObservedNext, NEW x \in Lister, promised'[x] # {}, ~LockListing(x)
  PROVE  /\ promised'[x] = promised[x] /\ sizes'[x] = sizes[x]
         /\ lister'[x].step # "idle" /\ ~ListingFails(x) /\ \A y \in Lister \ {x} : ~SaveLog(y)
         /\ \A r \in Realm : /\ ~(Len(site'[r]) > sizes'[x][r] + Tolerance)
                             /\ Len(site'[r]) <= (ToPage - 1) * PageSize
<1> DEFINE saved == {y \in Lister : SaveLog(y)}
<1>1. /\ sizes'[x] = sizes[x]
      /\ promised'[x] = IF \/ lister'[x].step = "idle" \/ x \in {y \in Lister : ListingFails(y)}
                           \/ saved \ {x} # {} \/ IsOutgrown(x)'
                          THEN {} ELSE promised[x]
  BY DEF ObservedNext, Observe
<1>2. /\ lister'[x].step # "idle" /\ x \notin {y \in Lister : ListingFails(y)} /\ saved \ {x} = {}
      /\ ~IsOutgrown(x)' /\ promised'[x] = promised[x]
  BY <1>1
<1>3. \A y \in Lister \ {x} : ~SaveLog(y)
  BY <1>2
<1>4. \A r \in Realm : ~(Len(site'[r]) > sizes'[x][r] + Tolerance) /\ Len(site'[r]) <= (ToPage - 1) * PageSize
  BY <1>2 DEF IsOutgrown, IsWithinPages
<1> QED BY <1>1, <1>2, <1>3, <1>4

LEMMA PromiseBegins ==
  ASSUME Typed, ObservedNext, NEW x \in Lister, LockListing(x), promised'[x] # {}
  PROVE  IsFit(site', sizes'[x]) /\ RunProgress(lister'[x], site', SavedLogs', promised'[x], sizes'[x])
<1> DEFINE first == [r \in Realm |-> Len(site[r])]
           next == lister'[x]
<1>1. promised'[x] = Promise /\ sizes'[x] = first
  BY DEF ObservedNext, Observe
<1>2. /\ FromPage = 1 /\ IsListedOnce /\ \A r \in Realm : HasNoGap(r) /\ IsWithinPages(r)
      /\ promised'[x] = Listed
  BY <1>1 DEF Promise
<1>3. next = [lister[x] EXCEPT !.step = "realm", !.todo = Realm] /\ site' = site /\ rows' = rows
      /\ lister[x] \in Listings /\ \A r \in Realm : site[r] \in Seq(Log)
  BY DEF LockListing, Lists, Typed, TypeOK
<1>4. next.step = "realm" /\ next.todo = Realm
  BY <1>3 DEF Listings
<1>5. SavedLogs' = SavedLogs
  BY <1>3 DEF SavedLogs, Known
<1>6. IsFit(site, first)
  <2>1. \A r \in Realm : Len(site[r]) \in Nat /\ Tolerance \in Nat
    BY <1>3, ConstantsAssumption
  <2>2. \A r \in Realm : first[r] <= Len(site[r]) /\ Len(site[r]) <= first[r] + Tolerance
    BY <2>1
  <2> HIDE DEF first
  <2> QED BY <1>2, <2>2 DEF IsFit, IsListedOnce, IsWithinPages
<1>7. \A r \in Realm : IsSuffix(site[r], SavedLogs)
  <2> SUFFICES ASSUME NEW r \in Realm, NEW i \in 1 .. Len(site[r]), NEW j \in 1 .. Len(site[r]), i < j,
                      site[r][i] \in SavedLogs
               PROVE  site[r][j] \in SavedLogs
    BY DEF IsSuffix
  <2>1. i \in DOMAIN site[r] /\ j \in DOMAIN site[r] /\ site[r][j] \in Log
    BY <1>3
  <2> QED BY <1>2, <2>1 DEF HasNoGap, SavedLogs
<1>8. Listed = InLists(site)
  BY DEF Listed, InLists
<1> HIDE DEF first, next
<1>9. RunProgress(next, site, SavedLogs, Listed, first)
  BY <1>4, <1>7, <1>8 DEF RunProgress, IsServed
<1> QED BY <1>1, <1>2, <1>3, <1>5, <1>6, <1>9 DEF next

\* Indexing touches neither the site nor the listings.
LEMMA IndexingStays == ASSUME NEW y \in Indexer, Indexing(y) PROVE UNCHANGED <<site, lister>>
<1>1. CASE StartIndexing(y) \/ CheckIndexingLock(y) \/ LockIndexing(y) \/ TakeLogs(y)
  BY <1>1 DEF StartIndexing, CheckIndexingLock, LockIndexing, TakeLogs, Indexes
<1>2. CASE (\E g \in Log : StartLog(y, g)) \/ FinishIndexing(y) \/ ReleaseIndexing(y)
  BY <1>2 DEF StartLog, FinishIndexing, ReleaseIndexing, Indexes
<1>3. CASE \E job \in indexer[y].jobs : JobStep(y, job)
  BY <1>3 DEF JobStep, FetchFights, FetchGraphQL, MarkLogAsIndexed, CharactersToQueue, JobProceeds, Indexes
<1> QED BY <1>1, <1>2, <1>3 DEF Indexing

\* Of the steps that are not the run's own, only an upload concerns it.
LEMMA OthersSteps ==
  ASSUME Typed, Next, NEW x \in Lister, ~Listing(x), ~ListingFails(x), lister'[x].step # "idle"
  PROVE  \/ UNCHANGED lister /\ \E r \in Realm, g \in Log : Publish(r, g)
         \/ lister'[x] = lister[x] /\ UNCHANGED site
<1>1. lister \in [Lister -> Listings]
  BY DEF Typed, TypeOK
<1>2. CASE \E r \in Realm, g \in Log : Publish(r, g)
  BY <1>2 DEF Publish
<1>3. CASE Expire
  BY <1>3 DEF Expire
<1>4. ASSUME NEW y \in Lister, Listing(y) \/ ListingFails(y)
      PROVE  lister'[x] = lister[x] /\ UNCHANGED site
  <2>1. y # x
    BY <1>4
  <2>2. PICK run : Lists(y, run)
    BY <1>4 DEF Listing, ListingFails, StartListing, CheckListingLock, LockListing, NextRealm, ReadPage, FindLog,
       UpdateSlug, SaveLog, ReleaseListing
  <2> QED BY <1>1, <2>1, <2>2 DEF Lists
<1>5. CASE Migration \/ MigrationFails
  BY <1>5 DEF Migration, MigrationFails, CheckMigration, LockMigration, NextMigrationRealm, ReadMigrationPage,
     FindMissingSlugs, UpdateMissingSlugs, ReleaseMigration, Migrates
<1>6. CASE \E y \in Indexer : Indexing(y)
  BY <1>6, IndexingStays
<1>7. CASE \E y \in Indexer : IndexingFails(y) \/ \E job \in indexer[y].jobs : GraphQLFails(y, job) \/ LogFails(y, job)
  BY <1>7 DEF IndexingFails, GraphQLFails, LogFails, JobProceeds, Indexes
<1>8. ~Crash
  <2> SUFFICES ASSUME Crash PROVE FALSE
    OBVIOUS
  <2>1. lister'[x] = NoListing
    BY DEF Crash
  <2> QED BY <2>1 DEF NoListing
<1> QED BY <1>2, <1>3, <1>4, <1>5, <1>6, <1>7, <1>8 DEF Next, Failure

\* An upload lists a log that nobody lists yet.
LEMMA PublishLists ==
  ASSUME Typed, NEW r \in Realm, NEW g \in Log, Publish(r, g), IsListedOnce
  PROVE  IsListedOnce' /\ \A s \in Realm : Len(site[s]) <= Len(site'[s])
<1>1. site \in [Realm -> Seq(Log)]
  BY DEF Typed, TypeOK
<1>2. g \notin Listed /\ site' = [site EXCEPT ![r] = <<g>> \o site[r]]
  BY DEF Publish
<1>3. \A s \in Realm : s # r => site'[s] = site[s]
  BY <1>1, <1>2
<1>4. /\ site[r] \in Seq(Log) /\ site'[r] = <<g>> \o site[r] /\ Len(site'[r]) = Len(site[r]) + 1
      /\ DOMAIN site[r] = 1 .. Len(site[r]) /\ DOMAIN site'[r] = 1 .. Len(site[r]) + 1 /\ Len(site[r]) \in Nat
      /\ \A i \in DOMAIN site'[r] :
            IF i = 1 THEN site'[r][i] = g ELSE i - 1 \in DOMAIN site[r] /\ site'[r][i] = site[r][i - 1]
  BY <1>1, <1>2, Prepended
<1>5. \A s \in Realm : \A i \in DOMAIN site[s] : site[s][i] \in Listed
  BY DEF Listed
<1>6. \A s \in Realm : \A i \in DOMAIN site'[s] :
        \/ s = r /\ i = 1 /\ site'[s][i] = g
        \/ s = r /\ i # 1 /\ i - 1 \in DOMAIN site[s] /\ site'[s][i] = site[s][i - 1]
        \/ s # r /\ i \in DOMAIN site[s] /\ site'[s][i] = site[s][i]
  BY <1>3, <1>4
<1>7. ASSUME NEW s \in Realm, NEW q \in Realm, NEW i \in DOMAIN site'[s], NEW j \in DOMAIN site'[q],
             site'[s][i] = site'[q][j]
      PROVE  s = q /\ i = j
  <2>1. i \in Nat /\ j \in Nat
    <3>1. \A e \in Realm : site[e] \in Seq(Log)
      BY <1>1
    <3>2. \A e \in Realm : \A m \in DOMAIN site'[e] : m \in Nat
      BY <1>3, <1>4, <3>1
    <3> QED BY <3>2
  <2>2. CASE s = r /\ q = r
    <3>1. CASE i = 1 \/ j = 1
      BY <1>2, <1>5, <1>6, <1>7, <2>2, <3>1
    <3>2. CASE i # 1 /\ j # 1
      <4>1. i - 1 = j - 1
        BY <1>6, <1>7, <2>2, <3>2 DEF IsListedOnce
      <4> QED BY <2>1, <2>2, <4>1
    <3> QED BY <3>1, <3>2
  <2>3. CASE s = r /\ q # r
    <3>1. i # 1
      BY <1>2, <1>5, <1>6, <1>7, <2>3
    <3> QED BY <1>6, <1>7, <2>3, <3>1 DEF IsListedOnce
  <2>4. CASE s # r /\ q = r
    <3>1. j # 1
      BY <1>2, <1>5, <1>6, <1>7, <2>4
    <3> QED BY <1>6, <1>7, <2>4, <3>1 DEF IsListedOnce
  <2>5. CASE s # r /\ q # r
    BY <1>6, <1>7, <2>5 DEF IsListedOnce
  <2> QED BY <2>2, <2>3, <2>4, <2>5
<1>8. \A s \in Realm : Len(site[s]) <= Len(site'[s])
  <2>1. \A s \in Realm : Len(site[s]) \in Nat
    BY <1>1
  <2> QED BY <1>3, <1>4, <2>1
<1> QED BY <1>7, <1>8 DEF IsListedOnce

LEMMA CoverageNext ==
  ASSUME Typed, Typed', ObservedType, ObservedType', CoverageInv, [ObservedNext]_<<vars, history>>
  PROVE  CoverageInv'
<1> SUFFICES ASSUME NEW x \in Lister, promised'[x] # {}
             PROVE  IsFit(site', sizes'[x]) /\ RunProgress(lister'[x], site', SavedLogs', promised'[x], sizes'[x])
  BY DEF CoverageInv
<1>1. CASE UNCHANGED <<vars, history>>
  <2>1. SavedLogs' = SavedLogs
    BY <1>1 DEF vars, SavedLogs, Known
  <2> QED BY <1>1, <2>1 DEF vars, history, CoverageInv
<1>2. CASE ObservedNext /\ LockListing(x)
  BY <1>2, PromiseBegins
<1>3. CASE ObservedNext /\ ~LockListing(x)
  <2> DEFINE listed == promised[x]
             sz == sizes[x]
  <2>1. /\ promised'[x] = listed /\ sizes'[x] = sz
        /\ lister'[x].step # "idle" /\ ~ListingFails(x) /\ \A y \in Lister \ {x} : ~SaveLog(y)
        /\ \A r \in Realm : ~(Len(site'[r]) > sz[r] + Tolerance) /\ Len(site'[r]) <= (ToPage - 1) * PageSize
    BY <1>3, PromiseStays
  <2>2. listed \in SUBSET Log /\ sz \in [Realm -> Nat] /\ listed # {}
    BY <2>1 DEF ObservedType
  <2>3. IsFit(site, sz) /\ RunProgress(lister[x], site, SavedLogs, listed, sz)
    BY <2>2 DEF CoverageInv
  <2> HIDE DEF listed, sz
  <2>4. Next
    BY <1>3 DEF ObservedNext
  <2>5. CASE Listing(x)
    <3>1. UNCHANGED site
      BY <2>5 DEF Listing, StartListing, CheckListingLock, LockListing, NextRealm, ReadPage, FindLog, UpdateSlug,
         SaveLog, ReleaseListing, Lists
    <3>2. RunProgress(lister'[x], site, SavedLogs', listed, sz)
      BY <2>1, <2>2, <2>3, <2>4, <2>5, ListingKeepsProgress
    <3> QED BY <2>1, <2>3, <3>1, <3>2
  <2>6. CASE ~Listing(x)
    <3>1. SavedLogs' = SavedLogs
      <4>1. \A y \in Lister : ~SaveLog(y)
        BY <2>1, <2>6 DEF Listing
      <4> QED BY <2>4, <4>1, SavedSteps
    <3>2. CASE lister'[x] = lister[x] /\ UNCHANGED site
      BY <2>1, <2>3, <3>1, <3>2
    <3>3. CASE UNCHANGED lister /\ \E r \in Realm, g \in Log : Publish(r, g)
      <4>1. PICK r \in Realm, g \in Log : Publish(r, g)
        BY <3>3
      <4>2. RunProgress(lister[x], site', SavedLogs, listed, sz)
        BY <2>2, <2>3, <4>1, PublishKeepsProgress
      <4>3. IsListedOnce' /\ \A s \in Realm : Len(site[s]) <= Len(site'[s])
        BY <2>3, <4>1, PublishLists DEF IsFit, IsListedOnce
      <4>4. ASSUME NEW s \in Realm
            PROVE  /\ sz[s] <= Len(site'[s]) /\ Len(site'[s]) <= sz[s] + Tolerance
                   /\ Len(site'[s]) <= (ToPage - 1) * PageSize
        <5>1. sz[s] \in Nat /\ Tolerance \in Nat /\ Len(site[s]) \in Nat /\ Len(site'[s]) \in Nat
          <6>1. site[s] \in Seq(Log) /\ site'[s] \in Seq(Log)
            BY DEF Typed, TypeOK
          <6>2. Len(site[s]) \in Nat /\ Len(site'[s]) \in Nat
            BY ONLY <6>1
          <6>3. sz[s] \in Nat
            BY ONLY <2>2, s \in Realm
          <6>4. Tolerance \in Nat
            BY ONLY ConstantsAssumption
          <6> QED BY <6>2, <6>3, <6>4
        <5>2. sz[s] <= Len(site[s])
          BY <2>3 DEF IsFit
        <5>3. Len(site[s]) <= Len(site'[s]) /\ ~(Len(site'[s]) > sz[s] + Tolerance)
              /\ Len(site'[s]) <= (ToPage - 1) * PageSize
          BY <2>1, <4>3
        <5> QED BY <5>1, <5>2, <5>3
      <4>5. IsFit(site', sz)
        BY <2>3, <4>3, <4>4 DEF IsFit, IsListedOnce
      <4> QED BY <2>1, <3>1, <3>3, <4>2, <4>5
    <3> QED BY <2>1, <2>4, <2>6, <3>2, <3>3, OthersSteps
  <2> QED BY <2>5, <2>6
<1> QED BY <1>1, <1>2, <1>3

\* A run of the listing keeps its promise, however many others there are and
\* whatever failed before: of the known logs that it meets, it counts no more
\* than have been published since it began, until it meets one that was known
\* then, behind which all are known.
THEOREM ListingCompletes == ObservedSpec => []ListingComplete
<1> DEFINE Inv == Typed /\ ObservedType /\ CoverageInv
<1>1. ObservedInit => Inv
  <2> SUFFICES ASSUME ObservedInit PROVE Inv
    OBVIOUS
  <2>1. ObservedType
    BY DEF ObservedInit, ObservedType
  <2>2. CoverageInv
    BY DEF ObservedInit, CoverageInv
  <2> QED BY <2>1, <2>2, TypedInit DEF ObservedInit
<1>2. Inv /\ [ObservedNext]_<<vars, history>> => Inv'
  <2> SUFFICES ASSUME Inv, [ObservedNext]_<<vars, history>> PROVE Inv'
    OBVIOUS
  <2>1. [Next]_vars
    BY DEF ObservedNext
  <2>2. Typed' /\ ObservedType'
    BY <2>1, TypedNext, ObservedTypeNext
  <2> QED BY <2>2, CoverageNext
<1>3. Inv => ListingComplete
  <2> SUFFICES ASSUME Inv, NEW x \in Lister, lister[x].step = "release", NEW g \in promised[x]
               PROVE  Known(g)
    BY DEF ListingComplete
  <2>1. RunProgress(lister[x], site, SavedLogs, promised[x], sizes[x])
    BY DEF CoverageInv
  <2>2. /\ g \in InLists(site) /\ lister[x].todo = {}
        /\ \A r \in Realm : IsServed(lister[x], site[r], SavedLogs, promised[x], r)
    BY <2>1 DEF RunProgress, IsAt
  <2>3. PICK r \in Realm : \E i \in DOMAIN site[r] : g = site[r][i]
    BY <2>2 DEF InLists
  <2>4. PICK i \in DOMAIN site[r] : g = site[r][i]
    BY <2>3
  <2>5. i \in 1 .. Len(site[r])
    BY DEF Typed, TypeOK
  <2> QED BY <2>2, <2>4, <2>5 DEF IsServed, SavedLogs
<1> QED BY <1>1, <1>2, <1>3, PTL DEF ObservedSpec
=============================================================================
