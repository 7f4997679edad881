----------------------------- MODULE Snapshots -----------------------------
(***************************************************************************)
(* apps/analytics' AnalyticsService, which apps/api hosts as well: at boot *)
(* the values of older releases are migrated, and at boot and by a cron    *)
(* the metrics of the day are stored, unless a row of the day exists.  The *)
(* five services of metrics follow each other, each with a transaction: it *)
(* reads which metrics are there, collects the others and inserts them.    *)
(***************************************************************************)
EXTENDS Naturals, Sequences, FiniteSets

CONSTANTS Boards   \* the instances to check: see BoardsAssumption

(* An instance: the processes that host the module, their runs (at boot or *)
(* by the cron), the days, what the tables that are counted hold one after *)
(* the other, the values of older releases, and how often a statement      *)
(* fails and a process restarts.                                           *)
ASSUME BoardsAssumption ==
  \A b \in Boards :
    /\ DOMAIN b = {"hosts", "runs", "days", "facts", "legacy", "failures", "restarts"}
    /\ \A i \in DOMAIN b.legacy : b.legacy[i] \in [form : {"array", "bare", "keyed"}, fields : {"sum", "max"}]
    /\ b.runs \subseteq b.hosts \X {"boot", "cron"}
    /\ Len(b.facts) > 0
    /\ {b.days, b.failures, b.restarts} \subseteq Nat

VARIABLES board,   \* the instance, with what is left of its counters
          today,
          counted, \* the facts that hold now: board.facts[counted]
          stored,  \* the transactions: the rows each inserted, and by which run
          legacy,  \* legacy[i]: form and fields of an older row's value
          host,    \* host[h]: what a process does at boot
          run      \* run[x]: snapshotDaily of <<h, "boot">> or <<h, "cron">>

boardVars == <<board, today, counted, stored, legacy, host, run>>

NoSnapshot == [step |-> "idle"]
Booted == [step |-> "find", todo |-> {}, migrated |-> FALSE]

BoardsInit ==
  /\ board \in Boards
  /\ today = 1 /\ counted = 1
  /\ stored = <<>>
  /\ legacy = board.legacy
  /\ host = [h \in board.hosts |-> Booted]
  /\ run = [x \in board.runs |-> NoSnapshot]

-----------------------------------------------------------------------------
(* The metrics of the services, for all realms and for some.               *)

All == "all"
Service == <<"characters", "guilds", "market", "contracts", "hallOfFame">>

GlobalCharacterMetrics == {"total", "faction", "class", "race", "level"} \X {All}
RealmCharacterMetrics(f) == ({"unique"} \X {All}) \cup ({"total", "unique", "faction", "class"} \X f.realms)
ExtremesAndAverages == {"extremes", "averages"} \X {All}

(* The highest level is that of no character when there are none. *)
MaxLevelMetrics(f) ==
  IF f.realms = {} THEN {}
  ELSE ({"factionMax", "classMax", "raceMax", "levelMax"} \X {All}) \cup ({"factionMax", "classMax"} \X f.realms)

CharacterMetrics(f) ==
  GlobalCharacterMetrics \cup RealmCharacterMetrics(f) \cup MaxLevelMetrics(f) \cup ExtremesAndAverages

RealmGuildMetrics(f) == {"total", "faction"} \X f.realms
TopGuilds == {"size", "members", "achievements"} \X {All}
GuildMetrics(f) == ({"total", "faction"} \X {All}) \cup RealmGuildMetrics(f) \cup TopGuilds

RealmMarketMetrics(f) == {"realm"} \X f.traded
TopOfMarket == {"ranges", "volume", "auctions"} \X {All}
MarketMetrics(f) == ({"total"} \X {All}) \cup RealmMarketMetrics(f) \cup TopOfMarket

(* Of contracts a list is stored only if it is not empty. *)
RealmContractMetrics(f) == {"realm"} \X f.traded
TopContracts(f) == IF f.traded = {} THEN {} ELSE {"quantity", "openInterest"} \X {All}
Volatility(f) == IF f.volatile THEN {<<"volatility", All>>} ELSE {}
ContractMetrics(f) ==
  ({"total", "commodities"} \X {All}) \cup RealmContractMetrics(f) \cup TopContracts(f) \cup Volatility(f)

Metrics(s, f) ==
  CASE s = "characters" -> CharacterMetrics(f)
    [] s = "guilds" -> GuildMetrics(f)
    [] s = "market" -> MarketMetrics(f)
    [] s = "contracts" -> ContractMetrics(f)

(* The hall of fame: its rows have a value, which is compared.             *)
HallMetrics(f) ==
  {[key |-> <<m, All>>, value |-> f.hall] : m \in {"total", "raid"}}
  \cup {[key |-> <<"total", r>>, value |-> [q \in {r} |-> f.hall[q]]] : r \in {r \in DOMAIN f.hall : f.hall[r] > 0}}

StoredOn(date, s) == {i \in DOMAIN stored : stored[i].date = date /\ stored[i].service = s}
KeysOf(i) == {row.key : row \in stored[i].rows}

(* findExistingAnalyticsKeys. *)
ExistingKeys(date, s) == UNION {KeysOf(i) : i \in StoredOn(date, s)}

HallRows(key) == {i \in DOMAIN stored : stored[i].service = "hallOfFame" /\ key \in KeysOf(i)}
Later(i, j) == stored[i].date > stored[j].date \/ (stored[i].date = stored[j].date /\ i >= j)
ValueIn(i, key) == (CHOOSE row \in stored[i].rows : row.key = key).value

(* analyticsMetricLatest: the value, if there is a row. *)
LatestValue(key) ==
  {ValueIn(i, key) : i \in {i \in HallRows(key) : \A j \in HallRows(key) : Later(i, j)}}

(* What a transaction inserts: a hall's value only if it has changed.      *)
RowsOf(s, date) ==
  LET f == board.facts[counted] IN
  IF s = "hallOfFame" THEN {row \in HallMetrics(f) : row.value \notin LatestValue(row.key)}
  ELSE {[key |-> k, value |-> <<>>] : k \in Metrics(s, f) \ ExistingKeys(date, s)}

-----------------------------------------------------------------------------
(* snapshotDaily.                                                          *)

\* mutant: the day itself does not count
IsSnapshottedSince(date) == \E i \in DOMAIN stored : stored[i].date > date

(* A row of the day, or of a later one. *)
IsSnapshotted(date) == \E i \in DOMAIN stored : stored[i].date >= date
Continues(x, r) == run' = [run EXCEPT ![x] = r]

(* The cron, at two o'clock or, for all the table can tell, at any other:  *)
(* the date is that of its start.                                          *)
CronFires(h) ==
  /\ <<h, "cron">> \in board.runs /\ run[<<h, "cron">>] = NoSnapshot
  /\ Continues(<<h, "cron">>, [step |-> "look", date |-> today])
  /\ UNCHANGED <<board, today, counted, stored, legacy, host>>

LookForToday(x) ==
  /\ run[x].step = "look"
  /\ Continues(x, IF IsSnapshotted(run[x].date) THEN NoSnapshot ELSE [step |-> "begin", date |-> run[x].date, service |-> 1])
  /\ UNCHANGED <<board, today, counted, stored, legacy, host>>

BeginService(x) ==
  /\ run[x].step = "begin"
  /\ LET r == run[x] IN
     Continues(x, [step |-> "commit", date |-> r.date, service |-> r.service,
                   rows |-> RowsOf(Service[r.service], r.date)])
  /\ UNCHANGED <<board, today, counted, stored, legacy, host>>

NextService(r) ==
  IF r.service < Len(Service) THEN [step |-> "begin", date |-> r.date, service |-> r.service + 1] ELSE NoSnapshot

CommitService(x) ==
  /\ run[x].step = "commit"
  /\ LET r == run[x] IN
     /\ stored' = IF r.rows = {} THEN stored
                  ELSE Append(stored, [date |-> r.date, service |-> Service[r.service], by |-> x, rows |-> r.rows])
     /\ Continues(x, NextService(r))
  /\ UNCHANGED <<board, today, counted, legacy, host>>

(* A process ends with its transactions and boots again. *)
Dies(h) ==
  /\ host' = [host EXCEPT ![h] = Booted]
  /\ run' = [x \in DOMAIN run |-> IF x[1] = h THEN NoSnapshot ELSE run[x]]

\* mutant: a service that fails is passed over
PassOver(x) ==
  /\ run[x].step \in {"begin", "commit"}
  /\ board.failures > 0
  /\ board' = [board EXCEPT !.failures = @ - 1]
  /\ Continues(x, NextService(run[x]))
  /\ UNCHANGED <<today, counted, stored, legacy, host>>

(* The look or a service throws, the transaction is undone and what comes  *)
(* after it is left out.  The cron's error is logged; nobody awaits the    *)
(* boot's run, and an error that nobody handles ends the process.          *)
ServiceFails(x) ==
  /\ run[x] # NoSnapshot
  /\ board.failures > 0
  /\ board' = [board EXCEPT !.failures = @ - 1]
  /\ IF x[2] = "boot" THEN Dies(x[1]) ELSE Continues(x, NoSnapshot) /\ UNCHANGED host
  /\ UNCHANGED <<today, counted, stored, legacy>>

-----------------------------------------------------------------------------
(* AnalyticsMigrationService, before the boot looks for a row of today.    *)
(* A value is an array, a bare record or keyed, and its fields are sums or *)
(* extremes; both passes find the rows and update them one by one.         *)

BootIs(h, step) == host[h].step = step
BootGoes(h, step, todo) == host' = [host EXCEPT ![h].step = step, ![h].todo = todo]

NeedsMigration(v) == v.form \in {"array", "bare"}

Normalized(v) == [v EXCEPT !.form = "keyed"]

\* mutant: without values to normalize, no fields are renamed
FindLegacyOnly(h) ==
  /\ BootIs(h, "find")
  /\ LET pending == {i \in DOMAIN legacy : NeedsMigration(legacy[i])} IN
     BootGoes(h, IF pending = {} THEN "migrated" ELSE "normalize", {<<i, Normalized(legacy[i])>> : i \in pending})
  /\ UNCHANGED <<board, today, counted, stored, legacy, run>>

FindLegacy(h) ==
  /\ BootIs(h, "find")
  /\ BootGoes(h, "normalize",
       {<<i, Normalized(legacy[i])>> : i \in {i \in DOMAIN legacy : NeedsMigration(legacy[i])}})
  /\ UNCHANGED <<board, today, counted, stored, legacy, run>>

(* renameTopMetricFields, of keyed and of bare records. *)
FindFields(h) ==
  /\ BootIs(h, "normalize") /\ host[h].todo = {}
  /\ BootGoes(h, "rename",
       {<<i, [legacy[i] EXCEPT !.fields = "max"]>> :
          i \in {i \in DOMAIN legacy : legacy[i].form # "array" /\ legacy[i].fields = "sum"}})
  /\ UNCHANGED <<board, today, counted, stored, legacy, run>>

UpdateValue(h) ==
  /\ host[h].step \in {"normalize", "rename"}
  /\ \E u \in host[h].todo :
       /\ legacy' = [legacy EXCEPT ![u[1]] = u[2]]
       /\ BootGoes(h, host[h].step, host[h].todo \ {u})
  /\ UNCHANGED <<board, today, counted, stored, run>>

MigrationEnds(h) ==
  /\ BootIs(h, "rename") /\ host[h].todo = {}
  /\ BootGoes(h, "migrated", {})
  /\ UNCHANGED <<board, today, counted, stored, legacy, run>>

(* The boot goes on without waiting for the run that it starts.            *)
BootLooksForToday(h) ==
  /\ BootIs(h, "migrated")
  /\ host' = [host EXCEPT ![h] = [step |-> "up", todo |-> {}, migrated |-> TRUE]]
  /\ IF IsSnapshotted(today) \/ <<h, "boot">> \notin board.runs THEN UNCHANGED run
     ELSE Continues(<<h, "boot">>, [step |-> "look", date |-> today])
  /\ UNCHANGED <<board, today, counted, stored, legacy>>

(* The boot's own errors are logged. *)
BootFails(h) ==
  /\ ~BootIs(h, "up") /\ board.failures > 0
  /\ board' = [board EXCEPT !.failures = @ - 1]
  /\ BootGoes(h, "up", {})
  /\ UNCHANGED <<today, counted, stored, legacy, run>>

RestartHost(h) ==
  /\ board.restarts > 0
  /\ board' = [board EXCEPT !.restarts = @ - 1]
  /\ Dies(h)
  /\ UNCHANGED <<today, counted, stored, legacy>>

-----------------------------------------------------------------------------
Midnight ==
  /\ today < board.days
  /\ today' = today + 1
  /\ UNCHANGED <<board, counted, stored, legacy, host, run>>

TablesChange ==
  /\ counted < Len(board.facts)
  /\ counted' = counted + 1
  /\ UNCHANGED <<board, today, stored, legacy, host, run>>

SnapshotDaily(x) == LookForToday(x) \/ BeginService(x) \/ CommitService(x) \/ ServiceFails(x)
Migrate(h) == FindLegacy(h) \/ FindFields(h) \/ UpdateValue(h) \/ MigrationEnds(h)

BoardsNext ==
  \/ \E h \in board.hosts : \/ Migrate(h) \/ BootLooksForToday(h) \/ BootFails(h)
                               \/ CronFires(h) \/ RestartHost(h)
  \/ \E x \in board.runs : SnapshotDaily(x)
  \/ Midnight \/ TablesChange

BoardsSpec == BoardsInit /\ [][BoardsNext]_boardVars

-----------------------------------------------------------------------------
(* A day fills up in the order of the services: where a service stored     *)
(* rows of a day, those before it stored, of that day, all their metrics   *)
(* that there are whatever the tables hold (a realm's, for one, are there  *)
(* only with the realm), whatever failed, restarted or ran beside it.  The *)
(* last of them stands for a whole day (analytics.service.ts:114-121).     *)
DaysFillInOrder ==
  LET nothing == [realms |-> {}, traded |-> {}, volatile |-> FALSE] IN
  \A i \in DOMAIN stored : \A n \in 1 .. Len(Service), m \in 1 .. 4 :
    stored[i].service = Service[n] /\ m < n =>
      Metrics(Service[m], nothing) \subseteq ExistingKeys(stored[i].date, Service[m])

(* A host's boot, or its cron, stores a service of a day at most once and  *)
(* the services in their order, however often it dies half-way, fails or   *)
(* comes again that day, and whatever others store of the day meanwhile    *)
(* (analytics.service.ts:92-103): a metric of a day is there at most once  *)
(* per boot and cron of a host.                                            *)
EachRunStoresOnce ==
  \A i, j \in DOMAIN stored : i < j /\ stored[i].by = stored[j].by /\ stored[i].date = stored[j].date =>
    \E n, m \in 1 .. Len(Service) : n < m /\ stored[i].service = Service[n] /\ stored[j].service = Service[m]

(* A process that migrated found or left nothing of the older releases, if *)
(* all have migrated: an update that was computed from a row before the    *)
(* other process migrated it does not bring old fields back for good       *)
(* (analytics-migration.service.ts:38-76).                                 *)
LegacyValuesAreGone ==
  (\A h \in DOMAIN host : host[h].migrated) /\ DOMAIN host # {} =>
    \A i \in DOMAIN legacy : ~NeedsMigration(legacy[i]) /\ legacy[i].fields # "sum"

(* What the comment of snapshotDaily says its look for a row of today      *)
(* prevents: that a day is aggregated again by the cron after the boot     *)
(* (analytics.service.ts:89-91).                                           *)
DaysAreStoredOnce ==
  \A i, j \in DOMAIN stored : i < j /\ stored[i].date = stored[j].date /\ stored[i].service = stored[j].service =>
    KeysOf(i) \cap KeysOf(j) = {}
=============================================================================
