------------------------------- MODULE Sweeps -------------------------------
(***************************************************************************)
(* The crons of apps/characters and apps/guilds that keep the tables up to *)
(* date, against their queues.  Every ten minutes CharactersService sends  *)
(* the next page of the characters by hashA, and GuildsService the guilds  *)
(* whose rows were saved the longest ago.  A queue knows a job by the guid *)
(* of its character or guild and ignores a second one, also while the job  *)
(* is kept after its end: the last 1000 that ended are.                    *)
(***************************************************************************)
EXTENDS Naturals, Sequences, SequencesExt, FiniteSets

CONSTANTS Sweeping,  \* the instances to check: see SweepingAssumption
          Kept,      \* jobs kept after their end: removeOnComplete, 1000
          Limit      \* OSINT_CHARACTER_LIMIT, OSINT_GUILD_LIMIT

(* An instance: whether characters, guilds or none are swept, the guids in *)
(* order of the table, the guids of characters.json, the guilds whose rows *)
(* a scan leaves as they are, so that their updatedAt stays, and how often *)
(* rows are shuffled, an add fails and the process restarts.               *)
ASSUME SweepingAssumption ==
  /\ Kept \in Nat /\ Limit \in Nat \ {0}
  /\ \A i \in Sweeping :
       /\ i.kind \in {"characters", "guilds", "none"}
       /\ i.still \subseteq ToSet(i.rows) /\ {i.moves, i.faults, i.restarts} \subseteq Nat

VARIABLES sweep,     \* the instance, with what is left of its counters
          table,     \* the rows, in the order the cron asks for
          offset,    \* the service's offset: in memory
          boot,      \* what onApplicationBootstrap still has to do
          page,      \* what the running sweep still has to send
          pending,   \* the jobs that wait or run
          ended,     \* the jobs that are kept, the latest last
          marked,    \* CHARACTERS_FILE_IMPORTED
          sent       \* the guids of the file that were given to the queue

sweepVars == <<sweep, table, offset, boot, page, pending, ended, marked, sent>>

BootOf(kind) ==
  CASE kind = "characters" -> <<"file", "sweep">> [] kind = "guilds" -> <<"unique", "hallOfFame">> [] OTHER -> <<>>

SweepsInit ==
  /\ sweep \in Sweeping
  /\ table = sweep.rows
  /\ offset = 0
  /\ boot = BootOf(sweep.kind)
  /\ page = <<>> /\ pending = {} /\ ended = <<>>
  /\ marked = FALSE /\ sent = {}

-----------------------------------------------------------------------------
Booting(step) == boot # <<>> /\ Head(boot) = step

(* Queue.add: known ids are ignored. *)
Known == pending \cup ToSet(ended)
Queued(guids) == pending \cup (guids \ Known)

LastOf(kept) == SubSeq(kept, IF Len(kept) > Kept THEN Len(kept) - Kept + 1 ELSE 1, Len(kept))

(* The page at the offset. *)
Page == SubSeq(table, offset + 1, IF offset + Limit < Len(table) THEN offset + Limit ELSE Len(table))

\* mutant: the end is taken for the page before it
AfterCharactersEarly == IF offset + 2 * Limit >= Len(table) THEN 0 ELSE offset + Limit

(* indexCharacters moves its offset and begins again at the end. *)
AfterCharacters == IF offset + Limit >= Len(table) THEN 0 ELSE offset + Limit

(* indexGuilds does not rotate: what it sent is saved and goes to the end. *)
NextOffset == IF sweep.kind = "characters" THEN AfterCharacters ELSE 0

IndexPage ==
  /\ page = <<>> /\ (boot = <<>> \/ Booting("sweep"))
  /\ page' = Page
  /\ offset' = NextOffset
  /\ boot' = <<>>
  /\ UNCHANGED <<sweep, table, pending, ended, marked, sent>>

SendNext ==
  /\ page # <<>>
  /\ pending' = Queued({Head(page)})
  /\ page' = Tail(page)
  /\ UNCHANGED <<sweep, table, offset, boot, ended, marked, sent>>

(* An add throws: of the rest of the page some are on their way, and the   *)
(* others are dropped although the offset has moved.                       *)
SendFails ==
  /\ page # <<>> /\ sweep.faults > 0
  /\ sweep' = [sweep EXCEPT !.faults = @ - 1]
  /\ \E flown \in SUBSET ToSet(Tail(page)) : pending' = Queued(flown)
  /\ page' = <<>>
  /\ UNCHANGED <<table, offset, boot, ended, marked, sent>>

(* indexFromFile: every guid is sent before the file is marked. *)
IndexFromFile ==
  /\ Booting("file") /\ ~marked
  /\ \E g \in ToSet(sweep.file) \ sent :
       /\ pending' = Queued({g})
       /\ sent' = sent \cup {g}
  /\ UNCHANGED <<sweep, table, offset, boot, page, ended, marked>>

FileIsImported ==
  /\ Booting("file")
  /\ marked \/ sent = ToSet(sweep.file)
  /\ marked' = TRUE
  /\ boot' = Tail(boot)
  /\ UNCHANGED <<sweep, table, offset, page, pending, ended, sent>>

(* readFile, JSON.parse or add throws: the error is logged. *)
FileFails ==
  /\ Booting("file") /\ ~marked
  /\ boot' = Tail(boot)
  /\ sent' = {}
  /\ UNCHANGED <<sweep, table, offset, page, pending, ended, marked>>

(* indexGuildCharactersUnique: the guilds that characters name are sent at *)
(* once; a character without one makes the whole step throw.               *)
IndexGuildCharactersUnique ==
  /\ Booting("unique")
  /\ \E named \in {{}, ToSet(table)} : pending' = Queued(named)
  /\ boot' = Tail(boot)
  /\ UNCHANGED <<sweep, table, offset, page, ended, marked, sent>>

(* indexHallOfFame: the guilds of a leaderboard, or none when it failed. *)
IndexHallOfFame ==
  /\ Booting("hallOfFame")
  /\ \E ranked \in {{}, {Last(table)}} : pending' = Queued(ranked)
  /\ boot' = Tail(boot)
  /\ UNCHANGED <<sweep, table, offset, page, ended, marked, sent>>

(* The worker runs a job.  A row that changed is saved with a new          *)
(* updatedAt; Repository.save leaves a row that did not change alone.      *)
Touched(g) ==
  IF sweep.kind = "guilds" /\ g \notin sweep.still
  THEN Append(SelectSeq(table, LAMBDA x : x # g), g) ELSE table

RunJob(g) ==
  /\ g \in pending
  /\ pending' = pending \ {g}
  /\ ended' = LastOf(Append(ended, g))
  /\ table' = Touched(g)
  /\ UNCHANGED <<sweep, offset, boot, page, marked, sent>>

(* A character gets another hash and another place. *)
Rehash ==
  /\ sweep.kind = "characters" /\ sweep.moves > 0
  /\ \E i \in 1..Len(table) : table' = Append(RemoveAt(table, i), table[i])
  /\ sweep' = [sweep EXCEPT !.moves = @ - 1]
  /\ UNCHANGED <<offset, boot, page, pending, ended, marked, sent>>

Restart ==
  /\ sweep.restarts > 0
  /\ sweep' = [sweep EXCEPT !.restarts = @ - 1]
  /\ offset' = 0 /\ page' = <<>> /\ boot' = BootOf(sweep.kind) /\ sent' = {}
  /\ UNCHANGED <<table, pending, ended, marked>>

SweepsNext ==
  \/ IndexPage \/ SendNext \/ SendFails
  \/ IndexFromFile \/ FileIsImported \/ FileFails
  \/ IndexGuildCharactersUnique \/ IndexHallOfFame
  \/ \E g \in pending : RunJob(g)
  \/ Rehash \/ Restart

(* The cron ticks for ever, the boot goes on, and every job is run. *)
SweepsFairness ==
  /\ WF_sweepVars(IndexPage) /\ WF_sweepVars(SendNext)
  /\ WF_sweepVars(IndexFromFile \/ FileIsImported \/ IndexGuildCharactersUnique \/ IndexHallOfFame)
  /\ \A i \in Sweeping : \A g \in ToSet(i.rows) : WF_sweepVars(RunJob(g))

SweepsSpec == SweepsInit /\ [][SweepsNext]_sweepVars /\ SweepsFairness

-----------------------------------------------------------------------------
(* Every row comes round: its job runs again and again, although its id is *)
(* known until Kept others ended, rows change places between two pages, a  *)
(* page is dropped half-way, a restart begins at the top, and some guilds  *)
(* stay at the top of the page.                                            *)
(* It takes more rows than are kept, and fewer still guilds than a page.   *)
RowsComeRound ==
  \A g \in UNION {ToSet(i.rows) : i \in Sweeping} :
    g \in ToSet(sweep.rows) => []<><<RunJob(g)>>_sweepVars
=============================================================================
