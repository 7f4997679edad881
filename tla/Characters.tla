----------------------------- MODULE Characters -----------------------------
(***************************************************************************)
(* apps/osint's CharactersWorker with CharacterLifecycleService,           *)
(* CharacterService and CharacterCollectionService, the producers of its   *)
(* queue, the rosters of GuildsWorker that write the same rows, and the    *)
(* API's GET /character with the progress it streams to a session.         *)
(*                                                                         *)
(* A job's id is its character's guid: a queue holds one job per           *)
(* character, waiting, running or kept after its end, and ignores every    *)
(* message that comes meanwhile.  A job reads its row, asks Battle.net,    *)
(* reads the row twice more and saves it whole; a roster's scan reads and  *)
(* saves it whole, too.                                                    *)
(***************************************************************************)
EXTENDS Messages, FiniteSets

CONSTANTS Guids, Guilds, Hashes, Sessions,
          Plans,      \* the instances to check: see PlansAssumption
          Attempts,   \* runs of a failing job: 3
          MaxStalledCount \* how often a job may stall: 500

(* Bounds of a plan: the characters, sessions, guilds and hashes there     *)
(* are, who sends messages, how many are sent (the API's included), how    *)
(* often a roster saves, a call fails, the process dies and a socket       *)
(* closes, the last day, and whether publishes to the feed may fail.       *)
ASSUME PlansAssumption ==
  \A p \in Plans :
    /\ p.guids \subseteq Guids /\ p.sessions \subseteq Sessions
    /\ p.guilds \subseteq Guilds /\ p.hashes \subseteq Hashes
    /\ {p.sends, p.rosters, p.faults, p.crashes, p.closes, p.days} \subseteq Nat
    /\ p.days < Forever /\ p.lossy \in BOOLEAN

VARIABLES plan,
          left,       \* what is left of the plan's counters
          row,        \* row[g]: the row of table characters, or NoRow
          job,        \* job[g]: the job with id g and, when it runs, its locals
          roster,     \* roster[g]: a scan between its read and its save
          day,        \* the current day
          handed,     \* handed[g]: whether the last changed hash went to osint.hash
          open,       \* the sessions with a connected socket
          seen,       \* seen[g]: the last phase that the session of g's job was sent
          request     \* request[s]: the state of GET /character of session s

vars == <<plan, left, row, job, roster, day, handed, open, seen, request>>

NoRow == [day |-> None]
NoJob == [step |-> "none"]
NoScan == [step |-> "none"]

Running == {"find", "fetch", "diff", "reread", "save", "hash"}
Ended == {"completed", "failed", "stalled"}

Init ==
  /\ plan \in Plans
  /\ left = plan
  /\ row = [g \in Guids |-> NoRow]
  /\ job = [g \in Guids |-> NoJob]
  /\ roster = [g \in Guids |-> NoScan]
  /\ day = 0
  /\ handed = [g \in Guids |-> "yes"]
  /\ open = plan.sessions
  /\ seen = [g \in Guids |-> "none"]
  /\ request = [s \in Sessions |-> "idle"]

Spend(counter) == /\ left[counter] > 0
                  /\ left' = [left EXCEPT ![counter] = @ - 1]

-----------------------------------------------------------------------------
(* The queue.                                                              *)

(* Queue.add: a job of that id that is known in any state stays as it is. *)
Add(g, message) ==
  job' = IF job[g] = NoJob
         THEN [job EXCEPT ![g] = [step |-> "waiting", msg |-> message, tries |-> 0, stalls |-> 0]]
         ELSE job

(* What each producer sends of character g, and when. *)
MessagesOf(g) ==
  (IF "newcomers" \in plan.sources
   THEN {FromMythicPlusLadder, FromPvPLadder, FromWarcraftLogs, FromWowProgressLfg, FromMigrationFile}
   ELSE {})
  \cup (IF "rosters" \in plan.sources
        THEN {FromGuildMember(guild) : guild \in plan.guilds} \cup {FromGuildMaster(guild) : guild \in plan.guilds}
        ELSE {})
  \cup (IF "scans" \in plan.sources /\ row[g] = NoRow
        THEN {FromAddonScan(guild) : guild \in plan.guilds} ELSE {})
  \cup (IF "index" \in plan.sources /\ row[g] # NoRow
        THEN {FromCharacterIndex(row[g])} ELSE {})

Send(g) ==
  /\ Spend("sends")
  /\ \E message \in MessagesOf(g) : Add(g, message)
  /\ UNCHANGED <<plan, row, roster, day, handed, open, seen, request>>

(* removeOnComplete, removeOnFail: a job is kept until 1000 others ended. *)
Evict(g) ==
  /\ job[g].step \in Ended
  /\ job' = [job EXCEPT ![g] = NoJob]
  /\ UNCHANGED <<plan, left, row, roster, day, handed, open, seen, request>>

At(g, step) == job[g].step = step
Session(g) == job[g].msg.session

-----------------------------------------------------------------------------
(* The feed: FeedService publishes, FeedGateway routes what carries a      *)
(* session to the session's sockets only.                                  *)

Terminal == {"skipped", "success", "partial", "info", "error"}

(* A publish that fails is logged, and nothing is published again. *)
Hears(g, phase) ==
  IF Session(g) = None THEN UNCHANGED seen
  ELSE \E heard \in (IF plan.lossy THEN {FALSE} ELSE {}) \cup {Session(g) \in open} :
         seen' = [seen EXCEPT ![g] = IF heard THEN phase ELSE IF phase \in Terminal THEN "lost" ELSE "missed"]

Connect(s) ==
  /\ s \in plan.sessions \ open
  /\ open' = open \cup {s}
  /\ UNCHANGED <<plan, left, row, job, roster, day, handed, seen, request>>

Close(s) ==
  /\ s \in open /\ Spend("closes")
  /\ open' = open \ {s}
  /\ UNCHANGED <<plan, row, job, roster, day, handed, seen, request>>

-----------------------------------------------------------------------------
(* GET /character.                                                         *)

Requested(s) == IF s = None THEN FromCharacterRequest ELSE FromCharacterForceRefresh(s)

(* A row that is missing, or stale, or whose refresh the session wants is  *)
(* queued; only for a missing one does the request wait for the job.       *)
IsStale(g) == row[g] # NoRow /\ day - row[g].day > 2

GetCharacter(s, g) ==
  /\ request[s] = "idle" /\ Spend("sends")
  /\ \E session \in {s, None} :
       IF row[g] = NoRow \/ IsStale(g) \/ session # None
       THEN Add(g, Requested(session))
       ELSE UNCHANGED job
  /\ request' = [request EXCEPT ![s] = IF row[g] = NoRow THEN g ELSE "answered"]
  /\ UNCHANGED <<plan, row, roster, day, handed, open, seen>>

(* getAvailableKey throws: the refresh of a stale row is not queued. *)
GetUnavailable(s, g) ==
  /\ request[s] = "idle" /\ IsStale(g) /\ Spend("sends")
  /\ request' = [request EXCEPT ![s] = "answered"]
  /\ UNCHANGED <<plan, row, job, roster, day, handed, open, seen>>

AskAgain(s) ==
  /\ request[s] \in {"answered", "notFound"}
  /\ request' = [request EXCEPT ![s] = "idle"]
  /\ UNCHANGED <<plan, left, row, job, roster, day, handed, open, seen>>

(* waitUntilFinished answers what the processor returns, which is nothing, *)
(* and gives up after a minute: the client is told NotFound either way.    *)
GetEnds(s) ==
  /\ request[s] \in Guids
  /\ request' = [request EXCEPT ![s] = "notFound"]
  /\ UNCHANGED <<plan, left, row, job, roster, day, handed, open, seen>>

-----------------------------------------------------------------------------
(* The worker.                                                             *)

(* The job goes on with the locals that are named in changed. *)
GoTo(g, step) == job' = [job EXCEPT ![g].step = step]

(* A waiting job of the best priority starts: 0 is before 1.  One that     *)
(* comes back, after its backoff or when its stall is noticed, comes at    *)
(* any time.                                                               *)
ComesBack(g) == job[g].tries + job[g].stalls > 0

Take(g) ==
  /\ At(g, "waiting")
  /\ \A h \in Guids : At(h, "waiting") /\ ~ComesBack(h) /\ ~ComesBack(g)
                        => job[g].msg.priority =< job[h].msg.priority
  /\ GoTo(g, "find")
  /\ Hears(g, "started")
  /\ UNCHANGED <<plan, left, row, roster, day, handed, open, request>>

\* mutant: a skipped job tells nobody
EndQuietly(g, step, phase) ==
  /\ job' = [job EXCEPT ![g] = [step |-> step, msg |-> job[g].msg]]
  /\ IF phase = "skipped" THEN UNCHANGED seen ELSE Hears(g, phase)

(* The job ends, with the event that goes to its session. *)
End(g, step, phase) ==
  /\ job' = [job EXCEPT ![g] = [step |-> step, msg |-> job[g].msg]]
  /\ Hears(g, phase)

(* findOrCreateCharacter: updateSafe < updatedAt. *)
IsNotReadyToUpdate(g) == day - job[g].msg.force < row[g].day

Skip(g) ==
  /\ At(g, "find") /\ row[g] # NoRow
  /\ job[g].msg.unique \/ IsNotReadyToUpdate(g)
  /\ End(g, "completed", "skipped")
  /\ handed' = [handed EXCEPT ![g] = IF @ = "due" THEN "skipped" ELSE @]
  /\ UNCHANGED <<plan, left, row, roster, day, open, request>>

(* inheritSafeValuesFromArgs: what the row has not got comes from the      *)
(* message; of the guild only when the row names one.                      *)
Inherit(guild, message) ==
  IF guild.guid = None THEN guild
  ELSE [f \in DOMAIN guild |-> IF guild[f] = None THEN message.guild[f] ELSE guild[f]]

InheritHash(hash, message) == IF hash = None THEN message.hash ELSE hash

(* The status: a letter for each endpoint, a capital where it succeeded. *)
Endpoints == {"STATUS", "SUMMARY", "MEDIA", "PETS", "MOUNTS", "PROFESSIONS"}
NothingAsked == [e \in Endpoints |-> "pending"]

SetStatus(status, endpoint, state) == [status EXCEPT ![endpoint] = state]
IsSuccess(status, endpoint) == status[endpoint] = "success"

(* findOrCreateCharacter, createNewCharacter: the entity.  A new one has   *)
(* the fields of its message.                                              *)
FindOrCreateCharacter(g) ==
  /\ At(g, "find")
  /\ row[g] # NoRow => ~job[g].msg.unique /\ ~IsNotReadyToUpdate(g)
  /\ LET m == job[g].msg IN
     job' = [job EXCEPT ![g] = [step |-> "fetch", msg |-> m, tries |-> @.tries, stalls |-> @.stalls,
       new |-> row[g] = NoRow, hadHash |-> FALSE,
       overtaken |-> FALSE, late |-> FALSE,
       status |-> NothingAsked,
       guild |-> IF row[g] = NoRow THEN m.guild ELSE Inherit(row[g].guild, m),
       hash |-> IF row[g] = NoRow THEN m.hash ELSE InheritHash(row[g].hash, m)]]
  /\ UNCHANGED <<plan, left, row, roster, day, handed, open, seen, request>>

AfterFetch(g) == IF job[g].new THEN "save" ELSE "diff"

(* getStatus: without an answer, or when the character is not valid, the   *)
(* other endpoints are not asked.                                          *)
FetchStatusOnly(g) ==
  /\ At(g, "fetch")
  /\ \E state \in {"success", "error"} :
       job' = [job EXCEPT ![g].step = AfterFetch(g), ![g].status = SetStatus(NothingAsked, "STATUS", state)]
  /\ Hears(g, "endpoint")
  /\ UNCHANGED <<plan, left, row, roster, day, handed, open, request>>

(* getSummary: the guild it names; no guild clears all four fields; an     *)
(* answer that fails changes none.                                         *)
Summaries(answer, guild) ==
  IF answer = "failed" THEN {guild}
  ELSE {NoGuild} \cup {[guid |-> x, id |-> x, rank |-> guild.rank] : x \in plan.guilds}

(* syncCharacterPets: no hash without pets and after a failure. *)
PetHashes(answer) == IF answer = "failed" THEN {None} ELSE plan.hashes \cup {None}

(* What the services answer: an object, also when their request failed or  *)
(* was refused.  The three that write columns left out here fail together. *)
Answers ==
  {a \in [Endpoints \ {"STATUS"} -> {"data", "failed"}] :
     a["MEDIA"] = a["MOUNTS"] /\ a["MOUNTS"] = a["PROFESSIONS"]}

(* processResult: any answer counts as a success of its endpoint. *)
ProcessResults(answers) ==
  [e \in Endpoints |-> IF e = "STATUS" \/ answers[e] # None THEN "success" ELSE "error"]

FetchAndUpdateCharacterData(g) ==
  /\ At(g, "fetch")
  /\ \E answers \in Answers :
       \E guild \in Summaries(answers["SUMMARY"], job[g].guild), hash \in PetHashes(answers["PETS"]) :
         job' = [job EXCEPT ![g].step = AfterFetch(g), ![g].status = ProcessResults(answers),
                            ![g].guild = guild, ![g].hash = hash]
  /\ Hears(g, "endpoint")
  /\ UNCHANGED <<plan, left, row, roster, day, handed, open, request>>

(* handleExistingCharacterUpdates on the row as it is now. *)
HasGuildChanged(original, updated) == original.guid # updated.guid /\ updated.id = None

DiffAndLogChanges(g) ==
  /\ At(g, "diff")
  /\ job' = [job EXCEPT ![g].step = "reread", ![g].hadHash = row[g].hash # None,
       ![g].guild = IF HasGuildChanged(row[g].guild, @) THEN NoGuild ELSE @]
  /\ UNCHANGED <<plan, left, row, roster, day, handed, open, seen, request>>

\* mutant: the guild of the first read is saved whatever came since
RereadNothing(g) ==
  /\ At(g, "reread")
  /\ GoTo(g, "save")
  /\ UNCHANGED <<plan, left, row, roster, day, handed, open, seen, request>>

(* currentDbState.updatedAt > loadedUpdatedAt: someone saved the row since *)
(* the job read it, and the guild is taken from that.                      *)
Reread(g) ==
  /\ At(g, "reread")
  /\ job' = [job EXCEPT ![g].step = "save",
       ![g].guild = IF job[g].overtaken THEN row[g].guild ELSE @]
  /\ UNCHANGED <<plan, left, row, roster, day, handed, open, seen, request>>

(* Repository.save: undefined fields are left alone, and a row that does   *)
(* not differ keeps its updatedAt, unless a column left out here differs.  *)
Saved(g) ==
  [day |-> day, status |-> job[g].status, guild |-> job[g].guild,
   hash |-> IF job[g].hash # None \/ row[g] = NoRow THEN job[g].hash ELSE row[g].hash]

IsSame(entity, now) == now # NoRow /\ [entity EXCEPT !.day = now.day] = now

Stored(g) == {Saved(g)} \cup (IF IsSame(Saved(g), row[g]) THEN {row[g]} ELSE {})

HasHash(g) == job[g].hash # None \/ job[g].hadHash

HashChanges(g) == Saved(g).hash # (IF row[g] = NoRow THEN None ELSE row[g].hash)

FeedStatus(status) ==
  IF IsSuccess(status, "STATUS") /\ IsSuccess(status, "SUMMARY") THEN "success"
  ELSE IF \E e \in Endpoints : status[e] = "error" THEN "partial" ELSE "info"

\* mutant: the hash is handed on before the row is saved
SaveAfterEnqueue(g) ==
  /\ At(g, "save")
  /\ \E stored \in Stored(g) : row' = [row EXCEPT ![g] = stored]
  /\ handed' = [handed EXCEPT ![g] = IF HashChanges(g) THEN "due" ELSE @]
  /\ End(g, "completed", FeedStatus(job[g].status))
  /\ UNCHANGED <<plan, left, roster, day, open, request>>

SaveCharacter(g) ==
  /\ At(g, "save")
  /\ \E stored \in Stored(g) : row' = [row EXCEPT ![g] = stored]
  /\ handed' = [handed EXCEPT ![g] = IF HashChanges(g) THEN "due" ELSE @]
  /\ IF HasHash(g) THEN GoTo(g, "hash") /\ UNCHANGED seen
                   ELSE End(g, "completed", FeedStatus(job[g].status))
  /\ UNCHANGED <<plan, left, roster, day, open, request>>

EnqueueHashUpdate(g) ==
  /\ At(g, "hash")
  /\ handed' = [handed EXCEPT ![g] = "yes"]
  /\ End(g, "completed", FeedStatus(job[g].status))
  /\ UNCHANGED <<plan, left, row, roster, day, open, request>>

MayRetry(tries) == tries < Attempts

(* A call throws: the attempt ends, and after the last one the job. *)
Lost(g) == [handed EXCEPT ![g] = IF @ = "due" THEN "failed" ELSE @]

Fail(g) ==
  /\ job[g].step \in Running /\ Spend("faults")
  /\ LET tries == job[g].tries + 1 IN
     IF MayRetry(tries)
     THEN /\ job' = [job EXCEPT ![g] = [step |-> "waiting", msg |-> @.msg, tries |-> tries, stalls |-> @.stalls]]
          /\ Hears(g, "error") /\ UNCHANGED handed
     ELSE End(g, "failed", "error") /\ handed' = Lost(g)
  /\ UNCHANGED <<plan, row, roster, day, open, request>>

(* The process dies: BullMQ finds its jobs stalled and gives each to       *)
(* another worker, until it stalled more often than is allowed.            *)
Crash ==
  /\ Spend("crashes")
  /\ \E g \in Guids : job[g].step \in Running
  /\ job' = [g \in Guids |->
       IF job[g].step \notin Running THEN job[g]
       ELSE IF job[g].stalls >= MaxStalledCount THEN [step |-> "stalled", msg |-> job[g].msg]
       ELSE [step |-> "waiting", msg |-> job[g].msg, tries |-> job[g].tries, stalls |-> job[g].stalls + 1]]
  /\ handed' = [g \in Guids |->
       IF job[g].step \in Running /\ job[g].stalls >= MaxStalledCount THEN Lost(g)[g] ELSE handed[g]]
  /\ roster' = [g \in Guids |-> NoScan]
  /\ UNCHANGED <<plan, row, day, open, seen, request>>

-----------------------------------------------------------------------------
(* The rosters.                                                            *)

(* The guild of the row is written by someone else than the job. *)
Overtake(g) ==
  IF job[g].step \notin Running \ {"find"} THEN job
  ELSE [job EXCEPT ![g].overtaken = TRUE, ![g].late = job[g].step = "save"]

(* characterAsGuildMember reads the row of a member ... *)
RosterReads(g) ==
  /\ roster[g] = NoScan /\ Spend("rosters")
  /\ \E guild \in plan.guilds : roster' = [roster EXCEPT ![g] = [step |-> "save", guild |-> guild, was |-> row[g]]]
  /\ UNCHANGED <<plan, row, job, day, handed, open, seen, request>>

(* ... and saves it as it was read but for the guild when the guild was    *)
(* modified after the row; else but for the rank when it is that guild's.  *)
(* A new row that exists by now keeps the columns that a roster has not.   *)
RosterEntities(was, guild, now) ==
  IF was = NoRow
  THEN {[day |-> day, guild |-> MemberOf(guild),
         status |-> IF now = NoRow THEN None ELSE now.status, hash |-> IF now = NoRow THEN None ELSE now.hash]}
  ELSE {[was EXCEPT !.day = day, !.guild = MemberOf(guild)]}
       \cup (IF was.guild.guid = guild THEN {[was EXCEPT !.day = day, !.guild.rank = guild]} ELSE {})

RosterSaves(g) ==
  /\ roster[g] # NoScan
  /\ \E entity \in RosterEntities(roster[g].was, roster[g].guild, row[g]) : row' = [row EXCEPT ![g] = entity]
  /\ job' = Overtake(g)
  /\ roster' = [roster EXCEPT ![g] = NoScan]
  /\ UNCHANGED <<plan, left, day, handed, open, seen, request>>

(* Another guild's character that was saved since is left as it is; so is  *)
(* a row that the save would not change.                                   *)
RosterLeavesRow(g) ==
  /\ roster[g] # NoScan /\ roster[g].was # NoRow
  /\ \/ roster[g].was.guild.guid # roster[g].guild
     \/ \E entity \in RosterEntities(roster[g].was, roster[g].guild, row[g]) : IsSame(entity, row[g])
  /\ roster' = [roster EXCEPT ![g] = NoScan]
  /\ UNCHANGED <<plan, left, row, job, day, handed, open, seen, request>>

(* processLeaveMember: one UPDATE of the row that still names the guild. *)
RosterClears(g) ==
  /\ row[g] # NoRow /\ row[g].guild.guid # None /\ Spend("rosters")
  /\ row' = [row EXCEPT ![g].guild = NoGuild, ![g].day = day]
  /\ job' = Overtake(g)
  /\ UNCHANGED <<plan, roster, day, handed, open, seen, request>>

NextDay ==
  /\ day < plan.days
  /\ day' = day + 1
  /\ UNCHANGED <<plan, left, row, job, roster, handed, open, seen, request>>

-----------------------------------------------------------------------------
Work(g) ==
  \/ Take(g) \/ Skip(g) \/ FindOrCreateCharacter(g)
  \/ FetchStatusOnly(g) \/ FetchAndUpdateCharacterData(g)
  \/ DiffAndLogChanges(g) \/ Reread(g) \/ SaveCharacter(g) \/ EnqueueHashUpdate(g)
  \/ Fail(g)

Rosters(g) == RosterReads(g) \/ RosterSaves(g) \/ RosterLeavesRow(g) \/ RosterClears(g)

Next ==
  \/ \E g \in plan.guids : Send(g) \/ Evict(g) \/ Work(g) \/ Rosters(g)
  \/ \E s \in plan.sessions : Connect(s) \/ Close(s) \/ GetEnds(s) \/ AskAgain(s)
  \/ \E s \in plan.sessions, g \in plan.guids : GetCharacter(s, g) \/ GetUnavailable(s, g)
  \/ Crash
  \/ NextDay

Spec == Init /\ [][Next]_vars

(* A worker is always there to take the next job and to go on with one. *)
Fairness == \A g \in Guids : WF_vars(g \in plan.guids /\ Work(g))

FairSpec == Spec /\ Fairness

-----------------------------------------------------------------------------
(* Properties.                                                             *)

(* A guild that a roster wrote while the job asked Battle.net survives the *)
(* job's save: the save of a known character changes the guild only when   *)
(* nobody else wrote it, or wrote it after the job's last look.  The hole  *)
(* that remains is one statement wide (characters.worker.ts:131-140).      *)
RosterPrevails ==
  [][\A g \in Guids :
       At(g, "save") /\ ~job[g].new /\ job[g].overtaken /\ ~job[g].late /\ row'[g] # row[g] /\ job'[g].step # "save"
         => row'[g].guild = row[g].guild]_vars

(* A changed hash that a job saved is handed to osint.hash before the job  *)
(* rests, unless the attempt that saved it ended in between: then only a   *)
(* retry that may update the row hands it on, and the others skip the row  *)
(* as fresh or known (characters.worker.ts:140-146).  Nothing is owed once *)
(* a roster that read the row before the save has put back one without.    *)
HashIsHandedOn ==
  \A g \in Guids :
    handed[g] = "due" /\ row[g] # NoRow /\ row[g].hash # None => job[g].step \in Running \cup {"waiting"}

(* A session whose refresh was taken by a worker and that stays connected  *)
(* hears how it ended, however often a call fails, the job is retried or   *)
(* the process dies: what it may miss is an event whose own publish fails, *)
(* and a job that stalled more often than is allowed ends unheard.         *)
RefreshEnds ==
  \A s \in Sessions, g \in Guids :
    (At(g, "find") /\ Session(g) = s)
      ~> (seen[g] \in Terminal \cup {"lost"} \/ s \notin open \/ At(g, "stalled"))

(* What GET /character promises: "the character is force-refreshed from    *)
(* Blizzard" (osint.controller.ts:60).  A forced refresh is never skipped. *)
ForcedRefreshFetches ==
  [][\A g \in Guids : At(g, "find") /\ job[g].msg.force = FORCE => job'[g].step # "completed"]_vars
=============================================================================
