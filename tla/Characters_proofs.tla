-------------------------- MODULE Characters_proofs --------------------------
(***************************************************************************)
(* Proofs that a changed hash is handed on, and that a roster's guild      *)
(* survives a job's save, for any characters, messages, plans and          *)
(* attempts: what a retry finds in the row makes it hand the hash on       *)
(* again, and no roster can put a hash into a row without one.             *)
(***************************************************************************)
EXTENDS Characters, TLAPS

Hands == {"yes", "due", "skipped", "failed"}
Working == {"fetch", "diff", "reread", "save"}

(* What holds of one character: its job r, row w, roster's scan s and the  *)
(* state h of its hash.                                                    *)
Typed(r, w, s) ==
  /\ "step" \in DOMAIN r
  /\ r.step \in Working => {"new", "hadHash"} \subseteq DOMAIN r
  /\ w = NoRow \/ "hash" \in DOMAIN w
  /\ s = NoScan \/ s.was = NoRow \/ "hash" \in DOMAIN s.was

IsOwed(w, h) == h = "due" /\ w # NoRow /\ w.hash # None

(* A scan writes a hash only where there is one. *)
ScanKeeps(w, s) == s # NoScan /\ s.was # NoRow /\ s.was.hash # None => w # NoRow /\ w.hash # None

Kept(r, w, s, h) ==
  /\ h = "due" => w # NoRow
  /\ IsOwed(w, h) => r.step \in Running \cup {"waiting"}
  /\ h = "due" /\ r.step \in Working => ~r.new
  /\ IsOwed(w, h) /\ r.step \in {"reread", "save"} => r.hadHash
  /\ ScanKeeps(w, s)

Good(r, w, s, h) == Typed(r, w, s) /\ Kept(r, w, s, h)

HandedInv ==
  /\ job = [g \in Guids |-> job[g]] /\ row = [g \in Guids |-> row[g]] /\ roster = [g \in Guids |-> roster[g]]
  /\ handed \in [Guids -> Hands]
  /\ \A g \in Guids : Good(job[g], row[g], roster[g], handed[g])

-----------------------------------------------------------------------------
LEMMA HandedInit == ASSUME Init PROVE HandedInv
<1>1. Good(NoJob, NoRow, NoScan, "yes")
  BY DEF Good, Typed, Kept, IsOwed, ScanKeeps, NoJob, Working
<1> QED BY <1>1 DEF Init, HandedInv, Hands

(* A step changes what belongs to one character.                           *)
LEMMA OneMoves ==
  ASSUME HandedInv, NEW g \in Guids, NEW r, NEW w, NEW s, NEW h \in Hands, Good(r, w, s, h),
         job' = [job EXCEPT ![g] = r], row' = [row EXCEPT ![g] = w],
         roster' = [roster EXCEPT ![g] = s], handed' = [handed EXCEPT ![g] = h]
  PROVE  HandedInv'
<1>1. \A k \in Guids : Good(job[k], row[k], roster[k], handed[k])
  BY DEF HandedInv
<1>2. /\ job' = [k \in Guids |-> job'[k]] /\ row' = [k \in Guids |-> row'[k]]
      /\ roster' = [k \in Guids |-> roster'[k]] /\ handed' \in [Guids -> Hands]
  BY DEF HandedInv
<1>3. ASSUME NEW k \in Guids PROVE Good(job'[k], row'[k], roster'[k], handed'[k])
  <2>1. CASE k = g
    BY <2>1 DEF HandedInv
  <2>2. CASE k # g
    BY <2>2, <1>1 DEF HandedInv
  <2> QED BY <2>1, <2>2
<1> QED BY <1>2, <1>3 DEF HandedInv

(* Only the job and its hash's state change. *)
LEMMA JobMoves ==
  ASSUME HandedInv, NEW g \in Guids, NEW r, NEW h \in Hands, Good(r, row[g], roster[g], h),
         job' = [job EXCEPT ![g] = r], handed' = [handed EXCEPT ![g] = h], UNCHANGED <<row, roster>>
  PROVE  HandedInv'
<1>1. row' = [row EXCEPT ![g] = row[g]] /\ roster' = [roster EXCEPT ![g] = roster[g]]
  BY DEF HandedInv
<1> QED BY <1>1, OneMoves

LEMMA JobGoesOn ==
  ASSUME HandedInv, NEW g \in Guids, NEW r, Good(r, row[g], roster[g], handed[g]),
         job' = [job EXCEPT ![g] = r], UNCHANGED <<row, roster, handed>>
  PROVE  HandedInv'
<1>1. handed[g] \in Hands /\ handed' = [handed EXCEPT ![g] = handed[g]]
  BY DEF HandedInv
<1> QED BY <1>1, JobMoves

(* Only the roster's scan changes. *)
LEMMA ScanMoves ==
  ASSUME HandedInv, NEW g \in Guids, NEW s, Good(job[g], row[g], s, handed[g]),
         roster' = [roster EXCEPT ![g] = s], UNCHANGED <<job, row, handed>>
  PROVE  HandedInv'
<1>1. /\ job' = [job EXCEPT ![g] = job[g]] /\ row' = [row EXCEPT ![g] = row[g]]
      /\ handed[g] \in Hands /\ handed' = [handed EXCEPT ![g] = handed[g]]
  BY DEF HandedInv
<1> QED BY ONLY <1>1, HandedInv, g \in Guids, Good(job[g], row[g], s, handed[g]),
  roster' = [roster EXCEPT ![g] = s], OneMoves

LEMMA NothingMoves == ASSUME HandedInv, UNCHANGED <<job, row, roster, handed>> PROVE HandedInv'
BY DEF HandedInv

LEMMA GoodNow == ASSUME HandedInv, NEW g \in Guids PROVE Good(job[g], row[g], roster[g], handed[g])
BY DEF HandedInv

-----------------------------------------------------------------------------
(* A job that waits or has read nothing yet may be anything that is not    *)
(* over; one that is over owes nothing.                                    *)
LEMMA EarlyIsGood ==
  ASSUME HandedInv, NEW g \in Guids, NEW r, "step" \in DOMAIN r, r.step \in {"waiting", "find", "hash"}
  PROVE  Good(r, row[g], roster[g], handed[g])
BY GoodNow DEF Good, Typed, Kept, Running, Working

LEMMA OverIsGood ==
  ASSUME HandedInv, NEW g \in Guids, NEW r, "step" \in DOMAIN r, r.step \notin Working,
         NEW h \in Hands, h = "due" => ~IsOwed(row[g], h) /\ handed[g] = "due"
  PROVE  Good(r, row[g], roster[g], h)
BY GoodNow DEF Good, Typed, Kept, IsOwed

(* A message makes a job only where there is none. *)
LEMMA AddKeeps ==
  ASSUME HandedInv, NEW g \in Guids, NEW message, Add(g, message), UNCHANGED <<row, roster, handed>>
  PROVE  HandedInv'
<1> DEFINE r == [step |-> "waiting", msg |-> message, tries |-> 0, stalls |-> 0]
<1>1. CASE job[g] = NoJob
  <2>1. job' = [job EXCEPT ![g] = r] /\ "step" \in DOMAIN r /\ r.step = "waiting"
    BY <1>1 DEF Add
  <2> HIDE DEF r
  <2> QED BY <2>1, EarlyIsGood, JobGoesOn
<1>2. CASE job[g] # NoJob
  BY <1>2, NothingMoves DEF Add
<1> QED BY <1>1, <1>2

(* A job ends, and what it may have owed is given up. *)
LEMMA EndKeeps ==
  ASSUME HandedInv, NEW g \in Guids, NEW step \in Ended, NEW phase, End(g, step, phase),
         NEW h \in {"yes", "skipped", "failed"}, handed' = [handed EXCEPT ![g] = h], UNCHANGED <<row, roster>>
  PROVE  HandedInv'
<1> DEFINE r == [step |-> step, msg |-> job[g].msg]
<1>1. job' = [job EXCEPT ![g] = r] /\ "step" \in DOMAIN r /\ r.step \notin Working /\ h \in Hands
  BY DEF End, Ended, Working, Hands
<1> HIDE DEF r
<1>2. Good(r, row[g], roster[g], h)
  BY <1>1, OverIsGood
<1> QED BY <1>1, <1>2, JobMoves

(* What is due of a job that ends is given up. *)
GivenUp(h, as) == IF h = "due" THEN as ELSE h

LEMMA GivenUpIsNotDue ==
  ASSUME HandedInv, NEW g \in Guids, NEW as \in {"skipped", "failed"}
  PROVE  GivenUp(handed[g], as) \in {"yes", "skipped", "failed"}
BY DEF HandedInv, GivenUp, Hands

-----------------------------------------------------------------------------
LEMMA TakeKeeps == ASSUME HandedInv, NEW g \in Guids, Take(g) PROVE HandedInv'
<1> DEFINE r == [job[g] EXCEPT !.step = "find"]
<1>1. job' = [job EXCEPT ![g] = r] /\ "step" \in DOMAIN r /\ r.step = "find"
  BY GoodNow DEF Take, GoTo, Good, Typed
<1> HIDE DEF r
<1> QED BY <1>1, EarlyIsGood, JobGoesOn DEF Take

LEMMA SkipKeeps == ASSUME HandedInv, NEW g \in Guids, Skip(g) PROVE HandedInv'
<1>1. handed' = [handed EXCEPT ![g] = GivenUp(handed[g], "skipped")]
  BY DEF Skip, GivenUp
<1> QED BY <1>1, GivenUpIsNotDue, EndKeeps DEF Skip, Ended

(* A job that is new finds no row, so that nothing is due. *)
LEMMA FindKeeps == ASSUME HandedInv, NEW g \in Guids, FindOrCreateCharacter(g) PROVE HandedInv'
<1> DEFINE m == job[g].msg
           r == [step |-> "fetch", msg |-> m, tries |-> job[g].tries, stalls |-> job[g].stalls,
                 new |-> row[g] = NoRow, hadHash |-> FALSE,
                 overtaken |-> FALSE, late |-> FALSE,
                 status |-> NothingAsked,
                 guild |-> IF row[g] = NoRow THEN m.guild ELSE Inherit(row[g].guild, m),
                 hash |-> IF row[g] = NoRow THEN m.hash ELSE InheritHash(row[g].hash, m)]
<1>1. job' = [job EXCEPT ![g] = r]
  BY DEF FindOrCreateCharacter
<1>2. DOMAIN r = {"step", "msg", "tries", "stalls", "new", "hadHash", "overtaken", "late", "status", "guild", "hash"}
  OBVIOUS
<1>3. r.step = "fetch" /\ r.new = (row[g] = NoRow)
  OBVIOUS
<1> HIDE DEF r
<1>4. Good(r, row[g], roster[g], handed[g])
  BY <1>2, <1>3, GoodNow DEF Good, Typed, Kept, Running, Working
<1> QED BY <1>1, <1>4, JobGoesOn DEF FindOrCreateCharacter

(* The job has asked, and is as new as before. *)
LEMMA FetchedIsGood ==
  ASSUME HandedInv, NEW g \in Guids, At(g, "fetch"), NEW r,
         {"step", "new", "hadHash"} \subseteq DOMAIN r, r.step = AfterFetch(g), r.new = job[g].new
  PROVE  Good(r, row[g], roster[g], handed[g])
<1>1. r.step \in {"diff", "save"} /\ (r.step = "save" => r.new)
  BY DEF AfterFetch
<1>2. handed[g] = "due" => ~job[g].new
  BY GoodNow DEF At, Good, Kept, Working
<1> QED BY <1>1, <1>2, GoodNow DEF Good, Typed, Kept, Running, Working, IsOwed

LEMMA StatusKeeps == ASSUME HandedInv, NEW g \in Guids, FetchStatusOnly(g) PROVE HandedInv'
<1>1. PICK state \in {"success", "error"} :
        job' = [job EXCEPT ![g].step = AfterFetch(g), ![g].status = SetStatus(NothingAsked, "STATUS", state)]
  BY DEF FetchStatusOnly
<1> DEFINE r == [[job[g] EXCEPT !.step = AfterFetch(g)] EXCEPT !.status = SetStatus(NothingAsked, "STATUS", state)]
<1>2. job' = [job EXCEPT ![g] = r]
  BY <1>1 DEF HandedInv
<1>3. {"step", "new", "hadHash"} \subseteq DOMAIN job[g]
  BY GoodNow DEF FetchStatusOnly, At, Good, Typed, Working
<1>4. {"step", "new", "hadHash"} \subseteq DOMAIN r /\ r.step = AfterFetch(g) /\ r.new = job[g].new
  BY <1>3
<1> HIDE DEF r
<1> QED BY <1>2, <1>4, FetchedIsGood, JobGoesOn DEF FetchStatusOnly

LEMMA FetchKeeps == ASSUME HandedInv, NEW g \in Guids, FetchAndUpdateCharacterData(g) PROVE HandedInv'
<1>1. PICK answers \in Answers :
        \E guild \in Summaries(answers["SUMMARY"], job[g].guild), hash \in PetHashes(answers["PETS"]) :
          job' = [job EXCEPT ![g].step = AfterFetch(g), ![g].status = ProcessResults(answers),
                             ![g].guild = guild, ![g].hash = hash]
  BY DEF FetchAndUpdateCharacterData
<1>2. PICK guild, hash :
        job' = [job EXCEPT ![g].step = AfterFetch(g), ![g].status = ProcessResults(answers),
                           ![g].guild = guild, ![g].hash = hash]
  BY <1>1
<1> DEFINE r == [[[[job[g] EXCEPT !.step = AfterFetch(g)] EXCEPT !.status = ProcessResults(answers)]
                   EXCEPT !.guild = guild] EXCEPT !.hash = hash]
<1>3. job' = [job EXCEPT ![g] = r]
  BY <1>2 DEF HandedInv
<1>4. {"step", "new", "hadHash"} \subseteq DOMAIN job[g]
  BY GoodNow DEF FetchAndUpdateCharacterData, At, Good, Typed, Working
<1>5. {"step", "new", "hadHash"} \subseteq DOMAIN r /\ r.step = AfterFetch(g) /\ r.new = job[g].new
  BY <1>4
<1> HIDE DEF r
<1> QED BY <1>3, <1>5, FetchedIsGood, JobGoesOn DEF FetchAndUpdateCharacterData

(* The job looks whether the row has a hash ... *)
LEMMA DiffKeeps == ASSUME HandedInv, NEW g \in Guids, DiffAndLogChanges(g) PROVE HandedInv'
<1> DEFINE guild == IF HasGuildChanged(row[g].guild, job[g].guild) THEN NoGuild ELSE job[g].guild
           r == [[[job[g] EXCEPT !.step = "reread"] EXCEPT !.hadHash = row[g].hash # None]
                  EXCEPT !.guild = guild]
<1>1. {"step", "new", "hadHash"} \subseteq DOMAIN job[g]
  BY GoodNow DEF DiffAndLogChanges, At, Good, Typed, Working
<1>2. job' = [job EXCEPT ![g] = r]
  BY DEF HandedInv, DiffAndLogChanges
<1>3. /\ {"step", "new", "hadHash"} \subseteq DOMAIN r
      /\ r.step = "reread" /\ r.new = job[g].new /\ r.hadHash = (row[g].hash # None)
  BY <1>1
<1> HIDE DEF r
<1>4. Good(r, row[g], roster[g], handed[g])
  BY <1>3, GoodNow DEF Good, Typed, Kept, IsOwed, Running, Working, DiffAndLogChanges, At
<1> QED BY <1>2, <1>4, JobGoesOn DEF DiffAndLogChanges

(* ... and until its save nobody gives it one. *)
LEMMA RereadKeeps == ASSUME HandedInv, NEW g \in Guids, Reread(g) PROVE HandedInv'
<1> DEFINE guild == IF job[g].overtaken THEN row[g].guild ELSE job[g].guild
           r == [[job[g] EXCEPT !.step = "save"] EXCEPT !.guild = guild]
<1>1. {"step", "new", "hadHash"} \subseteq DOMAIN job[g]
  BY GoodNow DEF Reread, At, Good, Typed, Working
<1>2. job' = [job EXCEPT ![g] = r]
  BY DEF HandedInv, Reread
<1>3. /\ {"step", "new", "hadHash"} \subseteq DOMAIN r
      /\ r.step = "save" /\ r.new = job[g].new /\ r.hadHash = job[g].hadHash
  BY <1>1
<1> HIDE DEF r
<1>4. Good(r, row[g], roster[g], handed[g])
  BY <1>3, GoodNow DEF Good, Typed, Kept, IsOwed, Running, Working, Reread, At
<1> QED BY <1>2, <1>4, JobGoesOn DEF Reread

-----------------------------------------------------------------------------
(* What is saved has a hash where the job or the row has one.              *)
LEMMA StoredHash ==
  ASSUME NEW g, NEW w \in Stored(g)
  PROVE  /\ w = NoRow \/ "hash" \in DOMAIN w
         /\ HashChanges(g) => HasHash(g) /\ w # NoRow
         /\ row[g] # NoRow => w # NoRow
         /\ row[g] # NoRow /\ row[g].hash # None => w.hash # None
         /\ row[g] # NoRow /\ row[g].hash = None /\ ~HasHash(g) => w.hash = None
<1>1. Saved(g) # NoRow /\ "hash" \in DOMAIN Saved(g)
  <2>1. DOMAIN Saved(g) = {"day", "status", "guild", "hash"} /\ DOMAIN NoRow = {"day"}
    BY DEF Saved, NoRow
  <2> QED BY <2>1
<1>2. Saved(g).hash = IF job[g].hash # None \/ row[g] = NoRow THEN job[g].hash ELSE row[g].hash
  BY DEF Saved
<1>3. HashChanges(g) => HasHash(g)
  BY <1>2 DEF HashChanges, HasHash
<1>4. CASE w = Saved(g)
  BY <1>1, <1>2, <1>3, <1>4 DEF HasHash
<1>5. CASE IsSame(Saved(g), row[g]) /\ w = row[g]
  <2>1. row[g] # NoRow /\ [Saved(g) EXCEPT !.day = row[g].day] = row[g]
    BY <1>5 DEF IsSame
  <2>2. "hash" \in DOMAIN row[g]
    BY <2>1, <1>1
  <2> QED BY <1>3, <1>5, <2>1, <2>2
<1> QED BY <1>4, <1>5 DEF Stored

LEMMA SaveKeeps == ASSUME HandedInv, NEW g \in Guids, SaveCharacter(g) PROVE HandedInv'
<1> DEFINE h == IF HashChanges(g) THEN "due" ELSE handed[g]
<1>1. h \in Hands /\ handed' = [handed EXCEPT ![g] = h]
  BY DEF HandedInv, SaveCharacter, Hands
<1>2. PICK w \in Stored(g) : row' = [row EXCEPT ![g] = w]
  BY DEF SaveCharacter
<1>3. roster' = [roster EXCEPT ![g] = roster[g]]
  BY DEF HandedInv, SaveCharacter
<1>4. ScanKeeps(w, roster[g])
  BY GoodNow, StoredHash DEF Good, Kept, ScanKeeps
<1>5. h = "due" => w # NoRow
  BY GoodNow, StoredHash DEF Good, Kept
<1>6. CASE HasHash(g)
  <2> DEFINE r == [job[g] EXCEPT !.step = "hash"]
  <2>1. job' = [job EXCEPT ![g] = r] /\ "step" \in DOMAIN r /\ r.step = "hash"
    BY <1>6, GoodNow DEF SaveCharacter, GoTo, Good, Typed
  <2> HIDE DEF r, h
  <2>2. Good(r, w, roster[g], h)
    BY <2>1, <1>4, <1>5, GoodNow, StoredHash DEF Good, Typed, Kept, Running, Working
  <2> QED BY <1>1, <1>2, <1>3, <2>1, <2>2, OneMoves
<1>7. CASE ~HasHash(g)
  <2> DEFINE r == [step |-> "completed", msg |-> job[g].msg]
  <2>1. End(g, "completed", FeedStatus(job[g].status))
    BY <1>7 DEF SaveCharacter
  <2>2. job' = [job EXCEPT ![g] = r] /\ "step" \in DOMAIN r /\ r.step = "completed"
    BY <2>1 DEF End
  <2> HIDE DEF r
  <2>3. h = handed[g]
    BY <1>7, StoredHash
  <2>4. ~IsOwed(row[g], handed[g])
    BY <1>7, GoodNow DEF Good, Kept, HasHash, SaveCharacter, At
  <2>5. ~IsOwed(w, h)
    BY <1>7, <2>3, <2>4, GoodNow, StoredHash DEF IsOwed, Good, Kept
  <2> HIDE DEF h
  <2>6. Good(r, w, roster[g], h)
    BY <2>2, <2>5, <1>4, <1>5, GoodNow, StoredHash DEF Good, Typed, Kept, Working
  <2> QED BY <1>1, <1>2, <1>3, <2>2, <2>6, OneMoves
<1> QED BY <1>6, <1>7

LEMMA EnqueueKeeps == ASSUME HandedInv, NEW g \in Guids, EnqueueHashUpdate(g) PROVE HandedInv'
BY EndKeeps DEF EnqueueHashUpdate, Ended

LEMMA FailKeeps == ASSUME HandedInv, NEW g \in Guids, Fail(g) PROVE HandedInv'
<1> DEFINE tries == job[g].tries + 1
           r == [step |-> "waiting", msg |-> job[g].msg, tries |-> tries, stalls |-> job[g].stalls]
<1>1. UNCHANGED <<row, roster>>
  BY DEF Fail
<1>2. CASE MayRetry(tries)
  <2>1. job' = [job EXCEPT ![g] = r] /\ "step" \in DOMAIN r /\ r.step = "waiting" /\ UNCHANGED handed
    BY <1>2 DEF Fail
  <2> HIDE DEF r
  <2> QED BY <1>1, <2>1, EarlyIsGood, JobGoesOn
<1>3. CASE ~MayRetry(tries)
  <2>1. End(g, "failed", "error") /\ handed' = [handed EXCEPT ![g] = GivenUp(handed[g], "failed")]
    BY <1>3 DEF Fail, Lost, GivenUp
  <2> QED BY <1>1, <2>1, GivenUpIsNotDue, EndKeeps DEF Ended
<1> QED BY <1>2, <1>3

LEMMA EvictKeeps == ASSUME HandedInv, NEW g \in Guids, Evict(g) PROVE HandedInv'
<1>1. "step" \in DOMAIN NoJob /\ NoJob.step \notin Working
  BY DEF NoJob, Working
<1>2. ~IsOwed(row[g], handed[g])
  BY GoodNow DEF Evict, Good, Kept, Running, Ended
<1>3. handed[g] \in Hands
  BY DEF HandedInv
<1> QED BY <1>1, <1>2, <1>3, OverIsGood, JobGoesOn DEF Evict

LEMMA GetCharacterKeeps ==
  ASSUME HandedInv, NEW s, NEW g \in Guids, GetCharacter(s, g) PROVE HandedInv'
<1>1. PICK session \in {s, None} :
        IF row[g] = NoRow \/ IsStale(g) \/ session # None THEN Add(g, Requested(session)) ELSE UNCHANGED job
  BY DEF GetCharacter
<1>2. UNCHANGED <<row, roster, handed>>
  BY DEF GetCharacter
<1> QED BY <1>1, <1>2, AddKeeps, NothingMoves

(* The process dies: every job that ran waits again or is over. *)
LEMMA CrashKeeps == ASSUME HandedInv, Crash PROVE HandedInv'
<1>1. job' = [g \in Guids |-> job'[g]] /\ roster' = [g \in Guids |-> NoScan] /\ row' = row
  BY DEF Crash
<1>2. ASSUME NEW g \in Guids PROVE handed'[g] \in Hands /\ Good(job'[g], row[g], NoScan, handed'[g])
  <2>0. Good(job[g], row[g], NoScan, handed[g]) /\ handed[g] \in Hands
    BY GoodNow DEF Good, Typed, Kept, ScanKeeps, HandedInv
  <2>1. CASE job[g].step \notin Running
    BY <2>0, <2>1 DEF Crash
  <2>2. CASE job[g].step \in Running /\ job[g].stalls >= MaxStalledCount
    <3>1. job'[g] = [step |-> "stalled", msg |-> job[g].msg] /\ handed'[g] = Lost(g)[g]
      BY <2>2 DEF Crash
    <3>2. Lost(g)[g] = GivenUp(handed[g], "failed")
      BY DEF Lost, HandedInv, GivenUp
    <3>3. handed'[g] \in {"yes", "skipped", "failed"}
      BY <3>1, <3>2, GivenUpIsNotDue
    <3>4. "step" \in DOMAIN job'[g] /\ job'[g].step = "stalled"
      BY <3>1
    <3> QED BY <2>0, <3>3, <3>4 DEF Good, Typed, Kept, IsOwed, Working, Hands
  <2>3. CASE job[g].step \in Running /\ ~(job[g].stalls >= MaxStalledCount)
    <3>1. job'[g] = [step |-> "waiting", msg |-> job[g].msg, tries |-> job[g].tries, stalls |-> job[g].stalls + 1]
          /\ handed'[g] = handed[g]
      BY <2>3 DEF Crash
    <3>2. "step" \in DOMAIN job'[g] /\ job'[g].step = "waiting"
      BY <3>1
    <3> QED BY <2>0, <3>1, <3>2 DEF Good, Typed, Kept, Working
  <2> QED BY <2>1, <2>2, <2>3
<1>3. handed' = [g \in Guids |-> handed'[g]]
  BY DEF Crash
<1>4. row = [g \in Guids |-> row[g]]
  BY DEF HandedInv
<1> QED BY <1>1, <1>2, <1>3, <1>4 DEF HandedInv

-----------------------------------------------------------------------------
(* A roster marks the job whose row it wrote and leaves the rest of it.    *)
LEMMA OvertakenIsGood ==
  ASSUME HandedInv, NEW g \in Guids, job' = Overtake(g), NEW w, NEW s, Good(job[g], w, s, handed[g])
  PROVE  \E r : job' = [job EXCEPT ![g] = r] /\ Good(r, w, s, handed[g])
<1>1. CASE job[g].step \notin Running \ {"find"}
  <2>1. job' = [job EXCEPT ![g] = job[g]]
    BY <1>1 DEF Overtake, HandedInv
  <2> QED BY <2>1
<1>2. CASE job[g].step \in Running \ {"find"}
  <2> DEFINE r == [[job[g] EXCEPT !.overtaken = TRUE] EXCEPT !.late = job[g].step = "save"]
  <2>1. job' = [job EXCEPT ![g] = r]
    BY <1>2 DEF Overtake, HandedInv
  <2>2. DOMAIN r = DOMAIN job[g] /\ "step" \in DOMAIN r /\ r.step = job[g].step
    BY DEF Good, Typed
  <2>3. r.step \in Working => r.new = job[g].new /\ r.hadHash = job[g].hadHash
    BY <2>2 DEF Good, Typed
  <2> HIDE DEF r
  <2>4. Good(r, w, s, handed[g])
    BY <2>2, <2>3 DEF Good, Typed, Kept, Working
  <2> QED BY <2>1, <2>4
<1> QED BY <1>1, <1>2

LEMMA RosterWrites ==
  ASSUME HandedInv, NEW g \in Guids, job' = Overtake(g), NEW w, NEW s, Good(job[g], w, s, handed[g]),
         row' = [row EXCEPT ![g] = w], roster' = [roster EXCEPT ![g] = s], UNCHANGED handed
  PROVE  HandedInv'
<1>1. PICK r : job' = [job EXCEPT ![g] = r] /\ Good(r, w, s, handed[g])
  BY OvertakenIsGood
<1>2. handed[g] \in Hands /\ handed' = [handed EXCEPT ![g] = handed[g]]
  BY DEF HandedInv
<1> QED BY <1>1, <1>2, OneMoves

LEMMA ReadsKeep == ASSUME HandedInv, NEW g \in Guids, RosterReads(g) PROVE HandedInv'
<1>1. PICK guild : roster' = [roster EXCEPT ![g] = [step |-> "save", guild |-> guild, was |-> row[g]]]
  BY DEF RosterReads
<1> DEFINE s == [step |-> "save", guild |-> guild, was |-> row[g]]
<1>2. s.was = row[g]
  OBVIOUS
<1> HIDE DEF s
<1>3. Good(job[g], row[g], s, handed[g])
  BY <1>2, GoodNow DEF Good, Typed, Kept, ScanKeeps
<1>4. roster' = [roster EXCEPT ![g] = s]
  BY <1>1 DEF s
<1> QED BY <1>3, <1>4, ScanMoves DEF RosterReads

LEMMA LeavesRowKeeps == ASSUME HandedInv, NEW g \in Guids, RosterLeavesRow(g) PROVE HandedInv'
<1>1. Good(job[g], row[g], NoScan, handed[g])
  BY GoodNow DEF Good, Typed, Kept, ScanKeeps
<1> QED BY <1>1, ScanMoves DEF RosterLeavesRow

(* The hash a roster saves is the one it read, or the row's own.           *)
LEMMA EntityHash ==
  ASSUME NEW was, NEW guild, NEW now, NEW w \in RosterEntities(was, guild, now),
         was = NoRow \/ "hash" \in DOMAIN was
  PROVE  /\ w # NoRow /\ "hash" \in DOMAIN w
         /\ w.hash # None => IF was = NoRow THEN now # NoRow /\ now.hash # None ELSE was.hash # None
<1>1. CASE was = NoRow
  <2>1. w = [day |-> day, guild |-> MemberOf(guild),
             status |-> IF now = NoRow THEN None ELSE now.status, hash |-> IF now = NoRow THEN None ELSE now.hash]
    BY <1>1 DEF RosterEntities
  <2>2. DOMAIN w = {"day", "guild", "status", "hash"} /\ DOMAIN NoRow = {"day"}
    BY <2>1 DEF NoRow
  <2>3. w.hash = IF now = NoRow THEN None ELSE now.hash
    BY <2>1
  <2> QED BY <1>1, <2>2, <2>3
<1>2. CASE was # NoRow
  <2>1. \/ w = [was EXCEPT !.day = day, !.guild = MemberOf(guild)]
        \/ w = [was EXCEPT !.day = day, !.guild.rank = guild]
    BY <1>2 DEF RosterEntities
  <2>2. DOMAIN w = DOMAIN was /\ w.hash = was.hash
    BY <1>2, <2>1
  <2>3. DOMAIN NoRow = {"day"}
    BY DEF NoRow
  <2> QED BY <1>2, <2>2, <2>3
<1> QED BY <1>1, <1>2

LEMMA RosterSavesKeep == ASSUME HandedInv, NEW g \in Guids, RosterSaves(g) PROVE HandedInv'
<1>1. PICK w \in RosterEntities(roster[g].was, roster[g].guild, row[g]) : row' = [row EXCEPT ![g] = w]
  BY DEF RosterSaves
<1>2. roster[g] # NoScan /\ (roster[g].was = NoRow \/ "hash" \in DOMAIN roster[g].was)
  BY GoodNow DEF RosterSaves, Good, Typed
<1>3. w # NoRow /\ "hash" \in DOMAIN w /\ (w.hash # None => row[g] # NoRow /\ row[g].hash # None)
  BY <1>2, EntityHash, GoodNow DEF Good, Kept, ScanKeeps
<1>4. Good(job[g], w, NoScan, handed[g])
  BY <1>3, GoodNow DEF Good, Typed, Kept, IsOwed, ScanKeeps
<1> QED BY <1>1, <1>4, RosterWrites DEF RosterSaves

LEMMA ClearsKeep == ASSUME HandedInv, NEW g \in Guids, RosterClears(g) PROVE HandedInv'
<1> DEFINE w == [[row[g] EXCEPT !.guild = NoGuild] EXCEPT !.day = day]
<1>1. row' = [row EXCEPT ![g] = w]
  BY DEF RosterClears, HandedInv
<1>2. row[g] # NoRow /\ "hash" \in DOMAIN row[g]
  BY GoodNow DEF RosterClears, Good, Typed
<1>3. DOMAIN w = DOMAIN row[g] /\ w.hash = row[g].hash
  BY <1>2
<1>4. w # NoRow
  <2>1. DOMAIN NoRow = {"day"}
    BY DEF NoRow
  <2> QED BY <2>1, <1>2, <1>3
<1> HIDE DEF w
<1>5. Good(job[g], w, roster[g], handed[g])
  BY <1>2, <1>3, <1>4, GoodNow DEF Good, Typed, Kept, IsOwed, ScanKeeps
<1>6. roster' = [roster EXCEPT ![g] = roster[g]]
  BY DEF RosterClears, HandedInv
<1> QED BY <1>1, <1>5, <1>6, RosterWrites DEF RosterClears

-----------------------------------------------------------------------------
(* plan.guids is a subset of Guids: the instances are those of Plans. *)
PlanInv == plan \in Plans

LEMMA StepsKeep == ASSUME PlanInv, HandedInv, [Next]_vars PROVE HandedInv' /\ PlanInv'
<1>1. PlanInv'
  BY DEF PlanInv, Next, vars, Work, Rosters, Send, Evict, Take, Skip, FindOrCreateCharacter, FetchStatusOnly,
    FetchAndUpdateCharacterData, DiffAndLogChanges, Reread, SaveCharacter, EnqueueHashUpdate, Fail,
    RosterReads, RosterSaves, RosterLeavesRow, RosterClears, Connect, Close, GetEnds, AskAgain,
    GetCharacter, GetUnavailable, Crash, NextDay
<1>2. plan.guids \subseteq Guids
  BY PlansAssumption DEF PlanInv
<1>3. ASSUME NEW g \in Guids, Send(g) \/ Evict(g) PROVE HandedInv'
  BY <1>3, AddKeeps, EvictKeeps DEF Send
<1>4. ASSUME NEW g \in Guids, Work(g) PROVE HandedInv'
  BY <1>4, TakeKeeps, SkipKeeps, FindKeeps, StatusKeeps, FetchKeeps, DiffKeeps, RereadKeeps, SaveKeeps,
    EnqueueKeeps, FailKeeps DEF Work
<1>5. ASSUME NEW g \in Guids, Rosters(g) PROVE HandedInv'
  BY <1>5, ReadsKeep, LeavesRowKeeps, RosterSavesKeep, ClearsKeep DEF Rosters
<1>6. ASSUME NEW s, Connect(s) \/ Close(s) \/ GetEnds(s) \/ AskAgain(s) PROVE HandedInv'
  BY <1>6, NothingMoves DEF Connect, Close, GetEnds, AskAgain
<1>7. ASSUME NEW s, NEW g \in Guids, GetCharacter(s, g) \/ GetUnavailable(s, g) PROVE HandedInv'
  <2>1. CASE GetCharacter(s, g)
    BY <2>1, GetCharacterKeeps
  <2>2. CASE GetUnavailable(s, g)
    BY <2>2, NothingMoves DEF GetUnavailable
  <2> QED BY <1>7, <2>1, <2>2
<1>8. ASSUME NextDay \/ UNCHANGED vars PROVE HandedInv'
  BY <1>8, NothingMoves DEF NextDay, vars
<1>9. HandedInv'
  BY <1>2, <1>3, <1>4, <1>5, <1>6, <1>7, <1>8, CrashKeeps DEF Next
<1> QED BY <1>1, <1>9

(* As long as the row holds a changed hash that a job saved, the hash has  *)
(* reached osint.hash, or the job is still to be worked on, or the attempt *)
(* that saved it ended in between (characters.worker.ts:140-149), whatever *)
(* rosters, sessions, failures and crashes come between.                   *)
THEOREM HashesAreHandedOn == Spec => []HashIsHandedOn
<1>1. Init => PlanInv /\ HandedInv
  BY HandedInit DEF Init, PlanInv
<1>2. PlanInv /\ HandedInv /\ [Next]_vars => (PlanInv /\ HandedInv)'
  BY StepsKeep
<1>3. HandedInv => HashIsHandedOn
  BY GoodNow DEF HashIsHandedOn, Good, Kept, IsOwed
<1> QED BY <1>1, <1>2, <1>3, PTL DEF Spec

-----------------------------------------------------------------------------
(* The guild of a row that a roster wrote while the job asked.             *)

HasFields(r) == r.step \in Working => {"step", "new", "overtaken", "late", "guild"} \subseteq DOMAIN r

(* What a known character's job is about to save has the guild of the row, *)
(* if someone wrote that row before the job's last look and nobody since.  *)
Agrees(r, w) == r.step = "save" /\ ~r.new /\ r.overtaken /\ ~r.late => r.guild = w.guild

GuildInv == \A g \in Guids : HasFields(job[g]) /\ Agrees(job[g], row[g])

LEMMA GuildMoves ==
  ASSUME HandedInv, GuildInv, NEW g \in Guids, NEW r, NEW w, HasFields(r), Agrees(r, w),
         job' = [job EXCEPT ![g] = r], row' = [row EXCEPT ![g] = w]
  PROVE  GuildInv'
<1> SUFFICES ASSUME NEW k \in Guids PROVE HasFields(job'[k]) /\ Agrees(job'[k], row'[k])
  BY DEF GuildInv
<1>1. CASE k = g
  BY <1>1 DEF HandedInv
<1>2. CASE k # g
  <2>1. job'[k] = job[k] /\ row'[k] = row[k]
    BY <1>2 DEF HandedInv
  <2> QED BY <2>1 DEF GuildInv
<1> QED BY <1>1, <1>2

LEMMA GuildOfJob ==
  ASSUME HandedInv, GuildInv, NEW g \in Guids, NEW r, HasFields(r), Agrees(r, row[g]),
         job' = [job EXCEPT ![g] = r], UNCHANGED row
  PROVE  GuildInv'
<1>1. row' = [row EXCEPT ![g] = row[g]]
  BY DEF HandedInv
<1> QED BY <1>1, GuildMoves

LEMMA GuildRests == ASSUME GuildInv, UNCHANGED <<job, row>> PROVE GuildInv'
BY DEF GuildInv

(* A job that is not at work has no guild to agree about.                  *)
LEMMA NotAtWork == ASSUME NEW r, r.step \notin Working, NEW w PROVE HasFields(r) /\ Agrees(r, w)
BY DEF HasFields, Agrees, Working

LEMMA GuildAdd ==
  ASSUME HandedInv, GuildInv, NEW g \in Guids, NEW message, Add(g, message), UNCHANGED row PROVE GuildInv'
<1> DEFINE r == [step |-> "waiting", msg |-> message, tries |-> 0, stalls |-> 0]
<1>1. r.step \notin Working
  BY DEF Working
<1>2. job' = [job EXCEPT ![g] = r] \/ job' = job
  BY DEF Add
<1> HIDE DEF r
<1> QED BY <1>1, <1>2, NotAtWork, GuildOfJob, GuildRests

LEMMA GuildEnd ==
  ASSUME HandedInv, GuildInv, NEW g \in Guids, NEW step \in Ended, NEW phase, End(g, step, phase), UNCHANGED row
  PROVE  GuildInv'
<1> DEFINE r == [step |-> step, msg |-> job[g].msg]
<1>1. r.step \notin Working /\ job' = [job EXCEPT ![g] = r]
  BY DEF Working, Ended, End
<1> HIDE DEF r
<1> QED BY <1>1, NotAtWork, GuildOfJob

LEMMA GuildFind ==
  ASSUME HandedInv, GuildInv, NEW g \in Guids, Take(g) \/ FindOrCreateCharacter(g) \/ Evict(g) PROVE GuildInv'
<1>1. CASE Take(g)
  <2> DEFINE r == [job[g] EXCEPT !.step = "find"]
  <2>1. job' = [job EXCEPT ![g] = r] /\ r.step \notin Working
    BY <1>1, GoodNow DEF Take, GoTo, Good, Typed, Working
  <2> HIDE DEF r
  <2> QED BY <1>1, <2>1, NotAtWork, GuildOfJob DEF Take
<1>2. CASE FindOrCreateCharacter(g)
  <2> DEFINE m == job[g].msg
             r == [step |-> "fetch", msg |-> m, tries |-> job[g].tries, stalls |-> job[g].stalls,
                   new |-> row[g] = NoRow, hadHash |-> FALSE,
                   overtaken |-> FALSE, late |-> FALSE,
                   status |-> NothingAsked,
                   guild |-> IF row[g] = NoRow THEN m.guild ELSE Inherit(row[g].guild, m),
                   hash |-> IF row[g] = NoRow THEN m.hash ELSE InheritHash(row[g].hash, m)]
  <2>1. job' = [job EXCEPT ![g] = r] /\ UNCHANGED row
    BY <1>2 DEF FindOrCreateCharacter
  <2>2. {"step", "new", "overtaken", "late", "guild"} \subseteq DOMAIN r /\ r.step = "fetch"
    OBVIOUS
  <2> HIDE DEF r
  <2>3. HasFields(r) /\ Agrees(r, row[g])
    BY <2>2 DEF HasFields, Agrees
  <2> QED BY <2>1, <2>3, GuildOfJob
<1>3. CASE Evict(g)
  <2>1. NoJob.step \notin Working
    BY DEF NoJob, Working
  <2> QED BY <1>3, <2>1, NotAtWork, GuildOfJob DEF Evict
<1> QED BY <1>1, <1>2, <1>3

(* Only a new character is saved as it was fetched.                        *)
LEMMA GuildFetched ==
  ASSUME HandedInv, GuildInv, NEW g \in Guids, FetchStatusOnly(g) \/ FetchAndUpdateCharacterData(g) PROVE GuildInv'
<1>1. PICK status, guild, hash :
        job' = [job EXCEPT ![g] = [[[[job[g] EXCEPT !.step = AfterFetch(g)] EXCEPT !.status = status]
                                     EXCEPT !.guild = guild] EXCEPT !.hash = hash]]
        \/ job' = [job EXCEPT ![g] = [[job[g] EXCEPT !.step = AfterFetch(g)] EXCEPT !.status = status]]
  <2>1. CASE FetchStatusOnly(g)
    BY <2>1 DEF FetchStatusOnly, HandedInv
  <2>2. CASE FetchAndUpdateCharacterData(g)
    <3>1. PICK answers \in Answers :
            \E guild \in Summaries(answers["SUMMARY"], job[g].guild), hash \in PetHashes(answers["PETS"]) :
              job' = [job EXCEPT ![g].step = AfterFetch(g), ![g].status = ProcessResults(answers),
                                 ![g].guild = guild, ![g].hash = hash]
      BY <2>2 DEF FetchAndUpdateCharacterData
    <3>2. PICK guild, hash :
            job' = [job EXCEPT ![g].step = AfterFetch(g), ![g].status = ProcessResults(answers),
                               ![g].guild = guild, ![g].hash = hash]
      BY <3>1
    <3>3. job' = [job EXCEPT ![g] = [[[[job[g] EXCEPT !.step = AfterFetch(g)] EXCEPT !.status = ProcessResults(answers)]
                                         EXCEPT !.guild = guild] EXCEPT !.hash = hash]]
      BY <3>2 DEF HandedInv
    <3> QED BY <3>3, Zenon
  <2> QED BY <2>1, <2>2
<1> DEFINE all == [[[[job[g] EXCEPT !.step = AfterFetch(g)] EXCEPT !.status = status] EXCEPT !.guild = guild]
                    EXCEPT !.hash = hash]
           one == [[job[g] EXCEPT !.step = AfterFetch(g)] EXCEPT !.status = status]
<1>2. {"step", "new", "overtaken", "late", "guild"} \subseteq DOMAIN job[g]
  BY DEF FetchStatusOnly, FetchAndUpdateCharacterData, At, Working, GuildInv, HasFields
<1>3. \A r \in {all, one} : /\ {"step", "new", "overtaken", "late", "guild"} \subseteq DOMAIN r
                           /\ r.step = AfterFetch(g) /\ r.new = job[g].new
  BY <1>2
<1>4. (\E r \in {all, one} : job' = [job EXCEPT ![g] = r]) /\ UNCHANGED row
  BY <1>1 DEF FetchStatusOnly, FetchAndUpdateCharacterData
<1> HIDE DEF all, one
<1>5. \A r \in {all, one} : HasFields(r) /\ Agrees(r, row[g])
  BY <1>3 DEF AfterFetch, HasFields, Agrees
<1> QED BY <1>4, <1>5, GuildOfJob

(* The last look at the row takes the guild that someone else wrote.       *)
LEMMA GuildReread ==
  ASSUME HandedInv, GuildInv, NEW g \in Guids, DiffAndLogChanges(g) \/ Reread(g) PROVE GuildInv'
<1>1. {"step", "new", "overtaken", "late", "guild"} \subseteq DOMAIN job[g] /\ UNCHANGED row
  BY DEF DiffAndLogChanges, Reread, At, Working, GuildInv, HasFields
<1>2. CASE DiffAndLogChanges(g)
  <2> DEFINE guild == IF HasGuildChanged(row[g].guild, job[g].guild) THEN NoGuild ELSE job[g].guild
             r == [[[job[g] EXCEPT !.step = "reread"] EXCEPT !.hadHash = row[g].hash # None] EXCEPT !.guild = guild]
  <2>1. job' = [job EXCEPT ![g] = r]
    BY <1>2 DEF HandedInv, DiffAndLogChanges
  <2>2. {"step", "new", "overtaken", "late", "guild"} \subseteq DOMAIN r /\ r.step = "reread"
    BY <1>1
  <2> HIDE DEF r
  <2>3. HasFields(r) /\ Agrees(r, row[g])
    BY <2>2 DEF HasFields, Agrees
  <2> QED BY <1>1, <2>1, <2>3, GuildOfJob
<1>3. CASE Reread(g)
  <2> DEFINE guild == IF job[g].overtaken THEN row[g].guild ELSE job[g].guild
             r == [[job[g] EXCEPT !.step = "save"] EXCEPT !.guild = guild]
  <2>1. job' = [job EXCEPT ![g] = r]
    BY <1>3 DEF HandedInv, Reread
  <2>2. /\ {"step", "new", "overtaken", "late", "guild"} \subseteq DOMAIN r
        /\ r.overtaken = job[g].overtaken /\ r.guild = guild
    BY <1>1
  <2> HIDE DEF r
  <2>3. r.overtaken => r.guild = row[g].guild
    BY <2>2
  <2>4. HasFields(r) /\ Agrees(r, row[g])
    BY <2>2, <2>3 DEF HasFields, Agrees
  <2> QED BY <1>1, <2>1, <2>4, GuildOfJob
<1> QED BY <1>2, <1>3

LEMMA GuildSaved ==
  ASSUME HandedInv, GuildInv, NEW g \in Guids, SaveCharacter(g)
  PROVE  GuildInv' /\ job'[g].step # "save"
<1>1. PICK w : row' = [row EXCEPT ![g] = w]
  BY DEF SaveCharacter
<1>2. \E r : job' = [job EXCEPT ![g] = r] /\ r.step \notin Working
  <2> DEFINE on == [job[g] EXCEPT !.step = "hash"]
             over == [step |-> "completed", msg |-> job[g].msg]
  <2>1. job' = [job EXCEPT ![g] = on] \/ job' = [job EXCEPT ![g] = over]
    BY DEF SaveCharacter, GoTo, End, HandedInv
  <2>2. on.step \notin Working /\ over.step \notin Working
    BY GoodNow DEF Working, Good, Typed
  <2> HIDE DEF on, over
  <2> QED BY <2>1, <2>2
<1>3. PICK r : job' = [job EXCEPT ![g] = r] /\ r.step \notin Working
  BY <1>2
<1>4. job'[g].step # "save"
  BY <1>3 DEF HandedInv, Working
<1> QED BY <1>1, <1>3, <1>4, NotAtWork, GuildMoves

LEMMA GuildFails == ASSUME HandedInv, GuildInv, NEW g \in Guids, Fail(g) PROVE GuildInv'
<1> DEFINE r == [step |-> "waiting", msg |-> job[g].msg, tries |-> job[g].tries + 1, stalls |-> job[g].stalls]
<1>1. r.step \notin Working /\ UNCHANGED row
  BY DEF Working, Fail
<1>2. job' = [job EXCEPT ![g] = r] \/ End(g, "failed", "error")
  BY DEF Fail
<1> HIDE DEF r
<1> QED BY <1>1, <1>2, NotAtWork, GuildOfJob, GuildEnd DEF Ended

LEMMA GuildCrash == ASSUME HandedInv, GuildInv, Crash PROVE GuildInv'
<1> SUFFICES ASSUME NEW g \in Guids PROVE HasFields(job'[g]) /\ Agrees(job'[g], row'[g])
  BY DEF GuildInv
<1>1. row' = row
  BY DEF Crash
<1>2. CASE job[g].step \notin Running
  <2>1. job'[g] = job[g]
    BY <1>2 DEF Crash
  <2> QED BY <1>1, <2>1 DEF GuildInv
<1>3. CASE job[g].step \in Running
  <2>1. job'[g].step \in {"stalled", "waiting"}
    BY <1>3 DEF Crash
  <2> QED BY <2>1, NotAtWork DEF Working
<1> QED BY <1>2, <1>3

(* Who writes the row marks the job as overtaken, and as too late for it   *)
(* to notice when it has had its last look.                                *)
LEMMA GuildOvertaken ==
  ASSUME HandedInv, GuildInv, NEW g \in Guids, job' = Overtake(g), NEW w, row' = [row EXCEPT ![g] = w]
  PROVE  GuildInv' /\ (job[g].step = "save" => job'[g].step = "save")
<1>1. CASE job[g].step \notin Running \ {"find"}
  <2>1. job' = [job EXCEPT ![g] = job[g]]
    BY <1>1 DEF Overtake, HandedInv
  <2>2. job[g].step \notin Working
    BY <1>1 DEF Running, Working
  <2> QED BY <2>1, <2>2, NotAtWork, GuildMoves DEF Working
<1>2. CASE job[g].step \in Running \ {"find"}
  <2> DEFINE r == [[job[g] EXCEPT !.overtaken = TRUE] EXCEPT !.late = job[g].step = "save"]
  <2>1. job' = [job EXCEPT ![g] = r]
    BY <1>2 DEF Overtake, HandedInv
  <2>2. DOMAIN r = DOMAIN job[g] /\ "step" \in DOMAIN r /\ r.step = job[g].step
    BY GoodNow DEF Good, Typed
  <2>3. "late" \in DOMAIN job[g] => r.late = (job[g].step = "save")
    OBVIOUS
  <2> HIDE DEF r
  <2>4. HasFields(r)
    BY <2>2 DEF GuildInv, HasFields
  <2>5. r.step = "save" => r.late
    BY <2>2, <2>3, <2>4 DEF HasFields, Working
  <2>6. job'[g] = r
    BY <2>1 DEF HandedInv
  <2> QED BY <2>1, <2>2, <2>4, <2>5, <2>6, GuildMoves DEF Agrees
<1> QED BY <1>1, <1>2

LEMMA GuildRosters ==
  ASSUME HandedInv, GuildInv, NEW g \in Guids, Rosters(g)
  PROVE  GuildInv' /\ (job[g].step = "save" /\ row' # row => job'[g].step = "save")
<1>1. CASE RosterReads(g) \/ RosterLeavesRow(g)
  BY <1>1, GuildRests DEF RosterReads, RosterLeavesRow
<1>2. CASE RosterSaves(g)
  BY <1>2, GuildOvertaken DEF RosterSaves
<1>3. CASE RosterClears(g)
  <2> DEFINE w == [[row[g] EXCEPT !.guild = NoGuild] EXCEPT !.day = day]
  <2>1. row' = [row EXCEPT ![g] = w] /\ job' = Overtake(g)
    BY <1>3 DEF RosterClears, HandedInv
  <2> HIDE DEF w
  <2> QED BY <2>1, GuildOvertaken
<1> QED BY <1>1, <1>2, <1>3 DEF Rosters

LEMMA GuildSteps == ASSUME PlanInv, HandedInv, GuildInv, [Next]_vars PROVE GuildInv'
<1>1. plan.guids \subseteq Guids
  BY PlansAssumption DEF PlanInv
<1>2. ASSUME NEW g \in Guids, Send(g) \/ Evict(g) PROVE GuildInv'
  BY <1>2, GuildAdd, GuildFind DEF Send
<1>3. ASSUME NEW g \in Guids, Work(g) PROVE GuildInv'
  <2>1. CASE Skip(g)
    BY <2>1, GuildEnd DEF Skip, Ended
  <2>2. CASE EnqueueHashUpdate(g)
    BY <2>2, GuildEnd DEF EnqueueHashUpdate, Ended
  <2> QED BY <1>3, <2>1, <2>2, GuildFind, GuildFetched, GuildReread, GuildSaved, GuildFails DEF Work
<1>4. ASSUME NEW g \in Guids, Rosters(g) PROVE GuildInv'
  BY <1>4, GuildRosters
<1>5. ASSUME NEW s, Connect(s) \/ Close(s) \/ GetEnds(s) \/ AskAgain(s) PROVE GuildInv'
  BY <1>5, GuildRests DEF Connect, Close, GetEnds, AskAgain
<1>6. ASSUME NEW s, NEW g \in Guids, GetCharacter(s, g) \/ GetUnavailable(s, g) PROVE GuildInv'
  <2>1. CASE GetCharacter(s, g)
    BY <2>1, GuildAdd, GuildRests DEF GetCharacter
  <2>2. CASE GetUnavailable(s, g)
    BY <2>2, GuildRests DEF GetUnavailable
  <2> QED BY <1>6, <2>1, <2>2
<1>7. ASSUME NextDay \/ UNCHANGED vars PROVE GuildInv'
  BY <1>7, GuildRests DEF NextDay, vars
<1> QED BY <1>1, <1>2, <1>3, <1>4, <1>5, <1>6, <1>7, GuildCrash DEF Next

(* A save changes the row of its own character, to what is kept of it.     *)
LEMMA SavedGuild ==
  ASSUME HandedInv, NEW g \in Guids, SaveCharacter(g)
  PROVE  row'[g] = row[g] \/ row'[g].guild = job[g].guild
<1>1. PICK w \in Stored(g) : row' = [row EXCEPT ![g] = w]
  BY DEF SaveCharacter
<1>2. row'[g] = w /\ (w = Saved(g) \/ w = row[g])
  BY <1>1 DEF Stored, HandedInv
<1> QED BY <1>2 DEF Saved

(* Whoever writes a row: the character's own save, or its roster.          *)
LEMMA RowWriters ==
  ASSUME PlanInv, HandedInv, [Next]_vars, NEW g \in Guids, row'[g] # row[g] PROVE SaveCharacter(g) \/ Rosters(g)
<1>1. ASSUME NEW k \in plan.guids, k # g, SaveCharacter(k) \/ RosterSaves(k) \/ RosterClears(k) PROVE FALSE
  BY <1>1 DEF HandedInv, SaveCharacter, RosterSaves, RosterClears
<1>2. \E k \in plan.guids : SaveCharacter(k) \/ RosterSaves(k) \/ RosterClears(k)
  BY DEF Next, vars, Work, Rosters, Send, Evict, Take, Skip, FindOrCreateCharacter, FetchStatusOnly,
    FetchAndUpdateCharacterData, DiffAndLogChanges, Reread, EnqueueHashUpdate, Fail,
    RosterReads, RosterLeavesRow, Connect, Close, GetEnds, AskAgain,
    GetCharacter, GetUnavailable, Crash, NextDay
<1> QED BY <1>1, <1>2 DEF Rosters

(* A guild that a roster wrote while the job asked Battle.net survives the *)
(* job's save, unless it was written after the job's last look at the row  *)
(* (characters.worker.ts:131-140).                                         *)
THEOREM RostersPrevail == Spec => RosterPrevails
<1>1. PlanInv /\ HandedInv /\ GuildInv /\ [Next]_vars =>
        [\A g \in Guids :
           At(g, "save") /\ ~job[g].new /\ job[g].overtaken /\ ~job[g].late /\ row'[g] # row[g] /\ job'[g].step # "save"
             => row'[g].guild = row[g].guild]_vars
  <2> SUFFICES ASSUME PlanInv, HandedInv, GuildInv, [Next]_vars, NEW g \in Guids, At(g, "save"), ~job[g].new,
                      job[g].overtaken, ~job[g].late, row'[g] # row[g], job'[g].step # "save"
               PROVE  row'[g].guild = row[g].guild
    OBVIOUS
  <2>1. SaveCharacter(g)
    BY RowWriters, GuildRosters DEF At
  <2>2. job[g].guild = row[g].guild
    BY DEF GuildInv, Agrees, At
  <2> QED BY <2>1, <2>2, SavedGuild
<1>2. Init => PlanInv /\ HandedInv /\ GuildInv
  <2>1. Init => GuildInv
    <3>1. NoJob.step \notin Working
      BY DEF NoJob, Working
    <3> QED BY <3>1, NotAtWork DEF Init, GuildInv
  <2> QED BY <2>1, HandedInit DEF Init, PlanInv
<1>3. PlanInv /\ HandedInv /\ GuildInv /\ [Next]_vars => (PlanInv /\ HandedInv /\ GuildInv)'
  BY StepsKeep, GuildSteps
<1>4. Spec => [](PlanInv /\ HandedInv /\ GuildInv)
  BY <1>2, <1>3, PTL DEF Spec
<1> QED BY <1>1, <1>4, PTL DEF Spec, RosterPrevails
=============================================================================
