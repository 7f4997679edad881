------------------------------ MODULE Ladders ------------------------------
(***************************************************************************)
(* apps/ladder's LadderService: the crons and the boot ask Battle.net for  *)
(* the leaderboards of PvP seasons and of Mythic+ weeks and give their     *)
(* characters to osint.characters.  A marker in Redis keeps what is done   *)
(* from being asked again for a week: a bracket's of a season for itself,  *)
(* a realm's dungeon for all its weeks.                                    *)
(***************************************************************************)
EXTENDS Naturals, FiniteSets

CONSTANTS LadderWorlds, \* the instances to check: see LaddersAssumption
          Parallel      \* M_PLUS_PARALLEL_REQUESTS: 3

(* An instance: the runs there are, the requests of either ladder, and how *)
(* often a call fails and the process restarts.  A request has a marker, a *)
(* season, the board's groups of characters, and Battle.net knows it or    *)
(* does not.                                                               *)
ASSUME LaddersAssumption ==
  /\ Parallel \in Nat \ {0}
  /\ \A w \in LadderWorlds :
       /\ DOMAIN w = {"requests", "runs", "failures", "restarts"}
       /\ \A r \in w.requests : DOMAIN r = {"ladder", "marker", "season", "known", "groups"}
       /\ w.runs \subseteq {"boot", "cron"} /\ {w.failures, w.restarts} \subseteq Nat

VARIABLES ladder,     \* the instance, with what is left of its counters
          starting,   \* what onApplicationBootstrap still has to run
          indexing,   \* indexing[x]: the run of the boot, or of a cron
          inFlight,   \* the requests that are worked on
          markers,    \* the keys in Redis
          queued,     \* the groups that were given to the queue
          misread     \* the requests that met an error with "404" in its text

ladderVars == <<ladder, starting, indexing, inFlight, markers, queued, misread>>

LadderRuns == {"boot", "cron"}
NoIndexing == [ladder |-> "none", todo |-> {}]

LaddersInit ==
  /\ ladder \in LadderWorlds
  /\ starting = {"mplus", "pvp"}
  /\ indexing = [x \in LadderRuns |-> NoIndexing]
  /\ inFlight = {} /\ markers = {} /\ queued = {} /\ misread = {}

-----------------------------------------------------------------------------
IsIdle(x) == indexing[x] = NoIndexing

(* bootstrap awaits the Mythic+ ladder before the PvP ladder. *)
MayStart(x, which) ==
  x = "boot" => which \in starting /\ (which = "pvp" => "mplus" \notin starting)

(* buildLeaderboardRequests: what is to be asked of the seasons read. *)
RequestsOf(which, seasons) == {r \in ladder.requests : r.ladder = which /\ r.season \in seasons}
SeasonsOf(which) == {r.season : r \in {r \in ladder.requests : r.ladder = which}}

Index(x, which, seasons) ==
  /\ IsIdle(x) /\ MayStart(x, which)
  /\ indexing' = [indexing EXCEPT ![x] = [ladder |-> which, todo |-> RequestsOf(which, seasons)]]
  /\ starting' = IF x = "boot" THEN starting \ {which} ELSE starting
  /\ UNCHANGED <<ladder, inFlight, markers, queued, misread>>

(* The PvP seasons come in one answer, which fails as a whole. *)
IndexPvPLadder(x) == \E read \in {{}, SeasonsOf("pvp")} : Index(x, "pvp", read)

(* fetchExpansionWeeks leaves out the seasons that cannot be read. *)
IndexMythicPlusLadder(x) == \E read \in SUBSET SeasonsOf("mplus") : Index(x, "mplus", read)

AtOnce(x) == IF indexing[x].ladder = "mplus" THEN Parallel ELSE 1
FlightsOf(x) == {i \in inFlight : i.run = x}

Moves(i, j) == inFlight' = (inFlight \ {i}) \cup {j}
Lands(i) == inFlight' = inFlight \ {i}

Begin(x) ==
  /\ Cardinality(FlightsOf(x)) < AtOnce(x)
  /\ \E r \in indexing[x].todo :
       /\ indexing' = [indexing EXCEPT ![x].todo = @ \ {r}]
       /\ inFlight' = inFlight \cup {[run |-> x, request |-> r, step |-> "exists", left |-> {}]}
  /\ UNCHANGED <<ladder, starting, markers, queued, misread>>

IsMarked(i) ==
  /\ i.step = "exists" /\ i.request.marker \in markers
  /\ Lands(i)
  /\ UNCHANGED <<ladder, starting, indexing, markers, queued, misread>>

IsNotMarked(i) ==
  /\ i.step = "exists" /\ i.request.marker \notin markers
  /\ Moves(i, [i EXCEPT !.step = "fetch"])
  /\ UNCHANGED <<ladder, starting, indexing, markers, queued, misread>>

(* An empty board is marked at once. *)
FetchBoard(i) ==
  /\ i.step = "fetch" /\ i.request.known
  /\ Moves(i, [i EXCEPT !.step = IF i.request.groups = {} THEN "mark" ELSE "queue", !.left = i.request.groups])
  /\ UNCHANGED <<ladder, starting, indexing, markers, queued, misread>>

(* 404: a Mythic+ board is marked, a PvP board is left for the next run. *)
NotFound(i) ==
  /\ i.step = "fetch" /\ ~i.request.known
  /\ IF i.request.ladder = "mplus" THEN Moves(i, [i EXCEPT !.step = "missing"]) ELSE Lands(i)
  /\ UNCHANGED <<ladder, starting, indexing, markers, queued, misread>>

(* The entries of a bracket are added by one addBulk. *)
AddEntries(i) ==
  /\ i.step = "queue" /\ i.request.ladder = "pvp"
  /\ queued' = queued \cup i.left
  /\ Moves(i, [i EXCEPT !.step = "mark", !.left = {}])
  /\ UNCHANGED <<ladder, starting, indexing, markers, misread>>

(* Those of a dungeon are added group by group. *)
AddGroup(i) ==
  /\ i.step = "queue" /\ i.request.ladder = "mplus"
  /\ \E g \in i.left :
       /\ queued' = queued \cup {g}
       /\ Moves(i, IF i.left = {g} THEN [i EXCEPT !.step = "mark", !.left = {}] ELSE [i EXCEPT !.left = @ \ {g}])
  /\ UNCHANGED <<ladder, starting, indexing, markers, misread>>

MarkAsProcessed(i) ==
  /\ i.step \in {"mark", "missing"}
  /\ markers' = markers \cup {i.request.marker}
  /\ Lands(i)
  /\ UNCHANGED <<ladder, starting, indexing, queued, misread>>

\* mutant: a board that failed is marked, too
FailAndMark(i) ==
  /\ ladder.failures > 0
  /\ ladder' = [ladder EXCEPT !.failures = @ - 1]
  /\ Moves(i, [i EXCEPT !.step = "mark", !.left = {}])
  /\ UNCHANGED <<starting, indexing, markers, queued, misread>>

(* Another error, of whatever call: the next request goes on.  One with    *)
(* "404" in its text is taken for a Mythic+ board that is not there.       *)
FailRequest(i) ==
  /\ ladder.failures > 0 /\ i.step # "missing"
  /\ ladder' = [ladder EXCEPT !.failures = @ - 1]
  /\ \/ Lands(i) /\ UNCHANGED misread
     \/ /\ i.request.ladder = "mplus"
        /\ misread' = misread \cup {i.request}
        /\ Moves(i, [i EXCEPT !.step = "missing"])
  /\ UNCHANGED <<starting, indexing, markers, queued>>

(* To mark a missing board is out of the try: where that fails, the run    *)
(* begins no further request, and those in flight go on by themselves.     *)
MarkMissingFails(i) ==
  /\ ladder.failures > 0 /\ i.step = "missing"
  /\ ladder' = [ladder EXCEPT !.failures = @ - 1]
  /\ indexing' = [x \in LadderRuns |-> IF x = i.run THEN NoIndexing ELSE indexing[x]]
  /\ inFlight' = {IF j.run = i.run THEN [j EXCEPT !.run = "left"] ELSE j : j \in inFlight \ {i}}
  /\ UNCHANGED <<starting, markers, queued, misread>>

IndexingEnds(x) ==
  /\ ~IsIdle(x) /\ indexing[x].todo = {} /\ FlightsOf(x) = {}
  /\ indexing' = [indexing EXCEPT ![x] = NoIndexing]
  /\ UNCHANGED <<ladder, starting, inFlight, markers, queued, misread>>

(* setex: a week. *)
ExpireMarker ==
  /\ \E m \in markers : markers' = markers \ {m}
  /\ UNCHANGED <<ladder, starting, indexing, inFlight, queued, misread>>

RestartLadder ==
  /\ ladder.restarts > 0
  /\ ladder' = [ladder EXCEPT !.restarts = @ - 1]
  /\ starting' = {"mplus", "pvp"}
  /\ indexing' = [x \in LadderRuns |-> NoIndexing] /\ inFlight' = {}
  /\ UNCHANGED <<markers, queued, misread>>

LaddersNext ==
  \/ \E x \in ladder.runs : IndexPvPLadder(x) \/ IndexMythicPlusLadder(x) \/ Begin(x) \/ IndexingEnds(x)
  \/ \E i \in inFlight : \/ IsMarked(i) \/ IsNotMarked(i) \/ FetchBoard(i) \/ NotFound(i)
                         \/ AddEntries(i) \/ AddGroup(i) \/ MarkAsProcessed(i) \/ FailRequest(i) \/ MarkMissingFails(i)
  \/ ExpireMarker \/ RestartLadder

LaddersSpec == LaddersInit /\ [][LaddersNext]_ladderVars

-----------------------------------------------------------------------------
(* What a marker keeps from being asked again was given to the queue in    *)
(* full: the bracket's entries, and of a realm's dungeon every group of    *)
(* at least one week, unless Battle.net knows no board of that week or an  *)
(* error had "404" in its text.  No other failure of a group, no restart   *)
(* and no second run marks half a board (ladder.service.ts:123-131,        *)
(* 427-453).                                                               *)
MarkedBoardsAreQueued ==
  \A m \in markers : \E r \in ladder.requests :
    r.marker = m /\ (r.groups \subseteq queued \/ (~r.known /\ r.ladder = "mplus") \/ r \in misread)
=============================================================================
