--------------------------- MODULE Platform_proofs ---------------------------
(***************************************************************************)
(* Proofs about what the crons of the platform leave behind, for any       *)
(* instances, failures and restarts: that the ladders' markers are true,   *)
(* and that a boot which got through has queued every file of ranks.       *)
(***************************************************************************)
EXTENDS Ladders, RankFiles, Snapshots, SequenceTheorems, TLAPS

(***************************************************************************)
(* Ladders: for any number of requests at once.                            *)
(***************************************************************************)
IsQueued(r) == r.groups \subseteq queued \/ (~r.known /\ r.ladder = "mplus") \/ r \in misread

(* A request that is worked on: what it has queued by now.                 *)
Groups == UNION {r.groups : r \in ladder.requests}
Flight == [run : LadderRuns \cup {"left"}, request : ladder.requests,
           step : {"exists", "fetch", "queue", "mark", "missing"}, left : SUBSET Groups]

FlightKept(i) ==
  /\ i.step = "queue" => i.request.groups \subseteq queued \cup i.left
  /\ i.step \in {"mark", "missing"} => IsQueued(i.request)

FlightsKept == \A i \in inFlight : FlightKept(i)

(* The runs ask for what the ladders hold.                                 *)
RunsTyped ==
  /\ "requests" \in DOMAIN ladder /\ ladder.runs \subseteq LadderRuns /\ "runs" \in DOMAIN ladder
  /\ indexing \in [LadderRuns -> [ladder : {"none", "mplus", "pvp"}, todo : SUBSET ladder.requests]]
  /\ inFlight \subseteq Flight

LaddersInv == RunsTyped /\ FlightsKept /\ MarkedBoardsAreQueued

-----------------------------------------------------------------------------
LEMMA LaddersInitInv == ASSUME LaddersInit PROVE LaddersInv
<1>1. /\ "requests" \in DOMAIN ladder /\ "runs" \in DOMAIN ladder /\ ladder.runs \subseteq LadderRuns
  BY LaddersAssumption DEF LaddersInit, LadderRuns
<1>2. RunsTyped
  BY <1>1 DEF LaddersInit, RunsTyped, NoIndexing
<1> QED BY <1>2 DEF LaddersInit, LaddersInv, FlightsKept, MarkedBoardsAreQueued

(* What is queued and known stays so.                                      *)
LEMMA QueuedStays ==
  ASSUME queued \subseteq queued', misread \subseteq misread', NEW r, IsQueued(r)
  PROVE  IsQueued(r)'
BY DEF IsQueued

(* A request goes on: nothing but its own step may make it less than kept. *)
LEMMA FlightMoves ==
  ASSUME LaddersInv, NEW i \in inFlight, NEW j, j \in Flight, Moves(i, j),
         queued \subseteq queued', misread \subseteq misread', UNCHANGED <<indexing, markers>>,
         UNCHANGED ladder \/ ladder' = [ladder EXCEPT !.failures = @ - 1], FlightKept(j)'
  PROVE  LaddersInv'
<1>1. ladder'.requests = ladder.requests /\ DOMAIN ladder' = DOMAIN ladder /\ ladder'.runs = ladder.runs
  BY DEF LaddersInv, RunsTyped
<1>2. RunsTyped'
  BY <1>1 DEF LaddersInv, RunsTyped, Moves, Flight, Groups
<1>3. \A k \in inFlight : FlightKept(k)'
  BY QueuedStays DEF LaddersInv, FlightsKept, FlightKept
<1>4. FlightsKept'
  BY <1>3 DEF FlightsKept, Moves
<1>5. MarkedBoardsAreQueued'
  BY <1>1 DEF LaddersInv, MarkedBoardsAreQueued
<1> QED BY <1>2, <1>4, <1>5 DEF LaddersInv

(* A request ends, and leaves no marker.                                   *)
LEMMA FlightLands ==
  ASSUME LaddersInv, NEW i \in inFlight, Lands(i),
         UNCHANGED <<indexing, markers, queued, misread>>,
         UNCHANGED ladder \/ ladder' = [ladder EXCEPT !.failures = @ - 1]
  PROVE  LaddersInv'
<1>1. ladder'.requests = ladder.requests /\ DOMAIN ladder' = DOMAIN ladder /\ ladder'.runs = ladder.runs
  BY DEF LaddersInv, RunsTyped
<1>2. inFlight' \subseteq inFlight
  BY DEF Lands
<1>3. RunsTyped'
  BY <1>1, <1>2 DEF LaddersInv, RunsTyped, Flight, Groups
<1>4. FlightsKept'
  BY <1>1, <1>2 DEF LaddersInv, FlightsKept, FlightKept, IsQueued
<1>5. MarkedBoardsAreQueued'
  BY <1>1 DEF LaddersInv, MarkedBoardsAreQueued
<1> QED BY <1>3, <1>4, <1>5 DEF LaddersInv

-----------------------------------------------------------------------------
(* The actions of a run.                                                   *)

LEMMA IndexKeeps ==
  ASSUME LaddersInv, NEW x \in ladder.runs, NEW which \in {"mplus", "pvp"}, NEW seasons, Index(x, which, seasons)
  PROVE  LaddersInv'
<1>1. indexing' = [indexing EXCEPT ![x] = [ladder |-> which, todo |-> RequestsOf(which, seasons)]]
  BY DEF Index
<1>2. RequestsOf(which, seasons) \subseteq ladder.requests
  BY DEF RequestsOf
<1>3. UNCHANGED <<ladder, inFlight, markers, queued, misread>>
  BY DEF Index
<1>4. RunsTyped'
  BY <1>1, <1>2, <1>3 DEF LaddersInv, RunsTyped, Flight, Groups
<1> QED BY <1>3, <1>4 DEF LaddersInv, FlightsKept, FlightKept, IsQueued, MarkedBoardsAreQueued

LEMMA BeginKeeps ==
  ASSUME LaddersInv, NEW x \in ladder.runs, Begin(x)
  PROVE  LaddersInv'
<1>1. PICK r \in indexing[x].todo :
        /\ indexing' = [indexing EXCEPT ![x].todo = @ \ {r}]
        /\ inFlight' = inFlight \cup {[run |-> x, request |-> r, step |-> "exists", left |-> {}]}
  BY DEF Begin
<1>2. UNCHANGED <<ladder, markers, queued, misread>> /\ x \in LadderRuns
  BY DEF Begin, LaddersInv, RunsTyped
<1>3. r \in ladder.requests /\ indexing[x].todo \ {r} \subseteq ladder.requests
  BY <1>2 DEF LaddersInv, RunsTyped
<1>4. [run |-> x, request |-> r, step |-> "exists", left |-> {}] \in Flight
  BY <1>2, <1>3 DEF Flight
<1>5. indexing' \in [LadderRuns -> [ladder : {"none", "mplus", "pvp"}, todo : SUBSET ladder.requests]]
  BY <1>1, <1>2, <1>3 DEF LaddersInv, RunsTyped
<1>6. RunsTyped'
  BY <1>1, <1>2, <1>4, <1>5 DEF LaddersInv, RunsTyped, Flight, Groups
<1>7. FlightsKept'
  BY <1>1, <1>2 DEF LaddersInv, FlightsKept, FlightKept, IsQueued
<1> QED BY <1>2, <1>6, <1>7 DEF LaddersInv, MarkedBoardsAreQueued

LEMMA IndexingEndsKeeps ==
  ASSUME LaddersInv, NEW x \in ladder.runs, IndexingEnds(x)
  PROVE  LaddersInv'
<1>1. indexing' = [indexing EXCEPT ![x] = NoIndexing] /\ UNCHANGED <<ladder, inFlight, markers, queued, misread>>
  BY DEF IndexingEnds
<1>2. RunsTyped'
  BY <1>1 DEF LaddersInv, RunsTyped, Flight, Groups, NoIndexing
<1> QED BY <1>1, <1>2 DEF LaddersInv, FlightsKept, FlightKept, IsQueued, MarkedBoardsAreQueued

-----------------------------------------------------------------------------
(* The actions of a request.                                               *)

LEMMA GroupsOf ==
  ASSUME LaddersInv, NEW i \in inFlight
  PROVE  i.request \in ladder.requests /\ i.request.groups \subseteq Groups /\ i.left \subseteq Groups /\ FlightKept(i)
<1>1. i \in Flight
  BY DEF LaddersInv, RunsTyped
<1>2. i.request \in ladder.requests /\ i.left \subseteq Groups
  BY <1>1 DEF Flight
<1> QED BY <1>2 DEF Groups, LaddersInv, FlightsKept

LEMMA LooksKeep ==
  ASSUME LaddersInv, NEW i \in inFlight, IsMarked(i) \/ IsNotMarked(i)
  PROVE  LaddersInv'
<1>1. CASE IsMarked(i)
  BY <1>1, FlightLands DEF IsMarked
<1>2. CASE IsNotMarked(i)
  <2> DEFINE j == [i EXCEPT !.step = "fetch"]
  <2>1. j \in Flight /\ j.step = "fetch"
    BY DEF LaddersInv, RunsTyped, Flight
  <2>2. Moves(i, j) /\ UNCHANGED <<ladder, indexing, markers, queued, misread>>
    BY <1>2 DEF IsNotMarked
  <2> HIDE DEF j
  <2>3. FlightKept(j)'
    BY <2>1 DEF FlightKept
  <2> QED BY <2>1, <2>2, <2>3, FlightMoves
<1> QED BY <1>1, <1>2

LEMMA FailRequestKeeps ==
  ASSUME LaddersInv, NEW i \in inFlight, FailRequest(i)
  PROVE  LaddersInv'
<1>1. ladder' = [ladder EXCEPT !.failures = @ - 1] /\ UNCHANGED <<indexing, markers, queued>>
  BY DEF FailRequest
<1>2. CASE Lands(i) /\ UNCHANGED misread
  BY <1>1, <1>2, FlightLands
<1>3. CASE misread' = misread \cup {i.request} /\ Moves(i, [i EXCEPT !.step = "missing"])
  <2> DEFINE j == [i EXCEPT !.step = "missing"]
  <2>1. j \in Flight /\ j.request = i.request /\ j.step = "missing"
    BY DEF LaddersInv, RunsTyped, Flight
  <2>2. Moves(i, j)
    BY <1>3
  <2> HIDE DEF j
  <2>3. FlightKept(j)'
    BY <1>3, <2>1 DEF FlightKept, IsQueued
  <2>4. queued \subseteq queued' /\ misread \subseteq misread' /\ UNCHANGED <<indexing, markers>>
    BY <1>1, <1>3
  <2> QED BY <1>1, <2>1, <2>2, <2>3, <2>4, FlightMoves
<1> QED BY <1>2, <1>3 DEF FailRequest

(* Whose requests go on by themselves is nothing to them.                  *)
LEMMA MarkMissingFailsKeeps ==
  ASSUME LaddersInv, NEW i \in inFlight, MarkMissingFails(i)
  PROVE  LaddersInv'
<1>1. /\ ladder' = [ladder EXCEPT !.failures = @ - 1] /\ UNCHANGED <<markers, queued, misread>>
      /\ indexing' = [x \in LadderRuns |-> IF x = i.run THEN NoIndexing ELSE indexing[x]]
      /\ inFlight' = {IF j.run = i.run THEN [j EXCEPT !.run = "left"] ELSE j : j \in inFlight \ {i}}
  BY DEF MarkMissingFails
<1>2. ladder'.requests = ladder.requests /\ DOMAIN ladder' = DOMAIN ladder /\ ladder'.runs = ladder.runs
  BY <1>1 DEF LaddersInv, RunsTyped
<1>3. ASSUME NEW k \in inFlight'
      PROVE  /\ k \in Flight
             /\ \E j \in inFlight : k.request = j.request /\ k.step = j.step /\ k.left = j.left
  <2>1. PICK j \in inFlight : k = IF j.run = i.run THEN [j EXCEPT !.run = "left"] ELSE j
    BY <1>1, <1>3
  <2>2. j \in Flight
    BY DEF LaddersInv, RunsTyped
  <2> QED BY <2>1, <2>2 DEF Flight
<1>4. FlightsKept'
  BY <1>1, <1>3 DEF LaddersInv, FlightsKept, FlightKept, IsQueued
<1>5. indexing' \in [LadderRuns -> [ladder : {"none", "mplus", "pvp"}, todo : SUBSET ladder.requests]]
  BY <1>1 DEF LaddersInv, RunsTyped, NoIndexing
<1>6. Flight' = Flight
  BY <1>2 DEF Flight, Groups
<1>7. RunsTyped'
  BY <1>2, <1>3, <1>5, <1>6 DEF LaddersInv, RunsTyped
<1>8. MarkedBoardsAreQueued'
  BY <1>1, <1>2 DEF LaddersInv, MarkedBoardsAreQueued
<1> QED BY <1>4, <1>7, <1>8 DEF LaddersInv

LEMMA FetchBoardKeeps ==
  ASSUME LaddersInv, NEW i \in inFlight, FetchBoard(i)
  PROVE  LaddersInv'
<1> DEFINE onto == IF i.request.groups = {} THEN "mark" ELSE "queue"
           j == [i EXCEPT !.step = onto, !.left = i.request.groups]
<1>1. j \in Flight /\ j.request = i.request /\ j.step = onto /\ j.left = i.request.groups
  <2>1. onto \in {"exists", "fetch", "queue", "mark"} /\ i.request.groups \in SUBSET Groups
    BY GroupsOf
  <2>2. i \in Flight
    BY DEF LaddersInv, RunsTyped
  <2> HIDE DEF onto
  <2> QED BY <2>1, <2>2 DEF Flight
<1>2. Moves(i, j) /\ UNCHANGED <<ladder, indexing, markers, queued, misread>>
  BY DEF FetchBoard
<1> HIDE DEF j
<1>3. FlightKept(j)'
  BY <1>1 DEF FlightKept, IsQueued
<1> QED BY <1>1, <1>2, <1>3, FlightMoves

LEMMA NotFoundKeeps ==
  ASSUME LaddersInv, NEW i \in inFlight, NotFound(i)
  PROVE  LaddersInv'
<1>1. CASE i.request.ladder = "mplus"
  <2> DEFINE j == [i EXCEPT !.step = "missing"]
  <2>1. j \in Flight /\ j.request = i.request /\ j.step = "missing"
    BY DEF LaddersInv, RunsTyped, Flight
  <2>2. Moves(i, j) /\ ~i.request.known /\ UNCHANGED <<ladder, indexing, markers, queued, misread>>
    BY <1>1 DEF NotFound
  <2> HIDE DEF j
  <2>3. FlightKept(j)'
    BY <1>1, <2>1, <2>2 DEF FlightKept, IsQueued
  <2> QED BY <2>1, <2>2, <2>3, FlightMoves
<1>2. CASE i.request.ladder # "mplus"
  BY <1>2, FlightLands DEF NotFound
<1> QED BY <1>1, <1>2

LEMMA AddEntriesKeeps ==
  ASSUME LaddersInv, NEW i \in inFlight, AddEntries(i)
  PROVE  LaddersInv'
<1> DEFINE j == [i EXCEPT !.step = "mark", !.left = {}]
<1>1. j \in Flight /\ j.request = i.request /\ j.step = "mark"
  BY DEF LaddersInv, RunsTyped, Flight
<1>2. Moves(i, j) /\ queued' = queued \cup i.left /\ i.step = "queue" /\ UNCHANGED <<ladder, indexing, markers, misread>>
  BY DEF AddEntries
<1> HIDE DEF j
<1>3. FlightKept(j)'
  BY <1>1, <1>2, GroupsOf DEF FlightKept, IsQueued
<1> QED BY <1>1, <1>2, <1>3, FlightMoves

LEMMA AddGroupKeeps ==
  ASSUME LaddersInv, NEW i \in inFlight, AddGroup(i)
  PROVE  LaddersInv'
<1>1. PICK g \in i.left :
        /\ queued' = queued \cup {g}
        /\ Moves(i, IF i.left = {g} THEN [i EXCEPT !.step = "mark", !.left = {}] ELSE [i EXCEPT !.left = i.left \ {g}])
  BY DEF AddGroup
<1>2. i.step = "queue" /\ UNCHANGED <<ladder, indexing, markers, misread>>
  BY DEF AddGroup
<1>3. CASE i.left = {g}
  <2> DEFINE j == [i EXCEPT !.step = "mark", !.left = {}]
  <2>1. j \in Flight /\ j.request = i.request /\ j.step = "mark"
    BY DEF LaddersInv, RunsTyped, Flight
  <2>2. Moves(i, j)
    BY <1>1, <1>3
  <2> HIDE DEF j
  <2>3. FlightKept(j)'
    BY <1>1, <1>2, <1>3, <2>1, GroupsOf DEF FlightKept, IsQueued
  <2> QED BY <1>1, <1>2, <2>1, <2>2, <2>3, FlightMoves
<1>4. CASE i.left # {g}
  <2> DEFINE j == [i EXCEPT !.left = i.left \ {g}]
  <2>1. j \in Flight /\ j.request = i.request /\ j.step = "queue" /\ j.left = i.left \ {g}
    BY <1>2, GroupsOf DEF LaddersInv, RunsTyped, Flight
  <2>2. Moves(i, j)
    BY <1>1, <1>4
  <2> HIDE DEF j
  <2>3. FlightKept(j)'
    BY <1>1, <1>2, <2>1, GroupsOf DEF FlightKept, IsQueued
  <2> QED BY <1>1, <1>2, <2>1, <2>2, <2>3, FlightMoves
<1> QED BY <1>3, <1>4

(* The marker's board is queued: of its own request, by now.               *)
LEMMA MarkAsProcessedKeeps ==
  ASSUME LaddersInv, NEW i \in inFlight, MarkAsProcessed(i)
  PROVE  LaddersInv'
<1>1. /\ markers' = markers \cup {i.request.marker} /\ Lands(i) /\ i.step \in {"mark", "missing"}
      /\ UNCHANGED <<ladder, indexing, queued, misread>>
  BY DEF MarkAsProcessed
<1>2. i.request \in ladder.requests /\ IsQueued(i.request)
  BY <1>1, GroupsOf DEF FlightKept
<1>3. MarkedBoardsAreQueued'
  BY <1>1, <1>2 DEF LaddersInv, MarkedBoardsAreQueued, IsQueued
<1>4. RunsTyped' /\ FlightsKept'
  BY <1>1 DEF LaddersInv, RunsTyped, Flight, Groups, Lands, FlightsKept, FlightKept, IsQueued
<1> QED BY <1>3, <1>4 DEF LaddersInv

LEMMA RestartKeeps ==
  ASSUME LaddersInv, RestartLadder
  PROVE  LaddersInv'
<1>1. /\ ladder' = [ladder EXCEPT !.restarts = @ - 1] /\ UNCHANGED <<markers, queued, misread>>
      /\ indexing' = [x \in LadderRuns |-> NoIndexing] /\ inFlight' = {}
  BY DEF RestartLadder
<1>2. ladder'.requests = ladder.requests /\ DOMAIN ladder' = DOMAIN ladder /\ ladder'.runs = ladder.runs
  BY <1>1 DEF LaddersInv, RunsTyped
<1>3. RunsTyped' /\ FlightsKept'
  BY <1>1, <1>2 DEF LaddersInv, RunsTyped, NoIndexing, FlightsKept
<1>4. MarkedBoardsAreQueued'
  BY <1>1, <1>2 DEF LaddersInv, MarkedBoardsAreQueued
<1> QED BY <1>3, <1>4 DEF LaddersInv

LEMMA LaddersNextKeeps ==
  ASSUME LaddersInv, [LaddersNext]_ladderVars
  PROVE  LaddersInv'
<1>1. CASE \E x \in ladder.runs : IndexPvPLadder(x) \/ IndexMythicPlusLadder(x) \/ Begin(x) \/ IndexingEnds(x)
  BY <1>1, IndexKeeps, BeginKeeps, IndexingEndsKeeps DEF IndexPvPLadder, IndexMythicPlusLadder
<1>2. CASE \E i \in inFlight : \/ IsMarked(i) \/ IsNotMarked(i) \/ FetchBoard(i) \/ NotFound(i)
                               \/ AddEntries(i) \/ AddGroup(i) \/ MarkAsProcessed(i) \/ FailRequest(i) \/ MarkMissingFails(i)
  BY <1>2, LooksKeep, FailRequestKeeps, MarkMissingFailsKeeps, FetchBoardKeeps, NotFoundKeeps, AddEntriesKeeps, AddGroupKeeps, MarkAsProcessedKeeps
<1>3. CASE ExpireMarker
  <2>1. markers' \subseteq markers /\ UNCHANGED <<ladder, indexing, inFlight, queued, misread>>
    BY <1>3 DEF ExpireMarker
  <2> QED BY <2>1 DEF LaddersInv, RunsTyped, Flight, Groups, FlightsKept, FlightKept, IsQueued, MarkedBoardsAreQueued
<1>4. CASE RestartLadder
  BY <1>4, RestartKeeps
<1>5. CASE UNCHANGED ladderVars
  BY <1>5 DEF ladderVars, LaddersInv, RunsTyped, Flight, Groups, FlightsKept, FlightKept, IsQueued, MarkedBoardsAreQueued
<1> QED BY <1>1, <1>2, <1>3, <1>4, <1>5 DEF LaddersNext

(* A marker never hides a leaderboard of which not everyone was given to   *)
(* the queue (ladder.service.ts:123-131, 427-453), unless Battle.net did   *)
(* not know it or an error read like that: of its own step a request is    *)
(* marked only when it is queued, and what is queued stays so.             *)
THEOREM MarkersHold == LaddersSpec => []MarkedBoardsAreQueued
<1>1. LaddersInit => LaddersInv
  BY LaddersInitInv
<1>2. LaddersInv /\ [LaddersNext]_ladderVars => LaddersInv'
  BY LaddersNextKeeps
<1>3. LaddersInv => MarkedBoardsAreQueued
  BY DEF LaddersInv
<1> QED BY <1>1, <1>2, <1>3, PTL DEF LaddersSpec

(***************************************************************************)
(* Rank files.                                                             *)
(***************************************************************************)

ShelfTyped ==
  /\ "files" \in DOMAIN shelf /\ DOMAIN shelf.files \subseteq Nat
  /\ bucket \subseteq DOMAIN shelf.files /\ files \subseteq DOMAIN shelf.files

(* Of an extraction, the files of the bucket that are behind it.           *)
DealtWithAreRanked ==
  step \in {"extract", "mark", "extracted"} => \A i \in bucket \ files : IsRanks(i) => Content(i) \in ranked

(* Between addBulk and set, the marker is that of a file in the queue.     *)
NextIsRanked == step = "mark" => \A i : IsNext(i) => Content(i) \in ranked

RanksInv ==
  /\ ShelfTyped
  /\ imported \subseteq ranked
  /\ DealtWithAreRanked
  /\ NextIsRanked
  /\ step = "extracted" => files = {}

LEMMA ShelvesInitInv == ASSUME ShelvesInit PROVE RanksInv
BY ShelvesAssumption DEF ShelvesInit, RanksInv, ShelfTyped, DealtWithAreRanked, NextIsRanked

(* The counters of an instance change, its files do not.                   *)
LEMMA FilesStay ==
  ASSUME RanksInv, NEW n, NEW field \in {"failures", "restarts"}, shelf' = [shelf EXCEPT ![field] = n]
  PROVE  shelf'.files = shelf.files /\ DOMAIN shelf' = DOMAIN shelf
BY DEF RanksInv, ShelfTyped

(* Outside of an extraction, nothing is said of the files.                 *)
LEMMA NotExtracting ==
  ASSUME RanksInv, step' \in {"bucket", "parse", "download", "list", "failed"},
         shelf'.files = shelf.files, DOMAIN shelf' = DOMAIN shelf,
         bucket' \subseteq DOMAIN shelf.files, files' \subseteq DOMAIN shelf.files,
         UNCHANGED <<imported, ranked>>
  PROVE  RanksInv'
BY DEF RanksInv, ShelfTyped, DealtWithAreRanked, NextIsRanked

LEMMA DownloadsKeep ==
  ASSUME RanksInv,
         \/ EnsureBucketExists \/ ParseAvailableFiles \/ DownloadEnds
         \/ BootstrapFails \/ RestartRanks
  PROVE  RanksInv'
<1>1. CASE EnsureBucketExists \/ ParseAvailableFiles \/ DownloadEnds
  BY <1>1, NotExtracting DEF EnsureBucketExists, ParseAvailableFiles, DownloadEnds, RanksInv, ShelfTyped
<1>2. CASE BootstrapFails
  <2>1. shelf'.files = shelf.files /\ DOMAIN shelf' = DOMAIN shelf
    BY <1>2, FilesStay DEF BootstrapFails
  <2> QED BY <1>2, <2>1, NotExtracting DEF BootstrapFails, RanksInv, ShelfTyped
<1>3. CASE RestartRanks
  <2>1. shelf'.files = shelf.files /\ DOMAIN shelf' = DOMAIN shelf
    BY <1>3, FilesStay DEF RestartRanks
  <2> QED BY <1>3, <2>1, NotExtracting DEF RestartRanks, RanksInv, ShelfTyped
<1> QED BY <1>1, <1>2, <1>3

LEMMA DownloadKeeps ==
  ASSUME RanksInv, NEW i \in DOMAIN shelf.files, FileExists(i) \/ DownloadFile(i)
  PROVE  RanksInv'
<1>1. files' \subseteq DOMAIN shelf.files /\ step' = "download" /\ UNCHANGED <<imported, ranked>>
  BY DEF FileExists, DownloadFile, Leaves, RanksInv, ShelfTyped
<1>2. CASE FileExists(i)
  BY <1>1, <1>2, NotExtracting DEF FileExists, RanksInv, ShelfTyped
<1>3. CASE DownloadFile(i)
  <2>1. PICK failed \in 0 .. MaxDownloads :
          /\ shelf' = [shelf EXCEPT !.failures = @ - failed]
          /\ IF failed < MaxDownloads THEN PutObject(i) ELSE UNCHANGED bucket
    BY <1>3 DEF DownloadFile
  <2>2. shelf'.files = shelf.files /\ DOMAIN shelf' = DOMAIN shelf
    BY <2>1, FilesStay
  <2>3. bucket' \subseteq DOMAIN shelf.files
    BY <2>1 DEF PutObject, RanksInv, ShelfTyped
  <2> QED BY <1>1, <2>2, <2>3, NotExtracting
<1> QED BY <1>2, <1>3

(* An extraction starts with all files of the bucket ahead of it.          *)
LEMMA FindFilesKeeps == ASSUME RanksInv, FindFiles PROVE RanksInv'
<1>1. /\ files' = GzFiles /\ step' = "extract" /\ UNCHANGED <<shelf, bucket, imported, ranked>>
  BY DEF FindFiles
<1>2. bucket \ GzFiles = {} /\ GzFiles \subseteq DOMAIN shelf.files
  BY DEF GzFiles, InBucket, RanksInv, ShelfTyped
<1> QED BY <1>1, <1>2 DEF RanksInv, ShelfTyped, DealtWithAreRanked, NextIsRanked

LEMMA SkipFileKeeps ==
  ASSUME RanksInv, NEW i \in DOMAIN shelf.files, SkipFile(i)
  PROVE  RanksInv'
<1>1. /\ files' = files \ {i} /\ step = "extract" /\ UNCHANGED <<shelf, bucket, step, imported, ranked>>
  BY DEF SkipFile, Extracts, Leaves
<1>2. IsRanks(i) => Content(i) \in ranked
  BY DEF SkipFile, IsRanks, RanksInv
<1>3. DealtWithAreRanked'
  BY <1>1, <1>2 DEF RanksInv, DealtWithAreRanked, IsRanks, Content
<1> QED BY <1>1, <1>3 DEF RanksInv, ShelfTyped, NextIsRanked

LEMMA ReadFailsKeeps ==
  ASSUME RanksInv, NEW i \in DOMAIN shelf.files, ReadFails(i)
  PROVE  RanksInv'
BY NotExtracting DEF ReadFails, RanksInv, ShelfTyped

(* The next file is the one whose guilds were added: no other is as low.   *)
LEMMA AddGuildsKeeps ==
  ASSUME RanksInv, NEW i \in DOMAIN shelf.files, AddGuilds(i)
  PROVE  RanksInv'
<1>1. /\ ranked' = ranked \cup {Content(i)} /\ step = "extract" /\ step' = "mark" /\ IsNext(i)
      /\ UNCHANGED <<shelf, bucket, files, imported>>
  BY DEF AddGuilds, Extracts
<1>2. ASSUME NEW j, IsNext(j)
      PROVE  j = i
  BY <1>1, <1>2 DEF IsNext, RanksInv, ShelfTyped
<1>3. NextIsRanked'
  BY <1>1, <1>2 DEF NextIsRanked, IsNext, Content
<1>4. DealtWithAreRanked'
  BY <1>1 DEF RanksInv, DealtWithAreRanked, IsRanks, Content
<1> QED BY <1>1, <1>3, <1>4 DEF RanksInv, ShelfTyped

LEMMA MarkImportedKeeps ==
  ASSUME RanksInv, NEW i \in DOMAIN shelf.files, MarkImported(i)
  PROVE  RanksInv'
<1>1. /\ imported' = imported \cup {Content(i)} /\ files' = files \ {i} /\ IsNext(i)
      /\ step = "mark" /\ step' = "extract" /\ UNCHANGED <<shelf, bucket, ranked>>
  BY DEF MarkImported, Leaves
<1>2. Content(i) \in ranked
  BY <1>1 DEF RanksInv, NextIsRanked
<1>3. DealtWithAreRanked'
  BY <1>1, <1>2 DEF RanksInv, DealtWithAreRanked, IsRanks, Content
<1> QED BY <1>1, <1>2, <1>3 DEF RanksInv, ShelfTyped, NextIsRanked

LEMMA ShelvesNextKeeps == ASSUME RanksInv, [ShelvesNext]_shelfVars PROVE RanksInv'
<1>1. CASE EnsureBucketExists \/ ParseAvailableFiles \/ DownloadEnds \/ BootstrapFails \/ RestartRanks
  BY <1>1, DownloadsKeep
<1>2. CASE FindFiles
  BY <1>2, FindFilesKeeps
<1>3. CASE \E i \in DOMAIN shelf.files : \/ FileExists(i) \/ DownloadFile(i)
                                         \/ SkipFile(i) \/ ReadFails(i) \/ AddGuilds(i) \/ MarkImported(i)
  BY <1>3, DownloadKeeps, SkipFileKeeps, ReadFailsKeeps, AddGuildsKeeps, MarkImportedKeeps
<1>4. CASE ExtractionEnds
  BY <1>4 DEF ExtractionEnds, RanksInv, ShelfTyped, DealtWithAreRanked, NextIsRanked, IsRanks, Content
<1>5. CASE ExpireImported
  <2>1. imported' \subseteq imported /\ UNCHANGED <<shelf, bucket, step, files, ranked>>
    BY <1>5 DEF ExpireImported
  <2> QED BY <2>1 DEF RanksInv, ShelfTyped, DealtWithAreRanked, NextIsRanked, IsNext, IsRanks, Content
<1>6. CASE UNCHANGED shelfVars
  BY <1>6 DEF shelfVars, RanksInv, ShelfTyped, DealtWithAreRanked, NextIsRanked, IsNext, IsRanks, Content
<1> QED BY <1>1, <1>2, <1>3, <1>4, <1>5, <1>6 DEF ShelvesNext

(* A boot that got through has every list of guilds of the bucket in the   *)
(* queue (wow-progress.ranks.service.ts:396-449): a marker is only of what *)
(* is there, whichever boot set it, so that a file skipped for its marker  *)
(* is as good as one whose guilds were added now.                          *)
THEOREM ExtractionsAreWhole == ShelvesSpec => []ExtractedRanksAreQueued
<1>1. ShelvesInit => RanksInv
  BY ShelvesInitInv
<1>2. RanksInv /\ [ShelvesNext]_shelfVars => RanksInv'
  BY ShelvesNextKeeps
<1>3. RanksInv => ExtractedRanksAreQueued
  BY DEF RanksInv, DealtWithAreRanked, ExtractedRanksAreQueued
<1> QED BY <1>1, <1>2, <1>3, PTL DEF ShelvesSpec

(***************************************************************************)
(* Snapshots: the migration of older values.                               *)
(***************************************************************************)

Value == [form : {"array", "bare", "keyed"}, fields : {"sum", "max"}]
IsBoot(b) ==
  /\ DOMAIN b = {"step", "todo", "migrated"}
  /\ b.step \in {"find", "normalize", "rename", "migrated", "up"} /\ b.migrated \in BOOLEAN
IsUpdate(u) == u[1] \in DOMAIN legacy /\ u[2] \in Value /\ u[2].form = "keyed"

(* Hosts that have found all forms migrated, and have looked for sums.     *)
Past(b) == b.step \in {"rename", "migrated"} \/ b.migrated

BootKept(b) ==
  /\ IsBoot(b)
  /\ b.migrated => b.step = "up"
  /\ \A u \in b.todo : IsUpdate(u) /\ (b.step = "rename" => u[2].fields = "max")
  /\ b.step = "normalize" =>
       \A i \in DOMAIN legacy : legacy[i].form # "keyed" => \E u \in b.todo : u[1] = i
  /\ Past(b) => \A i \in DOMAIN legacy : legacy[i].form = "keyed"

IsPending(i) == \E h \in DOMAIN host : host[h].step = "rename" /\ \E u \in host[h].todo : u[1] = i

(* Once every host has looked for sums, one of them has those that are     *)
(* left on its list: the last that looked, for no older list brings back a *)
(* sum after it.                                                           *)
SumsArePending ==
  (\A h \in DOMAIN host : Past(host[h])) /\ DOMAIN host # {} =>
    \A i \in DOMAIN legacy : legacy[i].fields = "sum" => IsPending(i)

LegacyInv ==
  /\ "hosts" \in DOMAIN board /\ DOMAIN host = board.hosts
  /\ \A i \in DOMAIN legacy : legacy[i] \in Value
  /\ \A h \in DOMAIN host : BootKept(host[h])
  /\ SumsArePending

LEMMA LegacyInitInv == ASSUME BoardsInit PROVE LegacyInv
<1>1. "hosts" \in DOMAIN board /\ \A i \in DOMAIN legacy : legacy[i] \in Value
  BY BoardsAssumption DEF BoardsInit, Value
<1>2. BootKept(Booted)
  BY DEF BootKept, Booted, IsBoot, IsUpdate, Past
<1>3. ~Past(Booted) /\ \A h \in DOMAIN host : host[h] = Booted
  BY DEF Booted, Past, BoardsInit
<1>4. DOMAIN host = board.hosts
  BY DEF BoardsInit
<1> QED BY <1>1, <1>2, <1>3, <1>4 DEF LegacyInv, SumsArePending

(* The counters of an instance change, its hosts do not.                   *)
BoardIsUsed(field) == board' = [board EXCEPT ![field] = board[field] - 1]

(* A host goes on to b.                                                    *)
LEMMA HostGoes ==
  ASSUME LegacyInv, NEW h \in DOMAIN host, NEW b, host' = [host EXCEPT ![h] = b], BootKept(b), UNCHANGED legacy,
         board' = board \/ BoardIsUsed("failures") \/ BoardIsUsed("restarts"),
         ~Past(b) \/ SumsArePending'
  PROVE  LegacyInv'
<1>1. "hosts" \in DOMAIN board' /\ board'.hosts = board.hosts /\ DOMAIN host' = board.hosts
  BY DEF LegacyInv, BoardIsUsed
<1>2. ASSUME NEW k \in DOMAIN host PROVE BootKept(host'[k])
  BY DEF LegacyInv
<1>3. ASSUME NEW c, BootKept(c) PROVE BootKept(c)'
  BY <1>3 DEF BootKept, IsBoot, IsUpdate, Past
<1>4. \A k \in DOMAIN host' : BootKept(host[k])'
  BY <1>1, <1>2, <1>3 DEF LegacyInv
<1>5. SumsArePending'
  BY <1>1 DEF LegacyInv, SumsArePending, Past
<1> QED BY <1>1, <1>4, <1>5 DEF LegacyInv

(* A host does not go on: it starts again, or its boot is over.            *)
LEMMA HostStops ==
  ASSUME LegacyInv, NEW h \in DOMAIN host, UNCHANGED legacy,
         board' = board \/ BoardIsUsed("failures") \/ BoardIsUsed("restarts"),
         \/ host' = [host EXCEPT ![h] = Booted]
         \/ ~BootIs(h, "up") /\ BootGoes(h, "up", {})
  PROVE  LegacyInv'
<1>1. BootKept(host[h])
  BY DEF LegacyInv
<1>2. CASE host' = [host EXCEPT ![h] = Booted]
  <2>1. BootKept(Booted) /\ ~Past(Booted)
    BY DEF BootKept, Booted, IsBoot, IsUpdate, Past
  <2> QED BY <1>2, <2>1, HostGoes
<1>3. CASE ~BootIs(h, "up") /\ BootGoes(h, "up", {})
  <2> DEFINE b == [host[h] EXCEPT !.step = "up", !.todo = {}]
  <2>1. host' = [host EXCEPT ![h] = b]
    BY <1>3 DEF BootGoes
  <2>2. ~host[h].migrated
    BY <1>1, <1>3 DEF BootKept, BootIs
  <2>3. IsBoot(b) /\ b.step = "up" /\ b.todo = {} /\ ~b.migrated
    BY <1>1, <2>2 DEF BootKept, IsBoot
  <2> HIDE DEF b
  <2>4. BootKept(b) /\ ~Past(b)
    BY <2>3 DEF BootKept, Past
  <2> QED BY <2>1, <2>4, HostGoes
<1> QED BY <1>2, <1>3

-----------------------------------------------------------------------------
LEMMA FindLegacyKeeps ==
  ASSUME LegacyInv, NEW h \in DOMAIN host, FindLegacy(h)
  PROVE  LegacyInv'
<1> DEFINE pending == {i \in DOMAIN legacy : NeedsMigration(legacy[i])}
           N(i) == Normalized(legacy[i])
           todo == {<<i, N(i)>> : i \in pending}
           b == [host[h] EXCEPT !.step = "normalize", !.todo = todo]
<1>1. BootKept(host[h]) /\ host[h].step = "find"
  BY DEF LegacyInv, FindLegacy, BootIs
<1>2. host' = [host EXCEPT ![h] = b] /\ UNCHANGED <<legacy, board>>
  BY DEF FindLegacy, BootGoes
<1>3. ASSUME NEW i \in DOMAIN legacy
      PROVE  N(i) \in Value /\ N(i).form = "keyed"
  BY DEF LegacyInv, Normalized, Value
<1> HIDE DEF N
<1>4. \A u \in todo : IsUpdate(u)
  <2>1. \A u \in todo : \E i \in DOMAIN legacy : u = <<i, N(i)>>
    OBVIOUS
  <2> HIDE DEF todo
  <2> QED BY <1>3, <2>1 DEF IsUpdate
<1>5. \A i \in DOMAIN legacy : legacy[i].form # "keyed" => \E u \in todo : u[1] = i
  <2>1. ASSUME NEW i \in DOMAIN legacy, legacy[i].form # "keyed"
        PROVE  i \in pending
    BY <2>1 DEF LegacyInv, Value, NeedsMigration
  <2>2. \A i \in pending : <<i, N(i)>> \in todo
    OBVIOUS
  <2> HIDE DEF pending, todo
  <2> QED BY <2>1, <2>2
<1> HIDE DEF todo
<1>6. IsBoot(b) /\ b.step = "normalize" /\ b.todo = todo /\ ~b.migrated
  BY <1>1, <1>4 DEF BootKept, IsBoot
<1> HIDE DEF b
<1>7. BootKept(b) /\ ~Past(b)
  BY <1>4, <1>5, <1>6 DEF BootKept, Past
<1> QED BY <1>2, <1>7, HostGoes

(* The host that looks for sums finds all there are.                       *)
LEMMA FindFieldsKeeps ==
  ASSUME LegacyInv, NEW h \in DOMAIN host, FindFields(h)
  PROVE  LegacyInv'
<1> DEFINE sums == {i \in DOMAIN legacy : legacy[i].form # "array" /\ legacy[i].fields = "sum"}
           N(i) == [legacy[i] EXCEPT !.fields = "max"]
           todo == {<<i, N(i)>> : i \in sums}
           b == [host[h] EXCEPT !.step = "rename", !.todo = todo]
<1>1. BootKept(host[h]) /\ host[h].step = "normalize" /\ host[h].todo = {}
  BY DEF LegacyInv, FindFields, BootIs
<1>2. \A i \in DOMAIN legacy : legacy[i].form = "keyed"
  BY <1>1 DEF BootKept
<1>3. host' = [host EXCEPT ![h] = b] /\ UNCHANGED <<legacy, board>>
  BY DEF FindFields, BootGoes
<1>4. ASSUME NEW i \in DOMAIN legacy
      PROVE  N(i) \in Value /\ N(i).form = "keyed" /\ N(i).fields = "max"
  BY <1>2 DEF LegacyInv, Value
<1> HIDE DEF N
<1>5. \A u \in todo : IsUpdate(u) /\ u[2].fields = "max"
  <2>1. \A u \in todo : \E i \in DOMAIN legacy : u = <<i, N(i)>>
    OBVIOUS
  <2> HIDE DEF todo
  <2> QED BY <1>4, <2>1 DEF IsUpdate
<1>6. \A i \in DOMAIN legacy : legacy[i].fields = "sum" => \E u \in todo : u[1] = i
  <2>1. ASSUME NEW i \in DOMAIN legacy, legacy[i].fields = "sum"
        PROVE  i \in sums
    BY <1>2, <2>1
  <2>2. \A i \in sums : <<i, N(i)>> \in todo
    OBVIOUS
  <2> HIDE DEF sums, todo
  <2> QED BY <2>1, <2>2
<1> HIDE DEF todo
<1>7. IsBoot(b) /\ b.step = "rename" /\ b.todo = todo /\ ~b.migrated
  BY <1>1, <1>5 DEF BootKept, IsBoot
<1> HIDE DEF b
<1>8. BootKept(b)
  BY <1>2, <1>5, <1>7 DEF BootKept, Past
<1>9. SumsArePending'
  BY <1>3, <1>6, <1>7 DEF SumsArePending, IsPending
<1> QED BY <1>3, <1>8, <1>9, HostGoes

(* An update brings no form back, and a sum only while its host has not    *)
(* looked for sums.                                                        *)
LEMMA UpdateValueKeeps ==
  ASSUME LegacyInv, NEW h \in DOMAIN host, UpdateValue(h)
  PROVE  LegacyInv'
<1>1. PICK u \in host[h].todo :
        /\ legacy' = [legacy EXCEPT ![u[1]] = u[2]]
        /\ BootGoes(h, host[h].step, host[h].todo \ {u})
  BY DEF UpdateValue
<1>2. BootKept(host[h]) /\ host[h].step \in {"normalize", "rename"} /\ board' = board
  BY DEF LegacyInv, UpdateValue
<1>3. u[1] \in DOMAIN legacy /\ u[2] \in Value /\ u[2].form = "keyed"
  BY <1>2 DEF BootKept, IsUpdate
<1>4. PICK rest : rest = host[h].todo \ {u}
  OBVIOUS
<1>5. PICK b : b = [host[h] EXCEPT !.step = host[h].step, !.todo = rest]
  OBVIOUS
<1>6. host' = [host EXCEPT ![h] = b]
  BY <1>1, <1>4, <1>5 DEF BootGoes
<1>7. IsBoot(b) /\ b.step = host[h].step /\ b.todo = rest /\ ~b.migrated
  BY <1>2, <1>5 DEF BootKept, IsBoot
<1>8. DOMAIN legacy' = DOMAIN legacy /\ \A i \in DOMAIN legacy : legacy'[i] = IF i = u[1] THEN u[2] ELSE legacy[i]
  BY <1>1
<1>9. \A i \in DOMAIN legacy' : legacy'[i] \in Value
  BY <1>3, <1>8 DEF LegacyInv
<1>10. ASSUME NEW c, BootKept(c) PROVE BootKept(c)'
  <2>1. \A i \in DOMAIN legacy' : legacy'[i].form # "keyed" => legacy[i].form # "keyed"
    BY <1>3, <1>8
  <2>2. \A v \in c.todo : IsUpdate(v)' /\ (c.step = "rename" => v[2].fields = "max")
    BY <1>8, <1>10 DEF BootKept, IsUpdate
  <2>3. c.step = "normalize" => \A i \in DOMAIN legacy' : legacy'[i].form # "keyed" => \E v \in c.todo : v[1] = i
    BY <1>8, <1>10, <2>1 DEF BootKept
  <2>4. Past(c) => \A i \in DOMAIN legacy' : legacy'[i].form = "keyed"
    BY <1>8, <1>10, <2>1 DEF BootKept
  <2>5. Past(c)' <=> Past(c)
    BY DEF Past
  <2>6. IsBoot(c)' /\ (c.migrated => c.step = "up")
    BY <1>10 DEF BootKept, IsBoot
  <2> QED BY <2>2, <2>3, <2>4, <2>5, <2>6 DEF BootKept
<1>11. BootKept(b)'
  <2>1. b.step = "normalize" => \A i \in DOMAIN legacy' : legacy'[i].form # "keyed" => \E v \in b.todo : v[1] = i
    BY <1>2, <1>3, <1>4, <1>7, <1>8 DEF BootKept
  <2>2. Past(b) => \A i \in DOMAIN legacy' : legacy'[i].form = "keyed"
    BY <1>2, <1>3, <1>7, <1>8 DEF BootKept, Past
  <2>3. \A v \in b.todo : IsUpdate(v)' /\ (b.step = "rename" => v[2].fields = "max")
    BY <1>2, <1>4, <1>7, <1>8 DEF BootKept, IsUpdate
  <2> QED BY <1>7, <2>1, <2>2, <2>3 DEF BootKept, IsBoot, Past
<1>12. \A k \in DOMAIN host' : BootKept(host[k])'
  <2>1. host'[h] = b /\ DOMAIN host' = DOMAIN host /\ \A k \in DOMAIN host : k # h => host'[k] = host[k]
    BY <1>6
  <2>2. ASSUME NEW k \in DOMAIN host, k # h PROVE BootKept(host[k])'
    BY <1>10, <2>1, <2>2 DEF LegacyInv
  <2>3. BootKept(host[h])'
    BY <1>11, <2>1
  <2> QED BY <2>1, <2>2, <2>3
<1>13. SumsArePending'
  <2> SUFFICES ASSUME \A k \in DOMAIN host' : Past(host'[k]),
                      NEW i \in DOMAIN legacy, legacy'[i].fields = "sum"
               PROVE  IsPending(i)'
    BY <1>6, <1>8 DEF SumsArePending, Past
  <2>1. host'[h] = b /\ DOMAIN host' = DOMAIN host /\ \A k \in DOMAIN host : k # h => host'[k] = host[k]
    BY <1>6
  <2>2. host[h].step = "rename"
    BY <1>2, <1>7, <2>1 DEF Past
  <2>3. i # u[1] /\ legacy[i].fields = "sum"
    BY <1>2, <1>8, <2>2 DEF BootKept
  <2>4. \A k \in DOMAIN host : Past(host[k])
    BY <2>1, <2>2 DEF Past
  <2>5. PICK k \in DOMAIN host : host[k].step = "rename" /\ \E v \in host[k].todo : v[1] = i
    BY <2>3, <2>4 DEF LegacyInv, SumsArePending, IsPending
  <2>6. host'[k].step = "rename" /\ \E v \in host'[k].todo : v[1] = i
    BY <1>4, <1>7, <2>1, <2>3, <2>5
  <2> QED BY <2>1, <2>6 DEF IsPending
<1> QED BY <1>2, <1>6, <1>9, <1>12, <1>13 DEF LegacyInv

LEMMA MigrationEndsKeeps ==
  ASSUME LegacyInv, NEW h \in DOMAIN host, MigrationEnds(h)
  PROVE  LegacyInv'
<1> DEFINE b == [host[h] EXCEPT !.step = "migrated", !.todo = {}]
<1>1. BootKept(host[h]) /\ host[h].step = "rename" /\ host[h].todo = {}
  BY DEF LegacyInv, MigrationEnds, BootIs
<1>2. host' = [host EXCEPT ![h] = b] /\ UNCHANGED <<legacy, board>>
  BY DEF MigrationEnds, BootGoes
<1>3. IsBoot(b) /\ b.step = "migrated" /\ b.todo = {} /\ ~b.migrated
  BY <1>1 DEF BootKept, IsBoot
<1> HIDE DEF b
<1>4. BootKept(b)
  BY <1>1, <1>3 DEF BootKept, Past
<1>5. SumsArePending'
  BY <1>1, <1>2, <1>3 DEF LegacyInv, SumsArePending, IsPending, Past
<1> QED BY <1>2, <1>4, <1>5, HostGoes

LEMMA BootLooksKeeps ==
  ASSUME LegacyInv, NEW h \in DOMAIN host, BootLooksForToday(h)
  PROVE  LegacyInv'
<1> DEFINE b == [step |-> "up", todo |-> {}, migrated |-> TRUE]
<1>1. BootKept(host[h]) /\ host[h].step = "migrated"
  BY DEF LegacyInv, BootLooksForToday, BootIs
<1>2. host' = [host EXCEPT ![h] = b] /\ UNCHANGED <<legacy, board>>
  BY DEF BootLooksForToday
<1>3. BootKept(b)
  BY <1>1 DEF BootKept, IsBoot, IsUpdate, Past
<1>4. b.step = "up"
  OBVIOUS
<1> HIDE DEF b
<1>5. SumsArePending'
  BY <1>1, <1>2, <1>4 DEF LegacyInv, SumsArePending, IsPending, Past
<1> QED BY <1>2, <1>3, <1>5, HostGoes

(* Nothing is said but of the hosts and the values.                        *)
LEMMA LegacyUnchanged ==
  ASSUME LegacyInv, DOMAIN host' = DOMAIN host, \A h \in DOMAIN host : host'[h] = host[h], UNCHANGED legacy,
         board' = board \/ BoardIsUsed("failures") \/ BoardIsUsed("restarts")
  PROVE  LegacyInv'
<1>1. "hosts" \in DOMAIN board' /\ board'.hosts = board.hosts
  BY DEF LegacyInv, BoardIsUsed
<1>2. ASSUME NEW c, BootKept(c) PROVE BootKept(c)'
  BY <1>2 DEF BootKept, IsBoot, IsUpdate, Past
<1>3. \A h \in DOMAIN host' : BootKept(host[h])'
  BY <1>2 DEF LegacyInv
<1>4. SumsArePending'
  BY DEF LegacyInv, SumsArePending, IsPending, Past
<1> QED BY <1>1, <1>3, <1>4 DEF LegacyInv

LEMMA LegacyNextKeeps == ASSUME LegacyInv, [BoardsNext]_boardVars PROVE LegacyInv'
<1>1. CASE UNCHANGED <<host, legacy>> /\ (board' = board \/ BoardIsUsed("failures") \/ BoardIsUsed("restarts"))
  BY <1>1, LegacyUnchanged
<1>2. ASSUME NEW h \in board.hosts,
             \/ Migrate(h) \/ BootLooksForToday(h) \/ BootFails(h) \/ CronFires(h) \/ RestartHost(h)
      PROVE  LegacyInv'
  <2>1. h \in DOMAIN host
    BY DEF LegacyInv
  <2>2. CASE Migrate(h) \/ BootLooksForToday(h)
    BY <2>1, <2>2, FindLegacyKeeps, FindFieldsKeeps, UpdateValueKeeps, MigrationEndsKeeps, BootLooksKeeps DEF Migrate
  <2>3. CASE BootFails(h) \/ RestartHost(h)
    BY <2>1, <2>3, HostStops DEF BootFails, RestartHost, Dies, BoardIsUsed
  <2>4. CASE CronFires(h)
    BY <1>1, <2>4 DEF CronFires
  <2> QED BY <1>2, <2>2, <2>3, <2>4
<1>3. ASSUME NEW x \in board.runs, SnapshotDaily(x)
      PROVE  LegacyInv'
  <2>1. CASE LookForToday(x) \/ BeginService(x) \/ CommitService(x)
    BY <1>1, <2>1 DEF LookForToday, BeginService, CommitService
  <2>2. CASE ServiceFails(x) /\ x[2] # "boot"
    BY <1>1, <2>2 DEF ServiceFails, BoardIsUsed
  <2>3. CASE ServiceFails(x) /\ x[2] = "boot"
    <3>1. host' = [host EXCEPT ![x[1]] = Booted] /\ UNCHANGED legacy /\ BoardIsUsed("failures")
      BY <2>3 DEF ServiceFails, Dies, BoardIsUsed
    <3>2. CASE x[1] \in DOMAIN host
      BY <3>1, <3>2, HostStops
    <3>3. CASE x[1] \notin DOMAIN host
      <4>1. DOMAIN host' = DOMAIN host /\ \A k \in DOMAIN host : host'[k] = host[k]
        BY <3>1, <3>3
      <4> QED BY <3>1, <4>1, LegacyUnchanged
    <3> QED BY <3>2, <3>3
  <2> QED BY <1>3, <2>1, <2>2, <2>3 DEF SnapshotDaily
<1>4. CASE Midnight \/ TablesChange
  BY <1>1, <1>4 DEF Midnight, TablesChange
<1>5. CASE UNCHANGED boardVars
  BY <1>1, <1>5 DEF boardVars
<1> QED BY <1>2, <1>3, <1>4, <1>5 DEF BoardsNext

(* When all hosts have migrated, nothing of the older releases is left     *)
(* (analytics-migration.service.ts:38-76), whatever they wrote over each   *)
(* other's values, wherever a boot failed or started again.                *)
THEOREM LegacyGoes == BoardsSpec => []LegacyValuesAreGone
<1>1. BoardsInit => LegacyInv
  BY LegacyInitInv
<1>2. LegacyInv /\ [BoardsNext]_boardVars => LegacyInv'
  BY LegacyNextKeeps
<1>3. LegacyInv => LegacyValuesAreGone
  <2> SUFFICES ASSUME LegacyInv, \A h \in DOMAIN host : host[h].migrated, NEW h \in DOMAIN host, NEW i \in DOMAIN legacy
               PROVE  ~NeedsMigration(legacy[i]) /\ legacy[i].fields # "sum"
    BY DEF LegacyValuesAreGone
  <2>1. \A k \in DOMAIN host : host[k].step = "up" /\ Past(host[k])
    BY DEF LegacyInv, BootKept, Past
  <2>2. legacy[i].form = "keyed"
    BY <2>1 DEF LegacyInv, BootKept
  <2>3. ~IsPending(i)
    BY <2>1 DEF IsPending
  <2> QED BY <2>1, <2>2, <2>3 DEF LegacyInv, SumsArePending, NeedsMigration
<1> QED BY <1>1, <1>2, <1>3, PTL DEF BoardsSpec

(***************************************************************************)
(* Snapshots: the days.                                                    *)
(***************************************************************************)

(* The metrics that every day has, whatever the tables hold.               *)
Nothing == [realms |-> {}, traded |-> {}, volatile |-> FALSE]
Passed(d, n) == \A m \in 1 .. 4 : m < n => Metrics(Service[m], Nothing) \subseteq ExistingKeys(d, Service[m])

(* Of day d, run x stored services before n only.                          *)
IsAhead(x, d, n) ==
  \A i \in DOMAIN stored : stored[i].by = x /\ stored[i].date = d =>
    \E m \in 1 .. 5 : m < n /\ stored[i].service = Service[m]

RowKeys(rows) == {row.key : row \in rows}
RowsFill(r) ==
  r.service =< 4 =>
    Metrics(Service[r.service], Nothing) \subseteq ExistingKeys(r.date, Service[r.service]) \cup RowKeys(r.rows)

SnapshotKept(x, r) ==
  /\ r.step \in {"idle", "look", "begin", "commit"}
  /\ r.step # "idle" => r.date \in Nat
  /\ r.step \in {"begin", "commit"} => r.service \in 1 .. 5 /\ Passed(r.date, r.service) /\ IsAhead(x, r.date, r.service)
  /\ r.step = "commit" => RowsFill(r)

StoredTyped ==
  /\ Len(stored) \in Nat /\ stored = [i \in 1 .. Len(stored) |-> stored[i]]
  /\ \A i \in DOMAIN stored : stored[i].date \in Nat

StoredInv == StoredTyped /\ DaysFillInOrder /\ EachRunStoresOnce

DaysInv ==
  /\ "runs" \in DOMAIN board /\ DOMAIN run = board.runs
  /\ today \in Nat
  /\ \A x \in DOMAIN run : SnapshotKept(x, run[x])
  /\ StoredInv

LEMMA ServiceNames ==
  /\ Len(Service) = 5
  /\ \A n \in 1 .. 5, m \in 1 .. 5 : Service[n] = Service[m] => n = m
  /\ \A n \in 1 .. 5 : Service[n] = "hallOfFame" <=> n = 5
BY DEF Service

(* What the tables hold only adds metrics to a day.                        *)
LEMMA MetricsOfEveryDay ==
  ASSUME NEW f, NEW m \in 1 .. 4
  PROVE  Metrics(Service[m], Nothing) \subseteq Metrics(Service[m], f)
<1>1. CharacterMetrics(Nothing) \subseteq CharacterMetrics(f)
  <2>1. RealmCharacterMetrics(Nothing) \subseteq RealmCharacterMetrics(f)
    BY DEF RealmCharacterMetrics, Nothing
  <2>2. MaxLevelMetrics(Nothing) = {}
    BY DEF MaxLevelMetrics, Nothing
  <2> QED BY <2>1, <2>2 DEF CharacterMetrics
<1>2. GuildMetrics(Nothing) \subseteq GuildMetrics(f)
  BY DEF GuildMetrics, RealmGuildMetrics, Nothing
<1>3. MarketMetrics(Nothing) \subseteq MarketMetrics(f)
  BY DEF MarketMetrics, RealmMarketMetrics, Nothing
<1>4. ContractMetrics(Nothing) \subseteq ContractMetrics(f)
  BY DEF ContractMetrics, RealmContractMetrics, TopContracts, Volatility, Nothing
<1>5. Service[m] \in {"characters", "guilds", "market", "contracts"}
  BY DEF Service
<1> QED BY <1>1, <1>2, <1>3, <1>4, <1>5 DEF Metrics

-----------------------------------------------------------------------------
LEMMA DaysInitInv == ASSUME BoardsInit PROVE DaysInv
<1>1. "runs" \in DOMAIN board /\ DOMAIN run = board.runs /\ today \in Nat
  BY BoardsAssumption DEF BoardsInit
<1>2. \A x \in DOMAIN run : run[x].step = "idle"
  BY DEF BoardsInit, NoSnapshot
<1>3. stored = <<>>
  BY DEF BoardsInit
<1>4. Len(stored) = 0 /\ DOMAIN stored = {} /\ stored = [i \in 1 .. Len(stored) |-> stored[i]]
  BY <1>3
<1>5. StoredInv
  BY <1>4 DEF StoredInv, StoredTyped, DaysFillInOrder, EachRunStoresOnce
<1> QED BY <1>1, <1>2, <1>5 DEF DaysInv, SnapshotKept

BoardStays ==
  /\ board' = board \/ BoardIsUsed("failures") \/ BoardIsUsed("restarts")
  /\ stored' = stored

LEMMA DaysStay ==
  ASSUME DaysInv, BoardStays
  PROVE  /\ "runs" \in DOMAIN board' /\ board'.runs = board.runs
         /\ StoredInv'
         /\ \A x, r : SnapshotKept(x, r) => SnapshotKept(x, r)'
<1>1. "runs" \in DOMAIN board' /\ board'.runs = board.runs
  BY DEF BoardStays, BoardIsUsed, DaysInv
<1>2. StoredTyped' /\ EachRunStoresOnce'
  BY DEF DaysInv, StoredInv, StoredTyped, EachRunStoresOnce, BoardStays
<1>3. DaysFillInOrder'
  <2>1. \A d, s : ExistingKeys(d, s)' = ExistingKeys(d, s)
    BY DEF ExistingKeys, StoredOn, KeysOf, BoardStays
  <2> QED BY <2>1 DEF DaysInv, StoredInv, DaysFillInOrder, BoardStays
<1>4. ASSUME NEW x, NEW r, SnapshotKept(x, r)
      PROVE  SnapshotKept(x, r)'
  <2>1. \A d, n : Passed(d, n) => Passed(d, n)'
    BY DEF Passed, ExistingKeys, StoredOn, KeysOf, BoardStays
  <2>2. \A d, n : IsAhead(x, d, n) => IsAhead(x, d, n)'
    BY DEF IsAhead, BoardStays
  <2>3. RowsFill(r) => RowsFill(r)'
    BY DEF RowsFill, ExistingKeys, StoredOn, KeysOf, BoardStays
  <2> QED BY <1>4, <2>1, <2>2, <2>3 DEF SnapshotKept
<1> QED BY <1>1, <1>2, <1>3, <1>4 DEF StoredInv

(* Runs end, or nothing happens to them.                                   *)
LEMMA RunsEnd ==
  ASSUME DaysInv, BoardStays, today' \in Nat, DOMAIN run' = DOMAIN run,
         \A x \in DOMAIN run : run'[x] = run[x] \/ run'[x] = NoSnapshot
  PROVE  DaysInv'
<1>1. NoSnapshot.step = "idle"
  BY DEF NoSnapshot
<1>2. \A x : SnapshotKept(x, NoSnapshot)
  BY <1>1 DEF SnapshotKept
<1>3. \A x \in DOMAIN run' : SnapshotKept(x, run'[x])
  BY <1>2 DEF DaysInv
<1>4. \A x \in DOMAIN run' : SnapshotKept(x, run[x])'
  BY <1>3, DaysStay
<1> QED BY <1>4, DaysStay DEF DaysInv

(* A run goes on to r, or begins.                                          *)
LEMMA RunGoes ==
  ASSUME DaysInv, BoardStays, UNCHANGED today, NEW x \in DOMAIN run, NEW r, Continues(x, r), SnapshotKept(x, r)
  PROVE  DaysInv'
<1>1. run' = [run EXCEPT ![x] = r]
  BY DEF Continues
<1>2. \A y \in DOMAIN run' : SnapshotKept(y, run'[y])
  BY <1>1 DEF DaysInv
<1>3. \A y \in DOMAIN run' : SnapshotKept(y, run[y])'
  BY <1>2, DaysStay
<1> QED BY <1>1, <1>3, DaysStay DEF DaysInv

-----------------------------------------------------------------------------
LEMMA LookForTodayKeeps ==
  ASSUME DaysInv, NEW x \in DOMAIN run, LookForToday(x)
  PROVE  DaysInv'
<1>1. PICK r : r = run[x]
  OBVIOUS
<1>2. r.step = "look" /\ SnapshotKept(x, r) /\ BoardStays /\ UNCHANGED today
  BY <1>1 DEF DaysInv, LookForToday, BoardStays
<1>3. CASE IsSnapshotted(r.date)
  BY <1>1, <1>2, <1>3, RunsEnd DEF LookForToday, Continues, DaysInv
<1>4. CASE ~IsSnapshotted(r.date)
  <2> DEFINE b == [step |-> "begin", date |-> r.date, service |-> 1]
  <2>1. Continues(x, b)
    BY <1>1, <1>4 DEF LookForToday
  <2>2. Passed(r.date, 1)
    BY DEF Passed
  <2>3. IsAhead(x, r.date, 1)
    BY <1>2, <1>4 DEF IsSnapshotted, IsAhead, SnapshotKept, DaysInv, StoredInv, StoredTyped
  <2>4. b.step = "begin" /\ b.date = r.date /\ b.service = 1
    OBVIOUS
  <2> HIDE DEF b
  <2>5. SnapshotKept(x, b)
    BY <1>2, <2>2, <2>3, <2>4 DEF SnapshotKept
  <2> QED BY <1>1, <1>2, <2>1, <2>5, RunGoes
<1> QED BY <1>3, <1>4

(* With what is there, the rows to insert make the service's part whole.   *)
LEMMA BeginServiceKeeps ==
  ASSUME DaysInv, NEW x \in DOMAIN run, BeginService(x)
  PROVE  DaysInv'
<1>1. PICK r : r = run[x]
  OBVIOUS
<1>2. r.step = "begin" /\ SnapshotKept(x, r) /\ BoardStays /\ UNCHANGED today
  BY <1>1 DEF DaysInv, BeginService, BoardStays
<1>3. r.service \in 1 .. 5
  BY <1>2 DEF SnapshotKept
<1>4. PICK rows : rows = RowsOf(Service[r.service], r.date)
  OBVIOUS
<1> DEFINE c == [step |-> "commit", date |-> r.date, service |-> r.service, rows |-> rows]
<1>5. Continues(x, c)
  BY <1>1, <1>4 DEF BeginService
<1>6. c.step = "commit" /\ c.date = r.date /\ c.service = r.service /\ c.rows = rows
  OBVIOUS
<1> HIDE DEF c
<1>7. RowsFill(c)
  <2> SUFFICES ASSUME r.service =< 4, NEW k \in Metrics(Service[r.service], Nothing)
               PROVE  k \in ExistingKeys(r.date, Service[r.service]) \cup RowKeys(rows)
    BY <1>6 DEF RowsFill
  <2>1. PICK f : f = board.facts[counted]
    OBVIOUS
  <2>2. k \in Metrics(Service[r.service], f)
    BY <1>3, MetricsOfEveryDay
  <2>3. PICK absent : absent = Metrics(Service[r.service], f) \ ExistingKeys(r.date, Service[r.service])
    OBVIOUS
  <2>4. Service[r.service] # "hallOfFame"
    BY <1>3, ServiceNames
  <2>5. rows = {[key |-> q, value |-> <<>>] : q \in absent}
    BY <1>4, <2>1, <2>3, <2>4 DEF RowsOf
  <2>6. CASE k \in absent
    <3>1. [key |-> k, value |-> <<>>] \in rows /\ [key |-> k, value |-> <<>>].key = k
      BY <2>5, <2>6
    <3> QED BY <3>1 DEF RowKeys
  <2> QED BY <2>2, <2>3, <2>6
<1>8. SnapshotKept(x, c)
  BY <1>2, <1>6, <1>7 DEF SnapshotKept
<1> QED BY <1>1, <1>2, <1>5, <1>8, RunGoes

LEMMA NextServiceIs ==
  ASSUME NEW r, r.service \in 1 .. 5, NEW n, n = NextService(r)
  PROVE  \/ n.step = "idle"
         \/ n.step = "begin" /\ n.date = r.date /\ n.service = r.service + 1 /\ n.service \in 1 .. 5
BY ServiceNames DEF NextService, NoSnapshot

(* A row more: those before it stay as they are.                           *)
IsStored(e) ==
  /\ Len(stored') = Len(stored) + 1 /\ DOMAIN stored' = 1 .. Len(stored) + 1
  /\ stored' = [i \in 1 .. Len(stored') |-> stored'[i]]
  /\ \A i \in DOMAIN stored : stored'[i] = stored[i]
  /\ stored'[Len(stored) + 1] = e

LEMMA Appended ==
  ASSUME StoredTyped, NEW e, stored' = Append(stored, e)
  PROVE  IsStored(e) /\ DOMAIN stored = 1 .. Len(stored)
<1>1. PICK n \in Nat : n = Len(stored) /\ DOMAIN stored = 1 .. n
  BY DEF StoredTyped
<1>2. PICK S : S = {stored[i] : i \in 1 .. n} \cup {e}
  OBVIOUS
<1>3. \A i \in 1 .. n : stored[i] \in S
  BY <1>2
<1>4. stored \in Seq(S)
  <2>1. stored \in [1 .. n -> S]
    BY <1>1, <1>3 DEF StoredTyped
  <2> QED BY <2>1, SeqDef
<1>5. e \in S
  BY <1>2
<1>6. stored' \in Seq(S) /\ Len(stored') = n + 1 /\ stored'[n + 1] = e
  BY <1>1, <1>4, <1>5, AppendProperties
<1>7. DOMAIN stored' = 1 .. n + 1 /\ stored' = [i \in 1 .. Len(stored') |-> stored'[i]]
  <2>1. PICK t : t = stored'
    OBVIOUS
  <2>2. t \in Seq(S) /\ Len(t) = n + 1
    BY <1>6, <2>1
  <2>3. t \in [1 .. n + 1 -> S]
    BY <2>2, LenProperties
  <2> QED BY <2>1, <2>2, <2>3
<1>8. \A i \in 1 .. n : stored'[i] = stored[i]
  BY <1>1, <1>4, <1>5, AppendProperties
<1> QED BY <1>1, <1>6, <1>7, <1>8 DEF IsStored

LEMMA KeysGrow ==
  ASSUME StoredTyped, NEW e, IsStored(e), DOMAIN stored = 1 .. Len(stored)
  PROVE  /\ \A d, s : ExistingKeys(d, s) \subseteq ExistingKeys(d, s)'
         /\ RowKeys(e.rows) \subseteq ExistingKeys(e.date, e.service)'
<1>1. Len(stored) \in Nat
  BY DEF StoredTyped
<1>2. ASSUME NEW i \in DOMAIN stored
      PROVE  i \in DOMAIN stored' /\ KeysOf(i)' = KeysOf(i)
  <2>1. i \in DOMAIN stored' /\ stored'[i] = stored[i]
    BY <1>1 DEF IsStored
  <2> QED BY <2>1 DEF KeysOf
<1>3. ASSUME NEW d, NEW s
      PROVE  ExistingKeys(d, s) \subseteq ExistingKeys(d, s)'
  BY <1>2 DEF ExistingKeys, StoredOn, IsStored
<1>4. RowKeys(e.rows) \subseteq ExistingKeys(e.date, e.service)'
  <2>1. PICK n : n = Len(stored) + 1
    OBVIOUS
  <2>2. n \in DOMAIN stored' /\ stored'[n] = e
    BY <1>1, <2>1 DEF IsStored
  <2>3. n \in StoredOn(e.date, e.service)' /\ KeysOf(n)' = RowKeys(e.rows)
    BY <2>2 DEF StoredOn, KeysOf, RowKeys
  <2> QED BY <2>3 DEF ExistingKeys
<1> QED BY <1>3, <1>4

(* The rows of a service are stored: the day's next service follows.  Of   *)
(* the run's own rows of that day those before were of earlier services.   *)
LEMMA CommitRowsKeeps ==
  ASSUME DaysInv, NEW x \in DOMAIN run, NEW r, r = run[x], r.step = "commit",
         NEW e, e = [date |-> r.date, service |-> Service[r.service], by |-> x, rows |-> r.rows],
         stored' = Append(stored, e), NEW n, n = NextService(r), run' = [run EXCEPT ![x] = n],
         UNCHANGED <<board, today>>
  PROVE  DaysInv'
<1>1. /\ SnapshotKept(x, r) /\ r.service \in 1 .. 5 /\ r.date \in Nat /\ Passed(r.date, r.service) /\ RowsFill(r)
      /\ IsAhead(x, r.date, r.service)
  BY DEF DaysInv, SnapshotKept
<1>2. e.date = r.date /\ e.service = Service[r.service] /\ e.rows = r.rows /\ e.by = x
  OBVIOUS
<1>3. IsStored(e) /\ DOMAIN stored = 1 .. Len(stored) /\ StoredTyped /\ Len(stored) \in Nat
  BY Appended DEF DaysInv, StoredInv, StoredTyped
<1>4. PICK new \in Nat : new = Len(stored) + 1
  BY <1>3
<1>5. /\ DOMAIN stored' = DOMAIN stored \cup {new} /\ new \notin DOMAIN stored /\ stored'[new] = e
      /\ \A i \in DOMAIN stored : stored'[i] = stored[i] /\ i \in Nat /\ i < new
  BY <1>3, <1>4 DEF IsStored
<1>6. StoredTyped'
  <2>1. \A i \in DOMAIN stored' : stored'[i].date \in Nat
    BY <1>1, <1>2, <1>3, <1>5 DEF StoredTyped
  <2> QED BY <1>3, <2>1 DEF StoredTyped, IsStored
<1>8. /\ \A d, s : ExistingKeys(d, s) \subseteq ExistingKeys(d, s)'
      /\ RowKeys(r.rows) \subseteq ExistingKeys(r.date, Service[r.service])'
  BY <1>2, <1>3, KeysGrow
<1>9. \A d, q : Passed(d, q) => Passed(d, q)'
  BY <1>8 DEF Passed
<1>10. DaysFillInOrder'
  <2> SUFFICES ASSUME NEW i \in DOMAIN stored', NEW k \in 1 .. 5, NEW m \in 1 .. 4,
                      stored'[i].service = Service[k], m < k
               PROVE  Metrics(Service[m], Nothing) \subseteq ExistingKeys(stored[i].date, Service[m])'
    BY ServiceNames DEF DaysFillInOrder, Nothing
  <2>1. PICK d : d = stored'[i].date
    OBVIOUS
  <2>2. CASE i \in DOMAIN stored
    <3>1. Metrics(Service[m], Nothing) \subseteq ExistingKeys(d, Service[m])
      BY <1>5, <2>1, <2>2, ServiceNames DEF DaysInv, StoredInv, DaysFillInOrder, Nothing
    <3> QED BY <1>8, <2>1, <3>1
  <2>3. CASE i = new
    <3>1. k = r.service /\ d = r.date
      BY <1>1, <1>2, <1>5, <2>1, <2>3, ServiceNames
    <3>2. Metrics(Service[m], Nothing) \subseteq ExistingKeys(d, Service[m])
      BY <1>1, <3>1 DEF Passed
    <3> QED BY <1>8, <2>1, <3>2
  <2> QED BY <1>5, <2>2, <2>3
<1>11. EachRunStoresOnce'
  <2> SUFFICES ASSUME NEW i \in DOMAIN stored', NEW j \in DOMAIN stored', i < j,
                      stored'[i].by = stored'[j].by, stored'[i].date = stored'[j].date
               PROVE  \E k \in 1 .. 5, m \in 1 .. 5 :
                        k < m /\ stored'[i].service = Service[k] /\ stored'[j].service = Service[m]
    BY ServiceNames DEF EachRunStoresOnce
  <2>1. i \in DOMAIN stored
    BY <1>3, <1>4, <1>5
  <2>2. CASE j \in DOMAIN stored
    BY <1>5, <2>1, <2>2, ServiceNames DEF DaysInv, StoredInv, EachRunStoresOnce
  <2>3. CASE j = new
    <3>1. stored[i].by = x /\ stored[i].date = r.date
      BY <1>2, <1>5, <2>1, <2>3
    <3>2. PICK k \in 1 .. 5 : k < r.service /\ stored[i].service = Service[k]
      BY <1>1, <2>1, <3>1 DEF IsAhead
    <3> QED BY <1>1, <1>2, <1>5, <2>1, <2>3, <3>2
  <2> QED BY <1>5, <2>2, <2>3
<1>12. StoredInv'
  BY <1>6, <1>10, <1>11 DEF StoredInv
<1>13. SnapshotKept(x, n)'
  <2>1. CASE n.step = "idle"
    BY <2>1 DEF SnapshotKept
  <2>2. CASE n.step = "begin" /\ n.date = r.date /\ n.service = r.service + 1 /\ n.service \in 1 .. 5
    <3>1. Metrics(Service[r.service], Nothing) \subseteq ExistingKeys(r.date, Service[r.service])'
      BY <1>1, <1>8, <2>2 DEF RowsFill
    <3>2. Passed(n.date, n.service)'
      <4> SUFFICES ASSUME NEW m \in 1 .. 4, m < n.service
                   PROVE  Metrics(Service[m], Nothing) \subseteq ExistingKeys(n.date, Service[m])'
        BY DEF Passed
      <4>1. CASE m = r.service
        BY <2>2, <3>1, <4>1
      <4>2. CASE m < r.service
        BY <1>1, <1>9, <2>2, <4>2 DEF Passed
      <4> QED BY <1>1, <2>2, <4>1, <4>2
    <3>3. IsAhead(x, n.date, n.service)'
      <4> SUFFICES ASSUME NEW i \in DOMAIN stored', stored'[i].by = x, stored'[i].date = n.date
                   PROVE  \E m \in 1 .. 5 : m < n.service /\ stored'[i].service = Service[m]
        BY DEF IsAhead
      <4>1. CASE i = new
        BY <1>1, <1>2, <1>5, <2>2, <4>1
      <4>2. CASE i \in DOMAIN stored
        <5>1. PICK m \in 1 .. 5 : m < r.service /\ stored[i].service = Service[m]
          BY <1>1, <1>5, <2>2, <4>2 DEF IsAhead
        <5> QED BY <1>1, <1>5, <2>2, <4>2, <5>1
      <4> QED BY <1>5, <4>1, <4>2
    <3> QED BY <1>1, <2>2, <3>2, <3>3 DEF SnapshotKept
  <2> QED BY <1>1, <2>1, <2>2, NextServiceIs
<1>14. ASSUME NEW y \in DOMAIN run, y # x
       PROVE  SnapshotKept(y, run[y])'
  <2>1. PICK c : c = run[y]
    OBVIOUS
  <2>2. SnapshotKept(y, c) /\ run'[y] = c
    BY <1>14, <2>1 DEF DaysInv
  <2>3. \A d, k : IsAhead(y, d, k) => IsAhead(y, d, k)'
    BY <1>2, <1>5, <1>14 DEF IsAhead
  <2>4. RowsFill(c) => RowsFill(c)'
    BY <1>8 DEF RowsFill
  <2>5. SnapshotKept(y, c)'
    BY <1>9, <2>2, <2>3, <2>4 DEF SnapshotKept
  <2> QED BY <2>2, <2>5
<1>15. \A y \in DOMAIN run' : SnapshotKept(y, run[y])'
  <2>1. run'[x] = n
    OBVIOUS
  <2>2. SnapshotKept(x, run[x])'
    BY <1>13, <2>1
  <2> QED BY <1>14, <2>2
<1> QED BY <1>12, <1>15 DEF DaysInv

LEMMA CommitServiceKeeps ==
  ASSUME DaysInv, NEW x \in DOMAIN run, CommitService(x)
  PROVE  DaysInv'
<1>1. PICK r : r = run[x]
  OBVIOUS
<1>2. PICK n : n = NextService(r)
  OBVIOUS
<1>3. PICK e : e = [date |-> r.date, service |-> Service[r.service], by |-> x, rows |-> r.rows]
  OBVIOUS
<1>4. r.step = "commit" /\ Continues(x, n) /\ UNCHANGED <<board, today>> /\ SnapshotKept(x, r)
  BY <1>1, <1>2 DEF CommitService, DaysInv
<1>5. stored' = IF r.rows = {} THEN stored ELSE Append(stored, e)
  BY <1>1, <1>3 DEF CommitService
<1>6. CASE r.rows # {}
  BY <1>1, <1>2, <1>3, <1>4, <1>5, <1>6, CommitRowsKeeps DEF Continues
<1>7. CASE r.rows = {}
  <2>1. r.service \in 1 .. 5
    BY <1>4 DEF SnapshotKept
  <2>2. BoardStays
    BY <1>4, <1>5, <1>7 DEF BoardStays
  <2>3. CASE n.step = "idle"
    BY <1>1, <1>4, <2>2, <2>3, RunGoes DEF SnapshotKept
  <2>4. CASE n.step = "begin" /\ n.date = r.date /\ n.service = r.service + 1 /\ n.service \in 1 .. 5
    <3>1. RowKeys(r.rows) = {}
      BY <1>7 DEF RowKeys
    <3>2. Passed(n.date, n.service)
      BY <1>4, <2>1, <2>4, <3>1 DEF SnapshotKept, RowsFill, Passed
    <3>3. IsAhead(x, n.date, n.service)
      BY <1>4, <2>1, <2>4 DEF SnapshotKept, IsAhead
    <3>4. SnapshotKept(x, n)
      BY <1>4, <2>4, <3>2, <3>3 DEF SnapshotKept
    <3> QED BY <1>1, <1>4, <2>2, <3>4, RunGoes
  <2> QED BY <1>2, <2>1, <2>3, <2>4, NextServiceIs
<1> QED BY <1>6, <1>7

-----------------------------------------------------------------------------
(* A run that starts knows no more than the day.                           *)
LEMMA RunStarts ==
  ASSUME DaysInv, BoardStays, UNCHANGED today, NEW x \in board.runs,
         Continues(x, [step |-> "look", date |-> today])
  PROVE  DaysInv'
<1>1. PICK r : r = [step |-> "look", date |-> today]
  OBVIOUS
<1>2. r.step = "look" /\ r.date \in Nat
  BY <1>1 DEF DaysInv
<1>3. SnapshotKept(x, r)
  BY <1>2 DEF SnapshotKept
<1> QED BY <1>1, <1>3, RunGoes DEF DaysInv

LEMMA DaysNextKeeps == ASSUME DaysInv, [BoardsNext]_boardVars PROVE DaysInv'
<1>1. ASSUME NEW h \in board.hosts,
             \/ Migrate(h) \/ BootLooksForToday(h) \/ BootFails(h) \/ CronFires(h) \/ RestartHost(h)
      PROVE  DaysInv'
  <2>1. CASE Migrate(h) \/ BootFails(h)
    <3>1. UNCHANGED <<today, run>> /\ BoardStays
      BY <2>1 DEF Migrate, FindLegacy, FindFields, UpdateValue, MigrationEnds, BootFails, BoardStays, BoardIsUsed
    <3> QED BY <3>1, RunsEnd DEF DaysInv
  <2>2. CASE BootLooksForToday(h)
    <3>1. BoardStays /\ UNCHANGED today
      BY <2>2 DEF BootLooksForToday, BoardStays
    <3>2. CASE IsSnapshotted(today) \/ <<h, "boot">> \notin board.runs
      BY <2>2, <3>1, <3>2, RunsEnd DEF BootLooksForToday, DaysInv
    <3>3. CASE ~(IsSnapshotted(today) \/ <<h, "boot">> \notin board.runs)
      BY <2>2, <3>1, <3>3, RunStarts DEF BootLooksForToday
    <3> QED BY <3>2, <3>3
  <2>3. CASE CronFires(h)
    BY <2>3, RunStarts DEF CronFires, BoardStays
  <2>4. CASE RestartHost(h)
    BY <2>4, RunsEnd DEF RestartHost, Dies, BoardStays, BoardIsUsed, DaysInv
  <2> QED BY <1>1, <2>1, <2>2, <2>3, <2>4
<1>2. ASSUME NEW x \in board.runs, SnapshotDaily(x)
      PROVE  DaysInv'
  <2>1. x \in DOMAIN run
    BY DEF DaysInv
  <2>2. CASE ServiceFails(x)
    <3>1. BoardStays /\ UNCHANGED today
      BY <2>2 DEF ServiceFails, BoardStays, BoardIsUsed
    <3>2. DOMAIN run' = DOMAIN run /\ \A y \in DOMAIN run : run'[y] = run[y] \/ run'[y] = NoSnapshot
      BY <2>2 DEF ServiceFails, Dies, Continues
    <3> QED BY <3>1, <3>2, RunsEnd DEF DaysInv
  <2> QED BY <1>2, <2>1, <2>2, LookForTodayKeeps, BeginServiceKeeps, CommitServiceKeeps DEF SnapshotDaily
<1>3. CASE Midnight \/ TablesChange
  BY <1>3, RunsEnd DEF Midnight, TablesChange, BoardStays, DaysInv
<1>4. CASE UNCHANGED boardVars
  BY <1>4, RunsEnd DEF boardVars, BoardStays, DaysInv
<1> QED BY <1>1, <1>2, <1>3, <1>4 DEF BoardsNext

LEMMA DaysHold == BoardsSpec => []DaysInv
<1>1. BoardsInit => DaysInv
  BY DaysInitInv
<1>2. DaysInv /\ [BoardsNext]_boardVars => DaysInv'
  BY DaysNextKeeps
<1> QED BY <1>1, <1>2, PTL DEF BoardsSpec

(* A day fills up in the order of the services                             *)
(* (analytics.service.ts:114-121), whichever hosts, boots and crons store  *)
(* it at once: a run goes on to a service only after its transaction found *)
(* or stored all metrics of the one before.                                *)
THEOREM DaysFill == BoardsSpec => []DaysFillInOrder
<1>1. DaysInv => DaysFillInOrder
  BY DEF DaysInv, StoredInv
<1> QED BY <1>1, DaysHold, PTL

(* A boot or a cron stores the services of a day in their order and none   *)
(* twice (analytics.service.ts:92-103), however often it dies, fails or    *)
(* comes again and whoever else stores that day: who found no row of the   *)
(* day has stored none, and goes from service to service.                  *)
THEOREM RunsStoreOnce == BoardsSpec => []EachRunStoresOnce
<1>1. DaysInv => EachRunStoresOnce
  BY DEF DaysInv, StoredInv
<1> QED BY <1>1, DaysHold, PTL
=============================================================================
