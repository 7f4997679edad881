------------------------- MODULE GuildRosters_proofs -------------------------
(***************************************************************************)
(* Proofs about a guild's scans, for any characters, ranks and rosters, and *)
(* any number of failures and of changes.                                  *)
(*                                                                         *)
(* The first part is about any number of guilds with ids of their own, any  *)
(* of whose scans may fail anywhere: the table of members.  The second is   *)
(* about one guild in which nothing has failed: the history and the         *)
(* characters, which other guilds' scans write too.                        *)
(***************************************************************************)
EXTENDS GuildRosters, TLAPS

(* The guilds have ids of their own: none has taken over a renamed one's.  *)
OwnIds == \A g, h \in Guild : IdOf[g] = IdOf[h] => g = h

Comparing == {"ranks", "joins", "leaves"}

RunFields == {"step", "isNew", "id", "summary", "todo", "listed", "roster", "original", "clean"}

(* What a guild's rows of the table tell of a character.                   *)
RankIn(g, row) == IF row # NoRow /\ row.guild = g THEN row.rank ELSE Absent

Stays(run, c) == run.original[c] # Absent /\ run.roster[c] # Absent
Joins(run, c) == run.original[c] = Absent /\ run.roster[c] # Absent
Departs(run, c) == run.original[c] # Absent /\ run.roster[c] = Absent

Awaited(run, names, c) == \E n \in names : <<n, c>> \in run.todo

RunOK(g, run) ==
  /\ DOMAIN run = RunFields
  /\ run.id \in {IdOf[g], NoId}
  /\ run.listed \in Roster /\ run.roster \in Roster /\ run.original \in Roster
  /\ run.step \in {"idle", "request"} => run.roster = Nobody
  /\ run.step \in {"roster"} \cup Comparing => run.listed # Nobody

(* A member's operations are of the step it belongs to.                    *)
OpsBelong(run, c) ==
  Awaited(run, {"log", "member", "character"}, c) =>
    /\ run.step = "ranks" => Stays(run, c)
    /\ run.step = "joins" => Joins(run, c)
    /\ run.step = "leaves" => Departs(run, c)

(* Nothing of the scan has failed: how far the table follows the roster.   *)
IsFollowed(run, c, rank) ==
  LET isSettled == Follows(rank, run.listed[c])
      isBegun == Awaited(run, {"log", "member"}, c)
  IN /\ run.step = "roster" =>
          Awaited(run, {"find", "save"}, c) \/ run.roster[c] = run.listed[c]
     /\ run.step \in Comparing =>
          /\ run.roster[c] = run.listed[c]
          /\ run.original[c] # Absent /\ run.step # "leaves" => rank # Absent
     /\ run.step = "ranks" =>
          /\ run.original[c] = Absent => rank = Absent
          /\ Stays(run, c) => isSettled \/ <<"member", c>> \in run.todo
     /\ run.step = "joins" =>
          Departs(run, c) \/ isSettled \/ (Joins(run, c) /\ isBegun)
     /\ run.step = "leaves" =>
          isSettled \/ (Departs(run, c) /\ isBegun)
     /\ run.step = "changes" => run.roster[c] = run.listed[c] /\ isSettled

Good(g, run, c, row) == OpsBelong(run, c) /\ (run.clean => IsFollowed(run, c, RankIn(g, row)))

TablesOK ==
  /\ site \in [Guild -> Roster]
  /\ members \in [Id -> [Char -> MemberRow \cup {NoRow}]]
  /\ guilds = [g \in Guild |-> guilds[g]]
  /\ \A g \in Guild : guilds[g] # NoRow =>
       "id" \in DOMAIN guilds[g] /\ guilds[g].id \in {IdOf[g], NoId}

ScansInv ==
  /\ TablesOK
  /\ scan = [g \in Guild |-> scan[g]]
  /\ \A g \in Guild : RunOK(g, scan[g])
  /\ \A g \in Guild, c \in Char : Good(g, scan[g], c, members[IdOf[g]][c])

-----------------------------------------------------------------------------
LEMMA Distinct ==
  /\ 0 \in Rank /\ Absent \notin Rank
  /\ Nobody \in Roster /\ NoRow \notin MemberRow /\ NoRow \notin Char
  /\ \A s \in Sites : s \in [Guild -> Roster]
  /\ \A g \in Guild : IdOf[g] \in Id
<1>1. 0 \in Rank /\ Nobody \in Roster
  BY ConstantsAssumption DEF Rank, Nobody, Roster
<1>2. \A s \in Sites : s \in [Guild -> Roster]
  BY <1>1 DEF Sites, Rosters
<1> QED BY <1>1, <1>2, ConstantsAssumption

LEMMA InOperations ==
  ASSUME NEW names, NEW chars, NEW n, NEW c
  PROVE  <<n, c>> \in Operations(names, chars) <=> n \in names /\ c \in chars
BY DEF Operations

LEMMA IdleIsGood ==
  ASSUME NEW g \in Guild
  PROVE  /\ RunOK(g, NoScan)
         /\ \A c \in Char : \A row : Good(g, NoScan, c, row)
BY Distinct DEF RunOK, NoScan, RunFields, Good, OpsBelong, IsFollowed, Comparing, Awaited

LEMMA MemberRankIs ==
  ASSUME NEW g \in Guild, NEW c \in Char
  PROVE  MemberRank(g, c) = RankIn(g, members[IdOf[g]][c])
BY DEF MemberRank, RankIn

LEMMA RankOK ==
  ASSUME NEW g \in Guild, NEW row \in MemberRow \cup {NoRow}
  PROVE  RankIn(g, row) \in Rank \cup {Absent}
BY DEF RankIn, MemberRow

(* The ranks that are read are a roster.                                   *)
LEMMA OriginalOK ==
  ASSUME TablesOK, NEW g \in Guild, NEW original, original = [c \in Char |-> MemberRank(g, c)]
  PROVE  /\ original \in Roster
         /\ \A c \in Char : original[c] = RankIn(g, members[IdOf[g]][c])
<1>1. ASSUME NEW c \in Char
      PROVE  original[c] = RankIn(g, members[IdOf[g]][c]) /\ original[c] \in Rank \cup {Absent}
  <2>1. members[IdOf[g]][c] \in MemberRow \cup {NoRow}
    BY Distinct DEF TablesOK
  <2> QED BY <2>1, RankOK, MemberRankIs
<1> QED BY <1>1 DEF Roster

LEMMA ScansInit == ASSUME Init PROVE ScansInv
<1>1. site \in [Guild -> Roster]
  BY Distinct, ConstantsAssumption DEF Init
<1>2. TablesOK
  BY <1>1 DEF Init, TablesOK
<1>3. \A g \in Guild : scan[g] = NoScan
  BY DEF Init
<1> QED BY <1>2, <1>3, IdleIsGood DEF Init, ScansInv

(* A step of g's scan changes what belongs to g.                           *)
LEMMA ScanMoves ==
  ASSUME ScansInv, OwnIds, NEW g \in Guild, NEW run, RunOK(g, run),
         NEW t \in [Char -> MemberRow \cup {NoRow}],
         \A c \in Char : Good(g, run, c, t[c]),
         scan' = [scan EXCEPT ![g] = run], members' = [members EXCEPT ![IdOf[g]] = t],
         TablesOK'
  PROVE  ScansInv'
<1>1. ASSUME NEW h \in Guild
      PROVE  RunOK(h, scan'[h]) /\ \A c \in Char : Good(h, scan'[h], c, members'[IdOf[h]][c])
  <2>1. CASE h = g
    BY <2>1, Distinct DEF ScansInv, TablesOK
  <2>2. CASE h # g
    <3>1. scan'[h] = scan[h] /\ members'[IdOf[h]] = members[IdOf[h]]
      BY <2>2, Distinct DEF ScansInv, TablesOK, OwnIds
    <3> QED BY <3>1 DEF ScansInv
  <2> QED BY <2>1, <2>2
<1>2. scan' = [h \in Guild |-> scan'[h]]
  BY DEF ScansInv
<1> QED BY <1>1, <1>2 DEF ScansInv

(* Most steps leave the tables alone.                                      *)
LEMMA ScanGoesOn ==
  ASSUME ScansInv, OwnIds, NEW g \in Guild, NEW run, RunOK(g, run),
         \A c \in Char : Good(g, run, c, members[IdOf[g]][c]),
         scan' = [scan EXCEPT ![g] = run], UNCHANGED <<site, guilds, members>>
  PROVE  ScansInv'
<1>1. members[IdOf[g]] \in [Char -> MemberRow \cup {NoRow}]
      /\ members' = [members EXCEPT ![IdOf[g]] = members[IdOf[g]]]
  BY Distinct DEF ScansInv, TablesOK
<1>2. TablesOK'
  BY DEF ScansInv, TablesOK
<1> HIDE DEF Good, RunOK, ScansInv, OwnIds, TablesOK
<1> QED BY <1>1, <1>2, ScanMoves

(* The todo list of a scan without the operation, and with others.         *)
LEMMA OtherOps ==
  ASSUME NEW todo, NEW m, NEW c, NEW d, d # c, NEW n, NEW names
  PROVE  /\ <<n, d>> \in (todo \ {<<m, c>>}) \cup Operations(names, {c}) <=> <<n, d>> \in todo
         /\ <<n, d>> \in (todo \ {<<m, c>>}) <=> <<n, d>> \in todo
BY DEF Operations

(* An operation of c is over: the other members' operations stay.          *)
OneMoves(run, next, c) ==
  /\ next.step = run.step /\ (next.clean => run.clean)
  /\ next.listed = run.listed /\ next.original = run.original
  /\ \A d \in Char \ {c} :
       /\ next.roster[d] = run.roster[d]
       /\ \A n : <<n, d>> \in next.todo <=> <<n, d>> \in run.todo

LEMMA OthersStay ==
  ASSUME NEW g \in Guild, NEW run, NEW next, NEW c \in Char, OneMoves(run, next, c),
         NEW d \in Char \ {c}, NEW row, Good(g, run, d, row)
  PROVE  Good(g, next, d, row)
BY DEF OneMoves, Good, OpsBelong, IsFollowed, Awaited, Stays, Joins, Departs

-----------------------------------------------------------------------------
(* The steps of a scan.                                                    *)
LEMMA ChangeKeeps == ASSUME ScansInv, NEW s \in Sites, Change(s) PROVE ScansInv'
<1>1. s \in [Guild -> Roster]
  BY Distinct
<1>2. TablesOK'
  BY <1>1 DEF Change, tables, ScansInv, TablesOK
<1> QED BY <1>2 DEF Change, tables, ScansInv

LEMMA StartKeeps ==
  ASSUME ScansInv, OwnIds, NEW g \in Guild, NEW id \in {IdOf[g], NoId}, Start(g, id) PROVE ScansInv'
<1> DEFINE run == [NoScan EXCEPT !.step = "request", !.isNew = guilds[g] = NoRow, !.id = id]
<1>1. RunOK(g, run)
  BY Distinct DEF RunOK, NoScan, RunFields, Comparing
<1>2. \A c \in Char : Good(g, run, c, members[IdOf[g]][c])
  BY DEF Good, OpsBelong, IsFollowed, Comparing, Awaited, NoScan
<1>3. scan' = [scan EXCEPT ![g] = run] /\ UNCHANGED <<site, guilds, members>>
  BY DEF Start, Scans, tables
<1> HIDE DEF run
<1> QED BY <1>1, <1>2, <1>3, ScanGoesOn

(* The job that fetched goes on with what it got.                          *)
LEMMA FetchKeeps ==
  ASSUME ScansInv, OwnIds, NEW g \in Guild, NEW isSummary \in BOOLEAN, NEW isRoster \in BOOLEAN,
         FetchGuildData(g, isSummary, isRoster)
  PROVE  ScansInv'
<1>1. UNCHANGED <<site, guilds, members>>
  BY DEF FetchGuildData, Scans, tables
<1>2. RunOK(g, scan[g]) /\ site[g] \in Roster /\ scan[g].step = "request"
  BY DEF ScansInv, TablesOK, FetchGuildData
<1>3. CASE isRoster
  <2> DEFINE run == [scan[g] EXCEPT !.step = "roster", !.summary = isSummary, !.listed = site[g],
                                    !.todo = Operations({"find"}, Present(site[g]))]
  <2>1. scan' = [scan EXCEPT ![g] = run] /\ site[g] # Nobody
    BY <1>3 DEF FetchGuildData, Scans
  <2>2. RunOK(g, run)
    BY <1>2, <2>1 DEF RunOK, RunFields
  <2>3. ASSUME NEW c \in Char PROVE Good(g, run, c, members[IdOf[g]][c])
    <3>1. run.step = "roster" /\ run.listed = site[g] /\ run.todo = Operations({"find"}, Present(site[g]))
          /\ run.roster = Nobody
      BY <1>2 DEF RunOK, RunFields
    <3>2. Awaited(run, {"find", "save"}, c) \/ run.roster[c] = run.listed[c]
      BY <3>1, InOperations, <1>2 DEF Awaited, Present, Nobody
    <3> QED BY <3>1, <3>2 DEF Good, OpsBelong, IsFollowed, Comparing
  <2> HIDE DEF run
  <2> QED BY <1>1, <2>1, <2>2, <2>3, ScanGoesOn
<1>4. CASE ~isRoster
  <2> DEFINE run == [scan[g] EXCEPT !.step = "changes", !.summary = isSummary, !.clean = FALSE,
                                    !.todo = {<<"logs", NoRow>>, <<"master", NoRow>>}]
  <2>1. scan' = [scan EXCEPT ![g] = run]
    BY <1>4 DEF FetchGuildData, Scans
  <2>2. RunOK(g, run)
    BY <1>2 DEF RunOK, RunFields, Comparing
  <2>3. ASSUME NEW c \in Char PROVE Good(g, run, c, members[IdOf[g]][c])
    BY <1>2 DEF RunOK, RunFields, Good, OpsBelong
  <2> HIDE DEF run
  <2> QED BY <1>1, <2>1, <2>2, <2>3, ScanGoesOn
<1> QED BY <1>3, <1>4

(* What must be seen to is c's row.                                        *)
LEMMA OperationEnds ==
  ASSUME ScansInv, OwnIds, NEW g \in Guild, NEW c \in Char, NEW run,
         NEW row \in MemberRow \cup {NoRow},
         RunOK(g, run), OneMoves(scan[g], run, c), Good(g, run, c, row),
         scan' = [scan EXCEPT ![g] = run], members' = [members EXCEPT ![IdOf[g]][c] = row],
         UNCHANGED <<site, guilds>>
  PROVE  ScansInv'
<1> DEFINE t == [members[IdOf[g]] EXCEPT ![c] = row]
<1>1. members[IdOf[g]] \in [Char -> MemberRow \cup {NoRow}]
  BY Distinct DEF ScansInv, TablesOK
<1>2. t \in [Char -> MemberRow \cup {NoRow}] /\ members' = [members EXCEPT ![IdOf[g]] = t]
  BY <1>1
<1>3. TablesOK'
  BY <1>2, Distinct DEF ScansInv, TablesOK
<1>4. ASSUME NEW d \in Char PROVE Good(g, run, d, t[d])
  <2>1. CASE d = c
    BY <2>1, <1>1
  <2>2. CASE d # c
    <3>1. t[d] = members[IdOf[g]][d] /\ Good(g, scan[g], d, members[IdOf[g]][d])
      BY <2>2, <1>1 DEF ScansInv
    <3> HIDE DEF t
    <3> QED BY <2>2, <3>1, OthersStay
  <2> QED BY <2>1, <2>2
<1> HIDE DEF t
<1> QED BY <1>2, <1>3, <1>4, ScanMoves

(* The same, where the row stays as it is.                                 *)
LEMMA RowStays ==
  ASSUME ScansInv, OwnIds, NEW g \in Guild, NEW c \in Char, NEW run,
         RunOK(g, run), OneMoves(scan[g], run, c), Good(g, run, c, members[IdOf[g]][c]),
         scan' = [scan EXCEPT ![g] = run], UNCHANGED <<site, guilds, members>>
  PROVE  ScansInv'
<1>1. ASSUME NEW d \in Char PROVE Good(g, run, d, members[IdOf[g]][d])
  <2>1. Good(g, scan[g], d, members[IdOf[g]][d])
    BY DEF ScansInv
  <2> QED BY <2>1, OthersStay
<1> QED BY <1>1, ScanGoesOn

(* What the operations do to a scan.                                       *)
DoneRun(g, m, names, c) ==
  [scan[g] EXCEPT !.todo = (scan[g].todo \ {<<m, c>>}) \cup Operations(names, {c})]

ProcessedRun(g, m, c) ==
  [scan[g] EXCEPT !.todo = scan[g].todo \ {<<m, c>>},
                  !.roster = [scan[g].roster EXCEPT ![c] = scan[g].listed[c]]]

LEMMA DoneIs ==
  ASSUME NEW g \in Guild, RunOK(g, scan[g]), NEW c \in Char, NEW m, NEW names
  PROVE  LET run == DoneRun(g, m, names, c)
         IN /\ RunOK(g, run) /\ OneMoves(scan[g], run, c)
            /\ run.todo = (scan[g].todo \ {<<m, c>>}) \cup Operations(names, {c})
            /\ run.step = scan[g].step /\ run.clean = scan[g].clean /\ run.id = scan[g].id
            /\ run.isNew = scan[g].isNew /\ run.listed = scan[g].listed
            /\ run.roster = scan[g].roster /\ run.original = scan[g].original
<1> DEFINE run == DoneRun(g, m, names, c)
<1>1. /\ RunOK(g, run)
      /\ run.todo = (scan[g].todo \ {<<m, c>>}) \cup Operations(names, {c})
      /\ run.step = scan[g].step /\ run.clean = scan[g].clean /\ run.id = scan[g].id
      /\ run.isNew = scan[g].isNew /\ run.listed = scan[g].listed
      /\ run.roster = scan[g].roster /\ run.original = scan[g].original
  BY DEF RunOK, RunFields, DoneRun
<1> HIDE DEF run
<1>2. OneMoves(scan[g], run, c)
  BY <1>1, OtherOps DEF OneMoves
<1> QED BY <1>1, <1>2 DEF run

LEMMA ProcessedIs ==
  ASSUME NEW g \in Guild, RunOK(g, scan[g]), scan[g].step = "roster", NEW m, NEW c \in Char
  PROVE  LET run == ProcessedRun(g, m, c)
         IN /\ RunOK(g, run) /\ OneMoves(scan[g], run, c)
            /\ run.todo = scan[g].todo \ {<<m, c>>}
            /\ run.step = scan[g].step /\ run.clean = scan[g].clean /\ run.id = scan[g].id
            /\ run.isNew = scan[g].isNew /\ run.listed = scan[g].listed
            /\ run.original = scan[g].original /\ run.roster[c] = scan[g].listed[c]
<1> DEFINE roster == [scan[g].roster EXCEPT ![c] = scan[g].listed[c]]
           run == ProcessedRun(g, m, c)
<1>1. /\ roster \in Roster /\ roster[c] = scan[g].listed[c]
      /\ \A d \in Char \ {c} : roster[d] = scan[g].roster[d]
  BY DEF RunOK, Roster
<1> HIDE DEF roster
<1>2. run = [scan[g] EXCEPT !.todo = scan[g].todo \ {<<m, c>>}, !.roster = roster]
  BY DEF ProcessedRun, roster
<1>3. /\ run.todo = scan[g].todo \ {<<m, c>>} /\ run.roster = roster
      /\ run.step = scan[g].step /\ run.clean = scan[g].clean /\ run.id = scan[g].id
      /\ run.isNew = scan[g].isNew /\ run.listed = scan[g].listed
      /\ run.original = scan[g].original /\ DOMAIN run = RunFields
  BY <1>2 DEF RunOK, RunFields
<1> HIDE DEF run
<1>4. RunOK(g, run)
  BY <1>1, <1>3 DEF RunOK
<1>5. OneMoves(scan[g], run, c)
  BY <1>1, <1>3, OtherOps DEF OneMoves
<1> QED BY <1>1, <1>3, <1>4, <1>5 DEF run

LEMMA ProcessedMoves ==
  ASSUME NEW g \in Guild, RunOK(g, scan[g]), NEW m, NEW c, NEW op, op = <<m, c>>, Processed(g, op)
  PROVE  scan' = [scan EXCEPT ![g] = ProcessedRun(g, m, c)] /\ UNCHANGED <<site, changes>>
<1>1. op[2] = c
  OBVIOUS
<1>2. [scan[g] EXCEPT !.todo = @ \ {op}, !.roster[op[2]] = scan[g].listed[op[2]]]
        = ProcessedRun(g, m, c)
  BY <1>1 DEF ProcessedRun, RunOK, RunFields
<1> QED BY <1>2 DEF Processed, Scans

(* A member that is processed is as the roster lists it.                   *)
LEMMA ProcessedKeeps ==
  ASSUME ScansInv, OwnIds, NEW g \in Guild, NEW c \in Char, NEW m \in {"find", "save"},
         scan[g].step = "roster", Processed(g, <<m, c>>), UNCHANGED <<guilds, members>>
  PROVE  ScansInv'
<1> DEFINE run == ProcessedRun(g, m, c)
<1>1. RunOK(g, scan[g])
  BY DEF ScansInv
<1>2. /\ RunOK(g, run) /\ OneMoves(scan[g], run, c)
      /\ run.step = scan[g].step /\ run.listed = scan[g].listed /\ run.roster[c] = scan[g].listed[c]
  BY <1>1, ProcessedIs
<1>3. scan' = [scan EXCEPT ![g] = run] /\ UNCHANGED site
  BY <1>1, ProcessedMoves
<1> HIDE DEF run
<1>4. Good(g, run, c, members[IdOf[g]][c])
  BY <1>1, <1>2 DEF Good, OpsBelong, IsFollowed, Comparing
<1> QED BY <1>2, <1>3, <1>4, RowStays

LEMMA DoneMoves ==
  ASSUME NEW g, NEW m, NEW names, NEW c, Done(g, <<m, c>>, Operations(names, {c}))
  PROVE  scan' = [scan EXCEPT ![g] = DoneRun(g, m, names, c)] /\ UNCHANGED <<site, changes>>
BY DEF Done, Scans, DoneRun

LEMMA FindKeeps ==
  ASSUME ScansInv, OwnIds, NEW g \in Guild, NEW c \in Char, NEW isUpdateByGuild \in BOOLEAN,
         FindCharacter(g, c, isUpdateByGuild)
  PROVE  ScansInv'
<1> DEFINE run == DoneRun(g, "find", {"save"}, c)
<1>1. RunOK(g, scan[g]) /\ scan[g].step = "roster" /\ UNCHANGED <<guilds, members>>
  BY DEF ScansInv, Awaits, FindCharacter, tables
<1>2. CASE Processed(g, <<"find", c>>)
  BY <1>1, <1>2, ProcessedKeeps
<1>3. CASE Done(g, <<"find", c>>, {<<"save", c>>})
  <2>1. {<<"save", c>>} = Operations({"save"}, {c})
    BY DEF Operations
  <2>2. scan' = [scan EXCEPT ![g] = run] /\ UNCHANGED site
    BY <1>3, <2>1, DoneMoves
  <2>3. /\ RunOK(g, run) /\ OneMoves(scan[g], run, c) /\ run.step = scan[g].step
        /\ run.todo = (scan[g].todo \ {<<"find", c>>}) \cup Operations({"save"}, {c})
    BY <1>1, DoneIs
  <2> HIDE DEF run
  <2>4. Good(g, run, c, members[IdOf[g]][c])
    BY <1>1, <2>3, InOperations DEF Good, OpsBelong, IsFollowed, Comparing, Awaited
  <2> QED BY <1>1, <2>2, <2>3, <2>4, RowStays
<1> QED BY <1>2, <1>3 DEF FindCharacter

LEMMA SaveCharacterKeeps ==
  ASSUME ScansInv, OwnIds, NEW g \in Guild, NEW c \in Char, SaveCharacter(g, c) PROVE ScansInv'
BY ProcessedKeeps DEF SaveCharacter, Awaits

(* A statement whose effect is not on the table of members.                *)
LEMMA DoneKeeps ==
  ASSUME ScansInv, OwnIds, NEW g \in Guild, NEW c \in Char, NEW m \in {"log", "character"},
         NEW names, <<m, c>> \in scan[g].todo, scan[g].step \in Comparing,
         m = "log" /\ scan[g].step # "ranks" => "member" \in names,
         scan' = [scan EXCEPT ![g] = DoneRun(g, m, names, c)], UNCHANGED <<site, guilds, members>>
  PROVE  ScansInv'
<1> DEFINE run == DoneRun(g, m, names, c)
<1>1. RunOK(g, scan[g]) /\ Good(g, scan[g], c, members[IdOf[g]][c])
  BY DEF ScansInv
<1>2. /\ RunOK(g, run) /\ OneMoves(scan[g], run, c)
      /\ run.todo = (scan[g].todo \ {<<m, c>>}) \cup Operations(names, {c})
      /\ run.step = scan[g].step /\ run.clean = scan[g].clean
      /\ run.listed = scan[g].listed /\ run.original = scan[g].original
      /\ run.roster = scan[g].roster
  BY <1>1, DoneIs
<1> HIDE DEF run
<1>3. /\ Awaited(scan[g], {"log", "member", "character"}, c)
      /\ <<"member", c>> \in scan[g].todo => <<"member", c>> \in run.todo
      /\ Awaited(scan[g], {"log", "member"}, c) /\ scan[g].step # "ranks" => Awaited(run, {"log", "member"}, c)
  BY <1>2, InOperations DEF Awaited
<1>4. Good(g, run, c, members[IdOf[g]][c])
  BY <1>1, <1>2, <1>3 DEF Good, OpsBelong, IsFollowed, Comparing, Stays, Joins, Departs
<1>5. scan' = [scan EXCEPT ![g] = run]
  BY DEF run
<1> QED BY <1>2, <1>4, <1>5, RowStays

LEMMA SaveLogKeeps ==
  ASSUME ScansInv, OwnIds, NEW g \in Guild, NEW c \in Char, SaveLog(g, c) PROVE ScansInv'
<1> DEFINE names == IF scan[g].step = "ranks" THEN {} ELSE {"member", "character"}
<1>1. scan[g].step \in Comparing /\ <<"log", c>> \in scan[g].todo /\ UNCHANGED <<guilds, members>>
  BY DEF SaveLog, Awaits, Comparing
<1>2. Done(g, <<"log", c>>, Operations(names, {c}))
  BY DEF SaveLog, Operations
<1> HIDE DEF names
<1>3. scan[g].step # "ranks" => "member" \in names
  BY DEF names
<1>4. scan' = [scan EXCEPT ![g] = DoneRun(g, "log", names, c)] /\ UNCHANGED site
  BY <1>2, DoneMoves
<1> QED BY <1>1, <1>3, <1>4, DoneKeeps

LEMMA UpdateCharacterKeeps ==
  ASSUME ScansInv, OwnIds, NEW g \in Guild, NEW c \in Char, UpdateCharacter(g, c) PROVE ScansInv'
<1>1. /\ scan[g].step \in Comparing /\ <<"character", c>> \in scan[g].todo /\ UNCHANGED <<guilds, members>>
      /\ Done(g, <<"character", c>>, {})
  BY DEF UpdateCharacter, Awaits, Comparing
<1>2. Done(g, <<"character", c>>, Operations({}, {c}))
  BY <1>1 DEF Operations
<1>3. scan' = [scan EXCEPT ![g] = DoneRun(g, "character", {}, c)] /\ UNCHANGED site
  BY <1>2, DoneMoves
<1>4. "character" = "log" /\ scan[g].step # "ranks" => "member" \in {}
  OBVIOUS
<1> QED BY <1>1, <1>3, <1>4, DoneKeeps

(* A member's statement: the operation ends, the row becomes row.          *)
LEMMA MemberKeeps ==
  ASSUME ScansInv, OwnIds, NEW g \in Guild, NEW c \in Char, NEW row \in MemberRow \cup {NoRow},
         Done(g, <<"member", c>>, {}), scan[g].step \in Comparing,
         members' = [members EXCEPT ![IdOf[g]][c] = row], UNCHANGED guilds,
         scan[g].clean => IsFollowed(DoneRun(g, "member", {}, c), c, RankIn(g, row))
  PROVE  ScansInv'
<1> DEFINE run == DoneRun(g, "member", {}, c)
<1>1. RunOK(g, scan[g]) /\ Good(g, scan[g], c, members[IdOf[g]][c])
  BY DEF ScansInv
<1>2. /\ RunOK(g, run) /\ OneMoves(scan[g], run, c)
      /\ run.todo = (scan[g].todo \ {<<"member", c>>}) \cup Operations({}, {c})
      /\ run.step = scan[g].step /\ run.clean = scan[g].clean
      /\ run.roster = scan[g].roster /\ run.original = scan[g].original
  BY <1>1, DoneIs
<1>3. Done(g, <<"member", c>>, Operations({}, {c}))
  BY DEF Operations
<1>4. scan' = [scan EXCEPT ![g] = run] /\ UNCHANGED site
  BY <1>3, DoneMoves
<1>5. scan[g].clean => IsFollowed(run, c, RankIn(g, row))
  OBVIOUS
<1> HIDE DEF run
<1>6. Good(g, run, c, row)
  BY <1>1, <1>2, <1>5, InOperations DEF Good, OpsBelong, Awaited, Stays, Joins, Departs
<1> QED BY <1>2, <1>4, <1>6, OperationEnds

(* The row's rank is the roster's: the member is seen to.                  *)
LEMMA SettledIsFollowed ==
  ASSUME ScansInv, NEW g \in Guild, NEW c \in Char, scan[g].clean, scan[g].step \in Comparing,
         <<"member", c>> \in scan[g].todo
  PROVE  IsFollowed(DoneRun(g, "member", {}, c), c, scan[g].roster[c])
<1> DEFINE run == DoneRun(g, "member", {}, c)
<1>1. RunOK(g, scan[g]) /\ Good(g, scan[g], c, members[IdOf[g]][c])
  BY DEF ScansInv
<1>2. /\ run.todo = (scan[g].todo \ {<<"member", c>>}) \cup Operations({}, {c})
      /\ run.step = scan[g].step /\ run.listed = scan[g].listed
      /\ run.roster = scan[g].roster /\ run.original = scan[g].original
  BY <1>1, DoneIs
<1> HIDE DEF run
<1>3. Awaited(scan[g], {"log", "member", "character"}, c)
  BY DEF Awaited
<1> HIDE DEF run
<1>4. IsFollowed(run, c, run.roster[c])
  BY <1>1, <1>2, <1>3 DEF Good, OpsBelong, IsFollowed, Follows, Comparing, Stays, Joins, Departs
<1> QED BY <1>2, <1>4 DEF run

LEMMA UpdateRankKeeps ==
  ASSUME ScansInv, OwnIds, NEW g \in Guild, NEW c \in Char, UpdateRank(g, c) PROVE ScansInv'
<1> DEFINE old == members[IdOf[g]][c]
           rank == scan[g].roster[c]
           row == IF MemberRank(g, c) = Absent THEN old ELSE [old EXCEPT !.rank = rank]
<1>1. /\ scan[g].step = "ranks" /\ <<"member", c>> \in scan[g].todo
      /\ Done(g, <<"member", c>>, {}) /\ UNCHANGED guilds
      /\ members' = [members EXCEPT ![IdOf[g]][c] = row]
  BY DEF UpdateRank, Awaits
<1>2. RunOK(g, scan[g]) /\ Good(g, scan[g], c, old) /\ old \in MemberRow \cup {NoRow}
  BY Distinct DEF ScansInv, TablesOK
<1>3. rank \in Rank /\ Stays(scan[g], c)
  BY <1>1, <1>2 DEF Good, OpsBelong, Awaited, RunOK, Roster, Stays
<1>4. CASE MemberRank(g, c) = Absent
  <2>1. row = old /\ RankIn(g, old) = Absent
    BY <1>4, MemberRankIs
  <2>2. ~scan[g].clean
    BY <1>1, <1>2, <1>3, <2>1 DEF Good, IsFollowed, Comparing, Stays
  <2> HIDE DEF row
  <2> QED BY <1>1, <1>2, <2>1, <2>2, MemberKeeps DEF Comparing
<1>5. CASE MemberRank(g, c) # Absent
  <2>1. old # NoRow /\ old.guild = g /\ row = [old EXCEPT !.rank = rank]
    BY <1>5, MemberRankIs DEF RankIn
  <2>2. row \in MemberRow /\ RankIn(g, row) = rank
    BY <1>2, <1>3, <2>1, Distinct DEF MemberRow, RankIn
  <2> HIDE DEF row
  <2>3. scan[g].clean => IsFollowed(DoneRun(g, "member", {}, c), c, RankIn(g, row))
    BY <1>1, <2>2, SettledIsFollowed DEF Comparing
  <2>4. scan[g].step \in Comparing
    BY <1>1 DEF Comparing
  <2> QED BY <1>1, <2>2, <2>3, <2>4, MemberKeeps
<1> QED BY <1>4, <1>5

LEMMA SaveMemberKeeps ==
  ASSUME ScansInv, OwnIds, NEW g \in Guild, NEW c \in Char, SaveMember(g, c) PROVE ScansInv'
<1> DEFINE row == [guild |-> g, rank |-> scan[g].roster[c]]
<1>1. RunOK(g, scan[g]) /\ Good(g, scan[g], c, members[IdOf[g]][c])
  BY DEF ScansInv
<1>2. /\ scan[g].step = "joins" /\ <<"member", c>> \in scan[g].todo
      /\ Done(g, <<"member", c>>, {}) /\ UNCHANGED guilds /\ scan[g].id = IdOf[g]
      /\ members' = [members EXCEPT ![IdOf[g]][c] = row]
  BY <1>1 DEF SaveMember, Awaits, RunOK
<1>3. scan[g].roster[c] \in Rank
  BY <1>1, <1>2 DEF Good, OpsBelong, Awaited, RunOK, Roster, Joins
<1>4. row \in MemberRow /\ RankIn(g, row) = scan[g].roster[c]
  BY <1>3, Distinct DEF MemberRow, RankIn
<1> HIDE DEF row
<1>5. scan[g].clean => IsFollowed(DoneRun(g, "member", {}, c), c, RankIn(g, row))
  BY <1>2, <1>4, SettledIsFollowed DEF Comparing
<1>6. scan[g].step \in Comparing
  BY <1>2 DEF Comparing
<1> QED BY <1>2, <1>4, <1>5, <1>6, MemberKeeps

LEMMA DeleteMemberKeeps ==
  ASSUME ScansInv, OwnIds, NEW g \in Guild, NEW c \in Char, DeleteMember(g, c) PROVE ScansInv'
<1> DEFINE old == members[IdOf[g]][c]
           row == IF MemberRank(g, c) = Absent THEN old ELSE NoRow
<1>1. /\ scan[g].step = "leaves" /\ <<"member", c>> \in scan[g].todo
      /\ Done(g, <<"member", c>>, {}) /\ UNCHANGED guilds
      /\ members' = [members EXCEPT ![IdOf[g]][c] = row]
  BY DEF DeleteMember, Awaits
<1>2. RunOK(g, scan[g]) /\ Good(g, scan[g], c, old) /\ old \in MemberRow \cup {NoRow}
  BY Distinct DEF ScansInv, TablesOK
<1>3. scan[g].roster[c] = Absent
  BY <1>1, <1>2 DEF Good, OpsBelong, Awaited, Departs
<1>4. row \in MemberRow \cup {NoRow} /\ RankIn(g, row) = Absent
  BY <1>2, MemberRankIs DEF RankIn
<1> HIDE DEF row
<1>5. scan[g].clean => IsFollowed(DoneRun(g, "member", {}, c), c, RankIn(g, row))
  BY <1>1, <1>3, <1>4, SettledIsFollowed DEF Comparing
<1>6. scan[g].step \in Comparing
  BY <1>1 DEF Comparing
<1> QED BY <1>1, <1>4, <1>5, <1>6, MemberKeeps

(* A scan that is not clean any more, on the same tables: what is left of  *)
(* its operations belongs to the same members.                             *)
LEMMA NotCleanKeeps ==
  ASSUME ScansInv, OwnIds, NEW g \in Guild, NEW op,
         scan' = [scan EXCEPT ![g] = [scan[g] EXCEPT !.todo = scan[g].todo \ {op}, !.clean = FALSE]],
         UNCHANGED <<site, guilds, members>>
  PROVE  ScansInv'
<1> DEFINE run == [scan[g] EXCEPT !.todo = scan[g].todo \ {op}, !.clean = FALSE]
<1>1. RunOK(g, scan[g])
  BY DEF ScansInv
<1>2. /\ run.todo = scan[g].todo \ {op} /\ run.step = scan[g].step /\ run.clean = FALSE
      /\ run.roster = scan[g].roster /\ run.original = scan[g].original /\ RunOK(g, run)
  BY <1>1 DEF RunOK, RunFields
<1>3. scan' = [scan EXCEPT ![g] = run]
  OBVIOUS
<1> HIDE DEF run
<1>4. ASSUME NEW c \in Char PROVE Good(g, run, c, members[IdOf[g]][c])
  <2>1. Good(g, scan[g], c, members[IdOf[g]][c])
    BY DEF ScansInv
  <2> QED BY <1>2, <2>1 DEF Good, OpsBelong, Awaited, Stays, Joins, Departs
<1> QED BY <1>2, <1>3, <1>4, ScanGoesOn

LEMMA SaveWithoutIdKeeps ==
  ASSUME ScansInv, OwnIds, NEW g \in Guild, NEW c \in Char, SaveMemberWithoutId(g, c) PROVE ScansInv'
BY NotCleanKeeps DEF SaveMemberWithoutId, Scans, tables

LEMMA OperationFailsKeeps ==
  ASSUME ScansInv, OwnIds, NEW g \in Guild, NEW op, OperationFails(g, op) PROVE ScansInv'
BY NotCleanKeeps DEF OperationFails, Scans, tables

LEMMA JobFailsKeeps ==
  ASSUME ScansInv, OwnIds, NEW g \in Guild, JobFails(g) PROVE ScansInv'
<1>1. scan' = [scan EXCEPT ![g] = NoScan] /\ UNCHANGED <<site, guilds, members>>
  BY DEF JobFails, Scans, tables
<1> QED BY <1>1, IdleIsGood, ScanGoesOn

LEMMA SaveGuildKeeps ==
  ASSUME ScansInv, OwnIds, NEW g \in Guild, SaveGuild(g) PROVE ScansInv'
<1>1. RunOK(g, scan[g])
  BY DEF ScansInv
<1>2. /\ scan' = [scan EXCEPT ![g] = NoScan] /\ UNCHANGED <<site, members>>
      /\ guilds' = [guilds EXCEPT ![g] = [id |-> IF scan[g].summary THEN IdOf[g] ELSE scan[g].id]]
  BY DEF SaveGuild, Scans
<1>3. TablesOK'
  BY <1>1, <1>2 DEF ScansInv, TablesOK, RunOK
<1>4. members[IdOf[g]] \in [Char -> MemberRow \cup {NoRow}]
      /\ members' = [members EXCEPT ![IdOf[g]] = members[IdOf[g]]]
  BY <1>2, Distinct DEF ScansInv, TablesOK
<1> QED BY <1>2, <1>3, <1>4, IdleIsGood, ScanMoves

-----------------------------------------------------------------------------
(* The scan goes from one step to the next.                                *)
LastOps == {<<"logs", NoRow>>, <<"master", NoRow>>}

LEMMA LastOpsAreNoMembers ==
  ASSUME NEW c \in Char, NEW n PROVE <<n, c>> \notin LastOps
BY Distinct DEF LastOps

LEMMA CompareFailsKeeps ==
  ASSUME ScansInv, OwnIds, NEW g \in Guild, CompareFails(g) PROVE ScansInv'
<1> DEFINE run == [scan[g] EXCEPT !.step = "changes", !.clean = FALSE, !.todo = LastOps]
<1>1. scan' = [scan EXCEPT ![g] = run] /\ UNCHANGED <<site, guilds, members>>
  BY DEF CompareFails, Scans, tables, LastOps
<1>2. RunOK(g, scan[g])
  BY DEF ScansInv
<1>3. RunOK(g, run) /\ run.step = "changes" /\ run.clean = FALSE
  BY <1>2 DEF RunOK, RunFields, Comparing
<1> HIDE DEF run
<1>4. \A c \in Char : Good(g, run, c, members[IdOf[g]][c])
  BY <1>3 DEF Good, OpsBelong
<1> QED BY <1>1, <1>3, <1>4, ScanGoesOn

(* Every member is processed: the scan has the roster it was sent.         *)
LEMMA RosterIsListed ==
  ASSUME ScansInv, NEW g \in Guild, scan[g].step = "roster", scan[g].todo = {}, scan[g].clean
  PROVE  scan[g].roster = scan[g].listed
<1>1. RunOK(g, scan[g])
  BY DEF ScansInv
<1>2. ASSUME NEW c \in Char PROVE scan[g].roster[c] = scan[g].listed[c]
  BY DEF ScansInv, Good, IsFollowed, Awaited
<1> QED BY <1>1, <1>2 DEF RunOK, Roster

ComparedRun(g, original) ==
  LET run == [scan[g] EXCEPT !.original = original]
      changed == {c \in Present(original) \cap Present(run.roster) :
                    /\ original[c] # run.roster[c]
                    /\ OSINT_GM_RANK \notin {original[c], run.roster[c]}}
  IN [run EXCEPT !.step = "ranks", !.todo = Operations({"log", "member", "character"}, changed)]

LEMMA ComparedIs ==
  ASSUME NEW g \in Guild, RunOK(g, scan[g]), scan[g].step = "roster", NEW original \in Roster
  PROVE  LET run == ComparedRun(g, original)
         IN /\ RunOK(g, run) /\ run.step = "ranks" /\ run.clean = scan[g].clean /\ run.id = scan[g].id
            /\ run.isNew = scan[g].isNew /\ run.listed = scan[g].listed
            /\ run.roster = scan[g].roster /\ run.original = original
            /\ \A c \in Char : \A n :
                 <<n, c>> \in run.todo <=>
                   /\ n \in {"log", "member", "character"}
                   /\ original[c] # Absent /\ scan[g].roster[c] # Absent
                   /\ original[c] # scan[g].roster[c]
                   /\ OSINT_GM_RANK \notin {original[c], scan[g].roster[c]}
<1> DEFINE changed == {c \in Present(original) \cap Present(scan[g].roster) :
                         /\ original[c] # scan[g].roster[c]
                         /\ OSINT_GM_RANK \notin {original[c], scan[g].roster[c]}}
           todo == Operations({"log", "member", "character"}, changed)
           run == ComparedRun(g, original)
<1>1. \A c \in Char : \A n :
        <<n, c>> \in todo <=>
          /\ n \in {"log", "member", "character"}
          /\ original[c] # Absent /\ scan[g].roster[c] # Absent
          /\ original[c] # scan[g].roster[c]
          /\ OSINT_GM_RANK \notin {original[c], scan[g].roster[c]}
  BY InOperations DEF Present
<1>2. [scan[g] EXCEPT !.original = original].roster = scan[g].roster
  BY DEF RunOK, RunFields
<1>3. run = [[scan[g] EXCEPT !.original = original] EXCEPT !.step = "ranks", !.todo = todo]
  BY <1>2 DEF ComparedRun
<1> HIDE DEF todo, run
<1>4. /\ run.step = "ranks" /\ run.clean = scan[g].clean /\ run.id = scan[g].id
      /\ run.isNew = scan[g].isNew /\ run.listed = scan[g].listed
      /\ run.roster = scan[g].roster /\ run.original = original /\ run.todo = todo
      /\ DOMAIN run = RunFields
  BY <1>3 DEF RunOK, RunFields
<1>5. RunOK(g, run)
  BY <1>4 DEF RunOK
<1> QED BY <1>1, <1>4, <1>5 DEF run

LEMMA CompareKeeps ==
  ASSUME ScansInv, OwnIds, NEW g \in Guild, CompareRosters(g) PROVE ScansInv'
<1> DEFINE read == [c \in Char |-> MemberRank(g, c)]
<1>1. PICK original : original = read
  OBVIOUS
<1>2. original \in Roster /\ \A c \in Char : original[c] = RankIn(g, members[IdOf[g]][c])
  BY <1>1, OriginalOK DEF ScansInv
<1>3. /\ RunOK(g, scan[g]) /\ scan[g].step = "roster" /\ scan[g].todo = {}
      /\ UNCHANGED <<site, guilds, members>>
  BY DEF ScansInv, CompareRosters, tables, Scans
<1>4. CASE scan[g].roster = Nobody
  <2> DEFINE run == [scan[g] EXCEPT !.step = "changes", !.todo = LastOps]
  <2>1. [scan[g] EXCEPT !.original = read].roster = scan[g].roster
    BY <1>3 DEF RunOK, RunFields
  <2>2. scan' = [scan EXCEPT ![g] = run]
    BY <1>4, <2>1 DEF CompareRosters, Scans, LastOps
  <2>3. RunOK(g, run) /\ run.step = "changes" /\ run.clean = scan[g].clean
    BY <1>3 DEF RunOK, RunFields, Comparing
  <2>4. ~scan[g].clean
    BY <1>3, <1>4, RosterIsListed DEF RunOK
  <2> HIDE DEF run
  <2>5. \A c \in Char : Good(g, run, c, members[IdOf[g]][c])
    BY <2>3, <2>4 DEF Good, OpsBelong
  <2> QED BY <1>3, <2>2, <2>3, <2>5, ScanGoesOn
<1>5. CASE scan[g].roster # Nobody
  <2> DEFINE run == ComparedRun(g, original)
  <2>1. [scan[g] EXCEPT !.original = original].roster = scan[g].roster
    BY <1>3 DEF RunOK, RunFields
  <2>2. scan' = [scan EXCEPT ![g] = run]
    BY <1>1, <1>5, <2>1 DEF CompareRosters, Scans, ComparedRun
  <2>3. /\ RunOK(g, run) /\ run.step = "ranks" /\ run.clean = scan[g].clean
        /\ run.listed = scan[g].listed /\ run.roster = scan[g].roster /\ run.original = original
        /\ \A c \in Char : \A n :
             <<n, c>> \in run.todo <=>
               /\ n \in {"log", "member", "character"}
               /\ original[c] # Absent /\ scan[g].roster[c] # Absent
               /\ original[c] # scan[g].roster[c]
               /\ OSINT_GM_RANK \notin {original[c], scan[g].roster[c]}
    BY <1>2, <1>3, ComparedIs
  <2> HIDE DEF run
  <2>4. ASSUME NEW c \in Char PROVE Good(g, run, c, members[IdOf[g]][c])
    <3>1. OpsBelong(run, c)
      BY <2>3 DEF OpsBelong, Awaited, Stays
    <3>2. ASSUME run.clean PROVE IsFollowed(run, c, original[c])
      <4>1. run.roster = run.listed
        BY <1>3, <2>3, <3>2, RosterIsListed
      <4> QED BY <2>3, <4>1 DEF IsFollowed, Follows, Comparing, Stays
    <3> QED BY <1>2, <3>1, <3>2 DEF Good
  <2> QED BY <1>3, <2>2, <2>3, <2>4, ScanGoesOn
<1> QED BY <1>4, <1>5

LEMMA InBegin ==
  ASSUME NEW chars, NEW logged, NEW n, NEW c
  PROVE  <<n, c>> \in Begin(chars, logged) <=>
           /\ c \in chars
           /\ IF c \in logged THEN n = "log" ELSE n \in {"member", "character"}
BY InOperations DEF Begin

LEMMA InBeginJoins ==
  ASSUME NEW run, NEW n, NEW c \in Char
  PROVE  <<n, c>> \in BeginJoins(run) <=>
           /\ Joins(run, c)
           /\ IF run.roster[c] # OSINT_GM_RANK /\ run.original # Nobody
                THEN n = "log" ELSE n \in {"member", "character"}
<1> DEFINE chars == Present(run.roster) \ Present(run.original)
           logged == {d \in Char : run.roster[d] # OSINT_GM_RANK /\ ~(run.original = Nobody)}
<1>1. BeginJoins(run) = Begin(chars, logged)
  BY DEF BeginJoins
<1>2. /\ c \in chars <=> Joins(run, c)
      /\ c \in logged <=> run.roster[c] # OSINT_GM_RANK /\ run.original # Nobody
  BY DEF Present, Joins
<1> HIDE DEF chars, logged
<1> QED BY <1>1, <1>2, InBegin

LEMMA InBeginLeaves ==
  ASSUME NEW run, NEW n, NEW c \in Char
  PROVE  <<n, c>> \in BeginLeaves(run) <=>
           /\ Departs(run, c)
           /\ IF run.original[c] # OSINT_GM_RANK THEN n = "log" ELSE n \in {"member", "character"}
<1> DEFINE chars == Present(run.original) \ Present(run.roster)
           logged == {d \in Char : run.original[d] # OSINT_GM_RANK}
<1>1. BeginLeaves(run) = Begin(chars, logged)
  BY DEF BeginLeaves
<1>2. /\ c \in chars <=> Departs(run, c)
      /\ c \in logged <=> run.original[c] # OSINT_GM_RANK
  BY DEF Present, Departs
<1> HIDE DEF chars, logged
<1> QED BY <1>1, <1>2, InBegin

(* The scan at its next step, with the operations it begins with.          *)
StepRun(g, step, todo) == [scan[g] EXCEPT !.step = step, !.todo = todo]

LEMMA StepIs ==
  ASSUME NEW g \in Guild, RunOK(g, scan[g]), scan[g].step \in {"roster"} \cup Comparing,
         NEW step \in {"joins", "leaves", "changes"}, NEW todo
  PROVE  LET run == StepRun(g, step, todo)
         IN /\ RunOK(g, run) /\ run.step = step /\ run.todo = todo
            /\ run.clean = scan[g].clean /\ run.id = scan[g].id /\ run.isNew = scan[g].isNew
            /\ run.listed = scan[g].listed /\ run.roster = scan[g].roster
            /\ run.original = scan[g].original
BY DEF RunOK, RunFields, StepRun, Comparing

LEMMA NextChangesKeeps ==
  ASSUME ScansInv, OwnIds, NEW g \in Guild, NextChanges(g) PROVE ScansInv'
<1>1. RunOK(g, scan[g]) /\ scan[g].todo = {} /\ UNCHANGED <<site, guilds, members>>
  BY DEF ScansInv, NextChanges, tables, Scans
<1>2. \A c \in Char : Good(g, scan[g], c, members[IdOf[g]][c]) /\ \A n : <<n, c>> \notin scan[g].todo
  BY <1>1 DEF ScansInv
<1>3. ASSUME scan[g].step = "ranks", scan' = [scan EXCEPT ![g] = StepRun(g, "joins", BeginJoins(scan[g]))]
      PROVE  ScansInv'
  <2> DEFINE run == StepRun(g, "joins", BeginJoins(scan[g]))
  <2>1. /\ RunOK(g, run) /\ run.step = "joins" /\ run.todo = BeginJoins(scan[g])
        /\ run.clean = scan[g].clean /\ run.listed = scan[g].listed
        /\ run.roster = scan[g].roster /\ run.original = scan[g].original
    BY <1>1, <1>3, StepIs DEF Comparing
  <2> HIDE DEF run
  <2>2. ASSUME NEW c \in Char PROVE Good(g, run, c, members[IdOf[g]][c])
    <3>1. /\ Awaited(run, {"log", "member", "character"}, c) => Joins(run, c)
          /\ Joins(run, c) => Awaited(run, {"log", "member"}, c)
      BY <2>1, InBeginJoins DEF Awaited, Joins
    <3> QED BY <1>2, <1>3, <2>1, <3>1 DEF Good, OpsBelong, IsFollowed, Follows, Comparing, Stays, Joins, Departs
  <2>3. scan' = [scan EXCEPT ![g] = run]
    BY <1>3 DEF run
  <2> QED BY <1>1, <2>1, <2>2, <2>3, ScanGoesOn
<1>4. ASSUME scan[g].step = "joins", scan' = [scan EXCEPT ![g] = StepRun(g, "leaves", BeginLeaves(scan[g]))]
      PROVE  ScansInv'
  <2> DEFINE run == StepRun(g, "leaves", BeginLeaves(scan[g]))
  <2>1. /\ RunOK(g, run) /\ run.step = "leaves" /\ run.todo = BeginLeaves(scan[g])
        /\ run.clean = scan[g].clean /\ run.listed = scan[g].listed
        /\ run.roster = scan[g].roster /\ run.original = scan[g].original
    BY <1>1, <1>4, StepIs DEF Comparing
  <2> HIDE DEF run
  <2>2. ASSUME NEW c \in Char PROVE Good(g, run, c, members[IdOf[g]][c])
    <3>1. /\ Awaited(run, {"log", "member", "character"}, c) => Departs(run, c)
          /\ Departs(run, c) => Awaited(run, {"log", "member"}, c)
      BY <2>1, InBeginLeaves DEF Awaited, Departs
    <3>2. ~Awaited(scan[g], {"log", "member"}, c)
      BY <1>2 DEF Awaited
    <3> QED BY <1>2, <1>4, <2>1, <3>1, <3>2 DEF Good, OpsBelong, IsFollowed, Comparing, Stays, Joins, Departs
  <2>3. scan' = [scan EXCEPT ![g] = run]
    BY <1>4 DEF run
  <2> QED BY <1>1, <2>1, <2>2, <2>3, ScanGoesOn
<1>5. ASSUME scan[g].step = "leaves", scan' = [scan EXCEPT ![g] = StepRun(g, "changes", LastOps)]
      PROVE  ScansInv'
  <2> DEFINE run == StepRun(g, "changes", LastOps)
  <2>1. /\ RunOK(g, run) /\ run.step = "changes"
        /\ run.clean = scan[g].clean /\ run.listed = scan[g].listed
        /\ run.roster = scan[g].roster /\ run.original = scan[g].original
    BY <1>1, <1>5, StepIs DEF Comparing
  <2> HIDE DEF run
  <2>2. ASSUME NEW c \in Char PROVE Good(g, run, c, members[IdOf[g]][c])
    <3>1. ~Awaited(scan[g], {"log", "member"}, c)
      BY <1>2 DEF Awaited
    <3> QED BY <1>2, <1>5, <2>1, <3>1 DEF Good, OpsBelong, IsFollowed, Comparing
  <2>3. scan' = [scan EXCEPT ![g] = run]
    BY <1>5 DEF run
  <2> QED BY <1>1, <2>1, <2>2, <2>3, ScanGoesOn
<1> QED BY <1>3, <1>4, <1>5 DEF NextChanges, Scans, LastOps, StepRun

(* A step beside the members: the guild's own operations.                  *)
LEMMA GuildOpEnds ==
  ASSUME ScansInv, OwnIds, NEW g \in Guild, scan[g].step = "changes", NEW op, NEW next, Done(g, op, next),
         NEW t \in [Char -> MemberRow \cup {NoRow}], members' = [members EXCEPT ![IdOf[g]] = t],
         \A c \in Char : t[c] # members[IdOf[g]][c] => RankIn(g, t[c]) = scan[g].roster[c],
         UNCHANGED guilds
  PROVE  ScansInv'
<1> DEFINE run == [scan[g] EXCEPT !.todo = (scan[g].todo \ {op}) \cup next]
<1>1. RunOK(g, scan[g])
  BY DEF ScansInv
<1>2. /\ RunOK(g, run) /\ run.step = "changes" /\ run.clean = scan[g].clean
      /\ run.listed = scan[g].listed /\ run.roster = scan[g].roster
  BY <1>1 DEF RunOK, RunFields
<1>3. scan' = [scan EXCEPT ![g] = run] /\ UNCHANGED site
  BY DEF Done, Scans
<1> HIDE DEF run
<1>4. ASSUME NEW c \in Char PROVE Good(g, run, c, t[c])
  <2>1. Good(g, scan[g], c, members[IdOf[g]][c])
    BY DEF ScansInv
  <2> QED BY <1>2, <2>1 DEF Good, OpsBelong, IsFollowed, Follows, Comparing
<1>5. TablesOK'
  BY <1>3, Distinct DEF ScansInv, TablesOK
<1> QED BY <1>2, <1>3, <1>4, <1>5, ScanMoves

LEMMA TableStays ==
  ASSUME ScansInv, NEW g \in Guild, UNCHANGED members
  PROVE  /\ members[IdOf[g]] \in [Char -> MemberRow \cup {NoRow}]
         /\ members' = [members EXCEPT ![IdOf[g]] = members[IdOf[g]]]
BY Distinct DEF ScansInv, TablesOK

LEMMA GuildOpKeeps ==
  ASSUME ScansInv, OwnIds, NEW g \in Guild, scan[g].step = "changes", NEW op, NEW next,
         Done(g, op, next), UNCHANGED <<guilds, members>>
  PROVE  ScansInv'
BY TableStays, GuildOpEnds

LEMMA DetectKeeps ==
  ASSUME ScansInv, OwnIds, NEW g \in Guild, DetectChanges(g) PROVE ScansInv'
BY GuildOpKeeps DEF DetectChanges, Awaits

LEMMA FindMasterKeeps ==
  ASSUME ScansInv, OwnIds, NEW g \in Guild, FindMaster(g) PROVE ScansInv'
<1>1. scan[g].step = "changes" /\ UNCHANGED <<guilds, members>>
  BY DEF FindMaster, Awaits, tables
<1>2. PICK next : Done(g, <<"master", NoRow>>, next)
  BY DEF FindMaster
<1> QED BY <1>1, <1>2, GuildOpKeeps

(* A successor takes over: who is ranked has the roster's rank.            *)
RankedTable(g, ranked) ==
  [c \in Char |-> IF c \in ranked /\ MemberRank(g, c) # Absent
                    THEN [members[IdOf[g]][c] EXCEPT !.rank = scan[g].roster[c]]
                    ELSE members[IdOf[g]][c]]

Successor(g, old, new) == {new} \cup ({old} \cap Present(scan[g].roster))

LEMMA RankedIs ==
  ASSUME ScansInv, NEW g \in Guild, NEW ranked, \A c \in ranked : scan[g].roster[c] \in Rank
  PROVE  LET t == RankedTable(g, ranked)
         IN /\ t \in [Char -> MemberRow \cup {NoRow}]
            /\ \A c \in Char :
                 LET row == members[IdOf[g]][c]
                 IN IF c \in ranked /\ RankIn(g, row) # Absent
                      THEN RankIn(g, t[c]) = scan[g].roster[c] ELSE t[c] = row
<1> DEFINE t == RankedTable(g, ranked)
<1>1. ASSUME NEW c \in Char
      PROVE  LET row == members[IdOf[g]][c]
             IN /\ t[c] \in MemberRow \cup {NoRow}
                /\ IF c \in ranked /\ RankIn(g, row) # Absent
                     THEN RankIn(g, t[c]) = scan[g].roster[c] ELSE t[c] = row
  <2> DEFINE row == members[IdOf[g]][c]
  <2>1. row \in MemberRow \cup {NoRow} /\ MemberRank(g, c) = RankIn(g, row)
    BY Distinct, MemberRankIs DEF ScansInv, TablesOK
  <2>2. CASE c \in ranked /\ RankIn(g, row) # Absent
    <3>1. row # NoRow /\ row.guild = g /\ t[c] = [row EXCEPT !.rank = scan[g].roster[c]]
      BY <2>1, <2>2 DEF RankIn, RankedTable
    <3> QED BY <2>1, <2>2, <3>1, Distinct DEF MemberRow, RankIn
  <2>3. CASE ~(c \in ranked /\ RankIn(g, row) # Absent)
    BY <2>1, <2>3 DEF RankedTable
  <2> QED BY <2>2, <2>3
<1>2. t = [c \in Char |-> t[c]]
  BY DEF RankedTable
<1> HIDE DEF t
<1>3. t \in [Char -> MemberRow \cup {NoRow}]
  BY <1>1, <1>2
<1> QED BY <1>1, <1>3 DEF t

LEMMA SuccessorsAreRanked ==
  ASSUME NEW g \in Guild, RunOK(g, scan[g]), NEW old \in Char, NEW new \in Char,
         scan[g].roster[new] = OSINT_GM_RANK
  PROVE  \A c \in Successor(g, old, new) : c \in Char /\ scan[g].roster[c] \in Rank
BY Distinct DEF Successor, Present, RunOK, Roster, OSINT_GM_RANK

(* The master's entry follows what the history has of each of the two.     *)
MasterEntry == [action |-> "MASTER", rank |-> Absent]

Told(entries, old, new) ==
  [c \in Char |-> IF c \in {old, new} THEN Append(entries[c], MasterEntry) ELSE entries[c]]

IsTransition(g, old, new) ==
  /\ scan[g].roster[new] = OSINT_GM_RANK
  /\ members' = [members EXCEPT ![IdOf[g]] = RankedTable(g, Successor(g, old, new))]
  /\ characters' = [c \in Char |->
       IF c \in Successor(g, old, new) /\ characters[c] # NoRow
         THEN [characters[c] EXCEPT !.rank = scan[g].roster[c]] ELSE characters[c]]
  /\ history' = [history EXCEPT ![g] = Told(history[g], old, new)]

LEMMA TransitionIs ==
  ASSUME NEW g \in Guild, NEW old \in Char, ApplyTransition(g, old)
  PROVE  \E new \in Char : IsTransition(g, old, new)
BY DEF ApplyTransition, IsTransition, RankedTable, Successor, Told, MasterEntry

LEMMA TransitionKeeps ==
  ASSUME ScansInv, OwnIds, NEW g \in Guild, NEW old \in Char, ApplyTransition(g, old) PROVE ScansInv'
<1>1. scan[g].step = "changes" /\ Done(g, <<"transition", old>>, {}) /\ UNCHANGED guilds
  BY DEF ApplyTransition, Awaits
<1>2. PICK new \in Char : IsTransition(g, old, new)
  BY TransitionIs
<1>3. RunOK(g, scan[g])
  BY DEF ScansInv
<1> DEFINE t == RankedTable(g, Successor(g, old, new))
<1>4. /\ t \in [Char -> MemberRow \cup {NoRow}]
      /\ \A c \in Char : t[c] # members[IdOf[g]][c] => RankIn(g, t[c]) = scan[g].roster[c]
  <2> DEFINE ranked == Successor(g, old, new)
  <2>1. \A c \in ranked : scan[g].roster[c] \in Rank
    BY <1>2, <1>3, SuccessorsAreRanked DEF IsTransition
  <2> HIDE DEF ranked
  <2>2. LET u == RankedTable(g, ranked)
        IN /\ u \in [Char -> MemberRow \cup {NoRow}]
           /\ \A c \in Char : u[c] # members[IdOf[g]][c] => RankIn(g, u[c]) = scan[g].roster[c]
    BY <2>1, RankedIs
  <2> QED BY <2>2 DEF ranked
<1>5. members' = [members EXCEPT ![IdOf[g]] = t]
  BY <1>2 DEF IsTransition
<1> HIDE DEF t
<1> QED BY <1>1, <1>4, <1>5, GuildOpEnds

-----------------------------------------------------------------------------
LEMMA ScansNext == ASSUME ScansInv, OwnIds, [Next]_vars PROVE ScansInv'
<1>1. CASE UNCHANGED vars
  BY <1>1 DEF vars, tables, ScansInv, TablesOK
<1>2. ASSUME NEW g \in Guild, NEW c \in Char, MemberStep(g, c) PROVE ScansInv'
  BY <1>2, FindKeeps, SaveCharacterKeeps, SaveLogKeeps, UpdateCharacterKeeps, UpdateRankKeeps,
     SaveMemberKeeps, SaveWithoutIdKeeps, DeleteMemberKeeps, TransitionKeeps DEF MemberStep
<1>3. ASSUME NEW g \in Guild, ScanStep(g) \/ Failure(g) PROVE ScansInv'
  BY <1>2, <1>3, FetchKeeps, CompareKeeps, NextChangesKeeps, DetectKeeps, FindMasterKeeps,
     SaveGuildKeeps, OperationFailsKeeps, CompareFailsKeeps, JobFailsKeeps DEF ScanStep, Failure
<1> QED BY <1>1, <1>3, ChangeKeeps, StartKeeps DEF Next

(* A scan that nothing failed in leaves the table as its roster, whatever  *)
(* others have left there.                                                 *)
THEOREM ScansRestore == ASSUME OwnIds PROVE Spec => []ScanRestoresMembers
<1>1. Init => ScansInv
  BY ScansInit
<1>2. ScansInv /\ [Next]_vars => ScansInv'
  BY ScansNext
<1>3. ScansInv => ScanRestoresMembers
  <2> SUFFICES ASSUME ScansInv, NEW g \in Guild, Ends(g), scan[g].clean, NEW c \in Char
               PROVE  Follows(MemberRank(g, c), scan[g].listed[c])
    BY DEF ScanRestoresMembers
  <2> QED BY MemberRankIs DEF ScansInv, Good, IsFollowed, Ends
<1> QED BY <1>1, <1>2, <1>3, PTL DEF Spec

-----------------------------------------------------------------------------
(* One guild, in which nothing has failed.                                 *)
OneGuild == \A g, h \in Guild : g = h

(* Ranks are logged unless one is a master's.                              *)
LogEntry == [action : {"JOIN", "PROMOTE", "DEMOTE"}, rank : Rank \ {OSINT_GM_RANK}]
              \cup [action : {"LEAVE", "MASTER"}, rank : {Absent}]

IsLog(run, c) == <<"log", c>> \in run.todo
IsMember(run, c) == <<"member", c>> \in run.todo

(* How far the history has gone with the table.                            *)
IsTold(run, c, rank, entries) ==
  /\ run.step \notin Comparing => Agrees(rank, entries)
  /\ run.step \in Comparing =>
       /\ ~IsLog(run, c) /\ ~IsMember(run, c) => Agrees(rank, entries)
       /\ ~IsLog(run, c) /\ IsMember(run, c) => Agrees(run.roster[c], entries)
       /\ run.step = "ranks" /\ IsLog(run, c) /\ ~IsMember(run, c) => rank = run.roster[c]
       /\ IsLog(run, c) => run.roster[c] # OSINT_GM_RANK
       /\ IsLog(run, c) /\ run.step = "joins" => run.original # Nobody
       /\ run.step # "leaves" /\ Departs(run, c) => rank = run.original[c]

HasRow(character, g) == character # NoRow /\ character.guild = g

IsFound(c, character) == character # NoRow \/ c \in KnownRealm

(* How far the characters have gone with the roster; one that has no row   *)
(* and whose realm is unknown goes nowhere.                                *)
IsMoved(g, run, c, rank, character) ==
  LET isListed == character = [guild |-> g, rank |-> run.listed[c]]
      isFound == Awaited(run, {"find", "save"}, c)
      isBegun == Awaited(run, {"log", "character"}, c)
  IN /\ run.step = "roster" /\ isFound => run.listed[c] # Absent
     /\ IsFound(c, character) /\ run.step \notin Comparing /\ rank # Absent => HasRow(character, g)
     /\ IsFound(c, character) /\ run.step = "roster" /\ ~isFound /\ run.listed[c] # Absent =>
          character # NoRow /\ (rank # Absent => isListed)
     /\ IsFound(c, character) /\ run.clean =>
          /\ run.step \in {"ranks", "joins"} =>
               /\ run.listed[c] # Absent => character # NoRow
               /\ Departs(run, c) => HasRow(character, g)
          /\ run.step \in Comparing /\ Stays(run, c) => isListed
          /\ run.step = "joins" /\ Joins(run, c) => isListed \/ isBegun
          /\ run.step = "leaves" =>
               /\ Joins(run, c) => isListed
               /\ Departs(run, c) => ~HasRow(character, g) \/ isBegun
          /\ run.step = "changes" =>
               IF run.listed[c] # Absent THEN isListed
               ELSE run.original[c] = Absent \/ ~HasRow(character, g)

Fine(g, run, c, rank, entries, character) ==
  IsTold(run, c, rank, entries) /\ IsMoved(g, run, c, rank, character)

(* The scan beside the guild's row: when nothing has failed it is clean,   *)
(* or it has not the guild's id, or the guild was gone.                    *)
Faultless(run, row) ==
  /\ run.step # "idle" => IF run.isNew THEN row = NoRow ELSE row # NoRow /\ run.id = row.id
  /\ run.step \in {"request", "roster", "ranks"} => run.clean
  /\ run.id # NoId /\ ~run.clean => run.step = "changes" /\ run.roster = Nobody

(* No row can have been saved without the id.                              *)
IsUnsaved(run, row) ==
  IF run.step = "idle" THEN row = NoRow \/ row.id = NoId ELSE run.id = NoId

(* What holds of the guild's scan, row and members' rows t, of its history *)
(* and of the characters: entries there are only where there are members.  *)
Well(g, run, row, t, entries, chars) ==
  /\ entries \in [Char -> Seq(LogEntry)] /\ chars \in [Char -> CharacterRow \cup {NoRow}]
  /\ Faultless(run, row)
  /\ \A c \in Char : Fine(g, run, c, RankIn(g, t[c]), entries[c], chars[c])
  /\ (\A c \in Char : RankIn(g, t[c]) = Absent) => \A c \in Char : entries[c] = <<>>
  /\ IsUnsaved(run, row) =>
       /\ \A c \in Char : RankIn(g, t[c]) = Absent
       /\ run.step \in Comparing => run.original = Nobody
       /\ run.step = "changes" => \A c \in Char : <<"transition", c>> \notin run.todo

ScansGoWell ==
  /\ faults \in Nat
  /\ history = [g \in Guild |-> history[g]]
  /\ faults = 0 => \A g \in Guild :
       Well(g, scan[g], guilds[g], members[IdOf[g]], history[g], characters)

-----------------------------------------------------------------------------
WellInv(g) == Well(g, scan[g], guilds[g], members[IdOf[g]], history[g], characters)

LEMMA WellIs ==
  ASSUME ScansGoWell, faults = 0, NEW g \in Guild
  PROVE  WellInv(g)
BY DEF ScansGoWell, WellInv

LEMMA WellMoves ==
  ASSUME ScansInv, ScansGoWell, OneGuild, NEW g \in Guild, faults' \in Nat,
         NEW run, NEW row, NEW t, NEW entries, NEW chars, Well(g, run, row, t, entries, chars),
         scan' = [scan EXCEPT ![g] = run], guilds' = [guilds EXCEPT ![g] = row],
         members' = [members EXCEPT ![IdOf[g]] = t], history' = [history EXCEPT ![g] = entries],
         characters' = chars
  PROVE  ScansGoWell'
<1>1. /\ scan'[g] = run /\ guilds'[g] = row /\ members'[IdOf[g]] = t /\ history'[g] = entries
      /\ history' = [h \in Guild |-> history'[h]]
  BY Distinct DEF ScansInv, TablesOK, ScansGoWell
<1>2. \A h \in Guild : h = g
  BY DEF OneGuild
<1> QED BY <1>1, <1>2 DEF ScansGoWell

(* The guild's row stays as it is.                                         *)
LEMMA RunMoves ==
  ASSUME ScansInv, ScansGoWell, OneGuild, NEW g \in Guild, UNCHANGED <<guilds, faults>>,
         NEW run, NEW t, NEW entries, NEW chars, Well(g, run, guilds[g], t, entries, chars),
         scan' = [scan EXCEPT ![g] = run], members' = [members EXCEPT ![IdOf[g]] = t],
         history' = [history EXCEPT ![g] = entries], characters' = chars
  PROVE  ScansGoWell'
<1>1. faults' \in Nat /\ guilds' = [guilds EXCEPT ![g] = guilds[g]]
  BY DEF ScansGoWell, ScansInv, TablesOK
<1>2. PICK row : row = guilds[g]
  OBVIOUS
<1> QED BY <1>1, <1>2, WellMoves

LEMMA SameTables ==
  ASSUME ScansInv, ScansGoWell, NEW g \in Guild
  PROVE  /\ guilds = [guilds EXCEPT ![g] = guilds[g]]
         /\ members = [members EXCEPT ![IdOf[g]] = members[IdOf[g]]]
         /\ history = [history EXCEPT ![g] = history[g]]
BY Distinct DEF ScansInv, TablesOK, ScansGoWell

LEMMA SameRows ==
  ASSUME ScansInv, ScansGoWell, faults = 0, NEW g \in Guild, NEW c \in Char
  PROVE  /\ members = [members EXCEPT ![IdOf[g]][c] = members[IdOf[g]][c]]
         /\ history = [history EXCEPT ![g][c] = history[g][c]]
         /\ characters = [characters EXCEPT ![c] = characters[c]]
         /\ members[IdOf[g]][c] \in MemberRow \cup {NoRow}
         /\ history[g][c] \in Seq(LogEntry)
         /\ characters[c] \in CharacterRow \cup {NoRow}
<1> DEFINE t == members[IdOf[g]]
           e == history[g]
<1>1. /\ t \in [Char -> MemberRow \cup {NoRow}] /\ members = [i \in Id |-> members[i]] /\ IdOf[g] \in Id
  BY Distinct DEF ScansInv, TablesOK
<1>2. /\ e \in [Char -> Seq(LogEntry)] /\ characters \in [Char -> CharacterRow \cup {NoRow}]
      /\ history = [h \in Guild |-> history[h]]
  BY WellIs DEF WellInv, Well, ScansGoWell
<1>3. [t EXCEPT ![c] = t[c]] = t /\ [e EXCEPT ![c] = e[c]] = e
  BY <1>1, <1>2
<1>4. members = [members EXCEPT ![IdOf[g]] = t] /\ history = [history EXCEPT ![g] = e]
  BY <1>1, <1>2
<1>5. members = [members EXCEPT ![IdOf[g]][c] = members[IdOf[g]][c]]
  BY <1>3, <1>4
<1>6. history = [history EXCEPT ![g][c] = history[g][c]]
  BY <1>3, <1>4
<1>7. characters = [characters EXCEPT ![c] = characters[c]]
  BY <1>2
<1>8. /\ members[IdOf[g]][c] \in MemberRow \cup {NoRow}
      /\ history[g][c] \in Seq(LogEntry)
      /\ characters[c] \in CharacterRow \cup {NoRow}
  BY <1>1, <1>2
<1> HIDE DEF t, e
<1> QED BY <1>5, <1>6, <1>7, <1>8, Zenon

(* Only the scan goes on.                                                  *)
LEMMA ScanWell ==
  ASSUME ScansInv, ScansGoWell, OneGuild, NEW g \in Guild, NEW run,
         Well(g, run, guilds[g], members[IdOf[g]], history[g], characters),
         scan' = [scan EXCEPT ![g] = run], UNCHANGED <<guilds, members, characters, history, faults>>
  PROVE  ScansGoWell'
<1>1. /\ members' = [members EXCEPT ![IdOf[g]] = members[IdOf[g]]]
      /\ history' = [history EXCEPT ![g] = history[g]]
  BY SameTables
<1>2. PICK t, entries : t = members[IdOf[g]] /\ entries = history[g]
  OBVIOUS
<1> QED BY <1>1, <1>2, RunMoves

LEMMA OthersAreFine ==
  ASSUME NEW g \in Guild, NEW run, NEW next, NEW c \in Char, OneMoves(run, next, c),
         NEW d \in Char \ {c}, NEW rank, NEW e, NEW ch, Fine(g, run, d, rank, e, ch)
  PROVE  Fine(g, next, d, rank, e, ch)
BY DEF OneMoves, Fine, IsTold, IsMoved, IsLog, IsMember, Awaited, Stays, Joins, Departs

(* What has members if c has the row: none may be without, unless its      *)
(* entries are as they were.                                               *)
HasMembers(g, c, row, e) ==
  \/ RankIn(g, row) # Absent
  \/ \E d \in Char \ {c} : RankIn(g, members[IdOf[g]][d]) # Absent
  \/ e = history[g][c] /\ RankIn(g, members[IdOf[g]][c]) = Absent

(* An operation of c ends.                                                 *)
LEMMA OperationIsWell ==
  ASSUME ScansInv, ScansGoWell, OneGuild, faults = 0, NEW g \in Guild, NEW c \in Char,
         NEW run, OneMoves(scan[g], run, c), run.id = scan[g].id, Faultless(run, guilds[g]),
         scan[g].step \in {"roster"} \cup Comparing,
         NEW row, NEW e \in Seq(LogEntry), NEW ch \in CharacterRow \cup {NoRow},
         Fine(g, run, c, RankIn(g, row), e, ch), HasMembers(g, c, row, e),
         run.id = NoId => RankIn(g, row) = Absent,
         scan' = [scan EXCEPT ![g] = run], members' = [members EXCEPT ![IdOf[g]][c] = row],
         history' = [history EXCEPT ![g][c] = e], characters' = [characters EXCEPT ![c] = ch],
         UNCHANGED <<guilds, faults>>
  PROVE  ScansGoWell'
<1> DEFINE t == [members[IdOf[g]] EXCEPT ![c] = row]
           entries == [history[g] EXCEPT ![c] = e]
           chars == [characters EXCEPT ![c] = ch]
<1>1. WellInv(g) /\ members[IdOf[g]] \in [Char -> MemberRow \cup {NoRow}]
  BY WellIs, Distinct DEF ScansInv, TablesOK
<1>2. /\ history[g] \in [Char -> Seq(LogEntry)]
      /\ characters \in [Char -> CharacterRow \cup {NoRow}]
      /\ \A d \in Char : Fine(g, scan[g], d, RankIn(g, members[IdOf[g]][d]), history[g][d], characters[d])
      /\ (\A d \in Char : RankIn(g, members[IdOf[g]][d]) = Absent) => \A d \in Char : history[g][d] = <<>>
      /\ scan[g].id = NoId =>
           /\ \A d \in Char : RankIn(g, members[IdOf[g]][d]) = Absent
           /\ scan[g].step \in Comparing => scan[g].original = Nobody
  BY <1>1 DEF WellInv, Well, IsUnsaved, Comparing
<1>3. /\ t[c] = row /\ entries[c] = e /\ chars[c] = ch
      /\ \A d \in Char \ {c} : /\ t[d] = members[IdOf[g]][d] /\ entries[d] = history[g][d]
                               /\ chars[d] = characters[d]
      /\ entries \in [Char -> Seq(LogEntry)] /\ chars \in [Char -> CharacterRow \cup {NoRow}]
  BY <1>1, <1>2
<1>4. /\ members' = [members EXCEPT ![IdOf[g]] = t] /\ history' = [history EXCEPT ![g] = entries]
      /\ characters' = chars
  BY <1>1, <1>2
<1> HIDE DEF t, entries, chars
<1>5. ASSUME NEW d \in Char PROVE Fine(g, run, d, RankIn(g, t[d]), entries[d], chars[d])
  BY <1>2, <1>3, OthersAreFine
<1>6. (\A d \in Char : RankIn(g, t[d]) = Absent) => \A d \in Char : entries[d] = <<>>
  BY <1>2, <1>3 DEF HasMembers
<1>7. run.step = scan[g].step /\ run.original = scan[g].original
  BY DEF OneMoves
<1>8. IsUnsaved(run, guilds[g]) =>
        /\ \A d \in Char : RankIn(g, t[d]) = Absent
        /\ run.step \in Comparing => run.original = Nobody
        /\ run.step # "changes"
  BY <1>2, <1>3, <1>7 DEF IsUnsaved, Comparing
<1>9. Well(g, run, guilds[g], t, entries, chars)
  BY <1>3, <1>5, <1>6, <1>8 DEF Well
<1> QED BY ONLY <1>4, <1>9, RunMoves, ScansInv, ScansGoWell, OneGuild, g \in Guild,
                UNCHANGED <<guilds, faults>>, scan' = [scan EXCEPT ![g] = run]

(* What is known of c while its guild is scanned.                          *)
LEMMA FineIs ==
  ASSUME ScansInv, ScansGoWell, faults = 0, NEW g \in Guild, NEW c \in Char
  PROVE  LET rank == RankIn(g, members[IdOf[g]][c])
         IN /\ IsTold(scan[g], c, rank, history[g][c]) /\ IsMoved(g, scan[g], c, rank, characters[c])
            /\ OpsBelong(scan[g], c) /\ (scan[g].clean => IsFollowed(scan[g], c, rank))
            /\ RunOK(g, scan[g]) /\ Faultless(scan[g], guilds[g])
            /\ scan[g].id = NoId /\ scan[g].step # "idle" => rank = Absent
            /\ scan[g].id = NoId /\ scan[g].step \in Comparing => scan[g].original = Nobody
            /\ rank \in Rank \cup {Absent}
<1>1. WellInv(g) /\ members[IdOf[g]][c] \in MemberRow \cup {NoRow}
  BY WellIs, SameRows
<1>2. Good(g, scan[g], c, members[IdOf[g]][c]) /\ RunOK(g, scan[g])
  BY DEF ScansInv
<1> QED BY <1>1, <1>2, RankOK DEF WellInv, Well, IsUnsaved, Good, Fine, Comparing

(* A member is processed, and its character is ch.                         *)
LEMMA ProcessedIsWell ==
  ASSUME ScansInv, ScansGoWell, OneGuild, faults = 0, NEW g \in Guild, NEW c \in Char,
         NEW m \in {"find", "save"}, scan[g].step = "roster", <<m, c>> \in scan[g].todo,
         Processed(g, <<m, c>>), NEW ch \in CharacterRow \cup {NoRow}, characters' = [characters EXCEPT ![c] = ch],
         ch # NoRow \/ c \notin KnownRealm,
         ch # NoRow /\ RankIn(g, members[IdOf[g]][c]) # Absent => ch = [guild |-> g, rank |-> scan[g].listed[c]],
         UNCHANGED <<guilds, members, history, faults>>
  PROVE  ScansGoWell'
<1> DEFINE run == ProcessedRun(g, m, c)
           rank == RankIn(g, members[IdOf[g]][c])
           e == history[g][c]
<1>1. /\ RunOK(g, scan[g]) /\ Faultless(scan[g], guilds[g]) /\ IsTold(scan[g], c, rank, e)
      /\ IsMoved(g, scan[g], c, rank, characters[c])
      /\ scan[g].id = NoId => rank = Absent
  BY FineIs
<1>8. scan[g].listed[c] # Absent
  BY <1>1 DEF IsMoved, Awaited
<1>2. /\ OneMoves(scan[g], run, c) /\ run.step = scan[g].step /\ run.clean = scan[g].clean
      /\ run.id = scan[g].id /\ run.isNew = scan[g].isNew /\ run.listed = scan[g].listed
  BY <1>1, ProcessedIs
<1>3. scan' = [scan EXCEPT ![g] = run]
  BY <1>1, ProcessedMoves
<1>4. e \in Seq(LogEntry) /\ members' = [members EXCEPT ![IdOf[g]][c] = members[IdOf[g]][c]]
      /\ history' = [history EXCEPT ![g][c] = e]
  BY SameRows
<1> HIDE DEF run
<1>5. Faultless(run, guilds[g])
  BY <1>1, <1>2 DEF Faultless
<1>6. Fine(g, run, c, rank, e, ch)
  BY <1>1, <1>2, <1>8 DEF Fine, IsTold, IsMoved, IsFound, Comparing, HasRow
<1>7. HasMembers(g, c, members[IdOf[g]][c], e)
  BY DEF HasMembers
<1> QED BY <1>1, <1>2, <1>3, <1>4, <1>5, <1>6, <1>7, OperationIsWell

LEMMA FindWell ==
  ASSUME ScansInv, ScansGoWell, OneGuild, faults = 0, NEW g \in Guild, NEW c \in Char,
         NEW isUpdateByGuild \in BOOLEAN, FindCharacter(g, c, isUpdateByGuild)
  PROVE  ScansGoWell'
<1> DEFINE rank == RankIn(g, members[IdOf[g]][c])
           e == history[g][c]
           ch == characters[c]
           isSaved == IF ch = NoRow THEN c \in KnownRealm ELSE isUpdateByGuild \/ ch.guild = g
<1>1. /\ scan[g].step = "roster" /\ <<"find", c>> \in scan[g].todo
      /\ IF isSaved THEN Done(g, <<"find", c>>, {<<"save", c>>}) ELSE Processed(g, <<"find", c>>)
      /\ UNCHANGED <<guilds, members, characters, history, faults>>
  BY DEF FindCharacter, Awaits, tables
<1>2. /\ RunOK(g, scan[g]) /\ Faultless(scan[g], guilds[g]) /\ IsTold(scan[g], c, rank, e)
      /\ IsMoved(g, scan[g], c, rank, ch)
      /\ scan[g].id = NoId => rank = Absent
  BY <1>1, FineIs
<1>3. /\ members' = [members EXCEPT ![IdOf[g]][c] = members[IdOf[g]][c]]
      /\ history' = [history EXCEPT ![g][c] = e] /\ e \in Seq(LogEntry)
      /\ characters' = [characters EXCEPT ![c] = ch] /\ ch \in CharacterRow \cup {NoRow}
  BY <1>1, SameRows
<1>4. CASE ~isSaved
  <2>1. IF ch = NoRow THEN c \notin KnownRealm ELSE rank = Absent
    BY <1>1, <1>2, <1>4 DEF IsMoved, IsFound, HasRow, Comparing
  <2>2. Processed(g, <<"find", c>>)
    BY <1>1, <1>4
  <2> HIDE DEF ch, rank
  <2> QED BY <1>1, <1>3, <2>1, <2>2, ProcessedIsWell DEF rank
<1>5. CASE isSaved
  <2> DEFINE run == DoneRun(g, "find", {"save"}, c)
  <2>1. {<<"save", c>>} = Operations({"save"}, {c})
    BY DEF Operations
  <2>2. scan' = [scan EXCEPT ![g] = run] /\ UNCHANGED site
    BY <1>1, <1>5, <2>1, DoneMoves
  <2>3. /\ RunOK(g, run) /\ OneMoves(scan[g], run, c) /\ run.step = scan[g].step
        /\ run.todo = (scan[g].todo \ {<<"find", c>>}) \cup Operations({"save"}, {c})
        /\ run.clean = scan[g].clean /\ run.id = scan[g].id /\ run.isNew = scan[g].isNew
        /\ run.listed = scan[g].listed
    BY <1>2, DoneIs
  <2> HIDE DEF run
  <2>4. Awaited(scan[g], {"find", "save"}, c) /\ Awaited(run, {"find", "save"}, c)
    BY <1>1, <2>3, InOperations DEF Awaited
  <2>5. Fine(g, run, c, rank, e, ch)
    BY <1>1, <1>2, <2>3, <2>4 DEF Fine, IsTold, IsMoved, Comparing
  <2>6. Faultless(run, guilds[g]) /\ HasMembers(g, c, members[IdOf[g]][c], e)
    BY <1>1, <1>2, <2>3 DEF Faultless, HasMembers
  <2> HIDE DEF ch, e
  <2> QED BY <1>1, <1>2, <1>3, <2>2, <2>3, <2>5, <2>6, OperationIsWell
<1> QED BY <1>4, <1>5

LEMMA SaveCharacterWell ==
  ASSUME ScansInv, ScansGoWell, OneGuild, faults = 0, NEW g \in Guild, NEW c \in Char, SaveCharacter(g, c)
  PROVE  ScansGoWell'
<1> DEFINE ch == [guild |-> g, rank |-> scan[g].listed[c]]
<1>1. /\ scan[g].step = "roster" /\ <<"save", c>> \in scan[g].todo /\ Processed(g, <<"save", c>>)
      /\ characters' = [characters EXCEPT ![c] = ch]
      /\ UNCHANGED <<guilds, members, history, faults>>
  BY DEF SaveCharacter, Awaits
<1>2. ch \in CharacterRow /\ ch # NoRow
  BY FineIs, ConstantsAssumption DEF RunOK, Roster, CharacterRow
<1> HIDE DEF ch
<1> QED BY <1>1, <1>2, ProcessedIsWell DEF ch

LEMMA ChangeWell ==
  ASSUME ScansInv, ScansGoWell, NEW s \in Sites, Change(s) PROVE ScansGoWell'
BY DEF Change, tables, ScansGoWell

LEMMA StartWell ==
  ASSUME ScansInv, ScansGoWell, OneGuild, faults = 0, NEW g \in Guild, NEW id \in {IdOf[g], NoId}, Start(g, id)
  PROVE  ScansGoWell'
<1> DEFINE run == [NoScan EXCEPT !.step = "request", !.isNew = guilds[g] = NoRow, !.id = id]
<1>1. /\ scan' = [scan EXCEPT ![g] = run] /\ UNCHANGED <<guilds, members, characters, history, faults>>
      /\ scan[g].step = "idle" /\ (guilds[g] # NoRow => id = guilds[g].id)
  BY DEF Start, Scans, tables
<1>2. /\ run.step = "request" /\ run.isNew = (guilds[g] = NoRow) /\ run.id = id /\ run.clean = TRUE
  BY DEF NoScan
<1> HIDE DEF run
<1>3. WellInv(g)
  BY WellIs
<1>4. ASSUME NEW c \in Char
      PROVE  Fine(g, run, c, RankIn(g, members[IdOf[g]][c]), history[g][c], characters[c])
  BY <1>1, <1>2, <1>3 DEF WellInv, Well, Fine, IsTold, IsMoved, Comparing
<1>5. IsUnsaved(run, guilds[g]) => IsUnsaved(scan[g], guilds[g])
  BY <1>1, <1>2 DEF IsUnsaved
<1>6. Faultless(run, guilds[g])
  BY <1>1, <1>2 DEF Faultless
<1>7. Well(g, run, guilds[g], members[IdOf[g]], history[g], characters)
  BY <1>2, <1>3, <1>4, <1>5, <1>6 DEF WellInv, Well, Comparing
<1> QED BY <1>1, <1>7, ScanWell

AllMoved(g, run, t, chars) == \A c \in Char : IsMoved(g, run, c, RankIn(g, t[c]), chars[c])

NoTransition(run) == \A c \in Char : <<"transition", c>> \notin run.todo

LEMMA FetchedWell ==
  ASSUME ScansInv, ScansGoWell, NEW g \in Guild, NEW run, OneGuild, faults = 0,
         scan[g].step = "request", run.step \in {"roster", "changes"},
         run.isNew = scan[g].isNew, run.id = scan[g].id, Faultless(run, guilds[g]),
         NoTransition(run), AllMoved(g, run, members[IdOf[g]], characters),
         scan' = [scan EXCEPT ![g] = run], UNCHANGED <<guilds, members, characters, history, faults>>
  PROVE  ScansGoWell'
<1>1. WellInv(g)
  BY WellIs
<1>2. ASSUME NEW c \in Char
      PROVE  Fine(g, run, c, RankIn(g, members[IdOf[g]][c]), history[g][c], characters[c])
  BY <1>1 DEF WellInv, Well, Fine, IsTold, Comparing, AllMoved
<1>3. IsUnsaved(run, guilds[g]) => IsUnsaved(scan[g], guilds[g])
  BY DEF IsUnsaved
<1>4. Well(g, run, guilds[g], members[IdOf[g]], history[g], characters)
  BY <1>1, <1>2, <1>3 DEF WellInv, Well, Comparing, NoTransition
<1> QED BY <1>4, ScanWell

LEMMA FetchWell ==
  ASSUME ScansInv, ScansGoWell, OneGuild, faults = 0, faults' = 0, NEW g \in Guild,
         NEW isSummary \in BOOLEAN, NEW isRoster \in BOOLEAN, FetchGuildData(g, isSummary, isRoster)
  PROVE  ScansGoWell'
<1>1. UNCHANGED <<guilds, members, characters, history, faults>> /\ scan[g].step = "request"
  BY DEF FetchGuildData, Scans, tables
<1>2. WellInv(g) /\ RunOK(g, scan[g])
  BY WellIs DEF ScansInv
<1>4. ASSUME NEW c \in Char
      PROVE  IsFound(c, characters[c]) /\ RankIn(g, members[IdOf[g]][c]) # Absent => HasRow(characters[c], g)
  BY <1>1, <1>2 DEF WellInv, Well, Fine, IsMoved, Comparing
<1>5. CASE isRoster
  <2> DEFINE run == [scan[g] EXCEPT !.step = "roster", !.summary = isSummary, !.listed = site[g],
                                    !.todo = Operations({"find"}, Present(site[g]))]
  <2>1. scan' = [scan EXCEPT ![g] = run]
    BY <1>5 DEF FetchGuildData, Scans
  <2>2. /\ run.step = "roster" /\ run.isNew = scan[g].isNew /\ run.id = scan[g].id
        /\ run.clean = scan[g].clean /\ run.listed = site[g]
        /\ run.todo = Operations({"find"}, Present(site[g]))
    BY <1>2 DEF RunOK, RunFields
  <2> HIDE DEF run
  <2>3. Faultless(run, guilds[g])
    BY <1>1, <1>2, <2>2 DEF WellInv, Well, Faultless
  <2>4. ASSUME NEW c \in Char
        PROVE  /\ <<"transition", c>> \notin run.todo
               /\ Awaited(run, {"find", "save"}, c) <=> run.listed[c] # Absent
    BY <2>2, InOperations DEF Awaited, Present
  <2>5. ASSUME NEW c \in Char
        PROVE  IsMoved(g, run, c, RankIn(g, members[IdOf[g]][c]), characters[c])
    BY <1>4, <2>2, <2>4 DEF IsMoved, Comparing
  <2>6. /\ run.step \in {"roster", "changes"} /\ run.isNew = scan[g].isNew /\ run.id = scan[g].id
        /\ NoTransition(run) /\ AllMoved(g, run, members[IdOf[g]], characters)
    BY <2>2, <2>4, <2>5 DEF NoTransition, AllMoved
  <2> QED BY <1>1, <2>1, <2>3, <2>6, FetchedWell
<1>6. CASE ~isRoster
  <2> DEFINE run == [scan[g] EXCEPT !.step = "changes", !.summary = isSummary, !.clean = FALSE,
                                    !.todo = LastOps]
  <2>1. scan' = [scan EXCEPT ![g] = run]
    BY <1>6 DEF FetchGuildData, Scans, LastOps
  <2>2. /\ run.step = "changes" /\ run.isNew = scan[g].isNew /\ run.id = scan[g].id
        /\ run.clean = FALSE /\ run.roster = Nobody /\ run.todo = LastOps
    BY <1>1, <1>2 DEF RunOK, RunFields
  <2> HIDE DEF run
  <2>3. Faultless(run, guilds[g])
    BY <1>1, <1>2, <2>2 DEF WellInv, Well, Faultless
  <2>4. \A c \in Char : <<"transition", c>> \notin run.todo
    BY <2>2 DEF LastOps
  <2>5. ASSUME NEW c \in Char
        PROVE  IsMoved(g, run, c, RankIn(g, members[IdOf[g]][c]), characters[c])
    BY <1>4, <2>2 DEF IsMoved, Comparing
  <2>6. /\ run.step \in {"roster", "changes"} /\ run.isNew = scan[g].isNew /\ run.id = scan[g].id
        /\ NoTransition(run) /\ AllMoved(g, run, members[IdOf[g]], characters)
    BY <2>2, <2>4, <2>5 DEF NoTransition, AllMoved
  <2> QED BY <1>1, <2>1, <2>3, <2>6, FetchedWell
<1> QED BY <1>5, <1>6

(* A member's operation while the rosters are compared.                    *)
LEMMA DoneWell ==
  ASSUME NEW g \in Guild, NEW c \in Char, NEW m, NEW names, NEW row, NEW e \in Seq(LogEntry),
         NEW ch \in CharacterRow \cup {NoRow},
         ScansInv, ScansGoWell, OneGuild, faults = 0, scan[g].step \in Comparing,
         IsTold(DoneRun(g, m, names, c), c, RankIn(g, row), e),
         IsMoved(g, DoneRun(g, m, names, c), c, RankIn(g, row), ch), HasMembers(g, c, row, e),
         scan[g].id = NoId => RankIn(g, row) = Absent,
         scan' = [scan EXCEPT ![g] = DoneRun(g, m, names, c)],
         members' = [members EXCEPT ![IdOf[g]][c] = row],
         history' = [history EXCEPT ![g][c] = e], characters' = [characters EXCEPT ![c] = ch],
         UNCHANGED <<guilds, faults>>
  PROVE  ScansGoWell'
<1> DEFINE run == DoneRun(g, m, names, c)
<1>1. RunOK(g, scan[g]) /\ Faultless(scan[g], guilds[g])
  BY FineIs
<1>2. /\ OneMoves(scan[g], run, c) /\ run.step = scan[g].step /\ run.clean = scan[g].clean
      /\ run.id = scan[g].id /\ run.isNew = scan[g].isNew /\ run.roster = scan[g].roster
      /\ run.todo = (scan[g].todo \ {<<m, c>>}) \cup Operations(names, {c})
  BY <1>1, DoneIs
<1>3. scan' = [scan EXCEPT ![g] = run] /\ Fine(g, run, c, RankIn(g, row), e, ch)
  BY DEF Fine
<1> HIDE DEF run
<1>4. Faultless(run, guilds[g]) /\ scan[g].step \in {"roster"} \cup Comparing
      /\ (run.id = NoId => RankIn(g, row) = Absent)
  BY <1>1, <1>2 DEF Faultless
<1> QED BY <1>2, <1>3, <1>4, OperationIsWell

(* Members that were in the table are until the leaves, and somebody of    *)
(* the roster is from then on.                                             *)
LEMMA MembersStay ==
  ASSUME NEW g \in Guild, ScansInv, ScansGoWell, faults = 0, scan[g].step \in {"ranks", "joins"},
         scan[g].id # NoId, scan[g].original # Nobody
  PROVE  \E d \in Char : RankIn(g, members[IdOf[g]][d]) # Absent
<1>1. RunOK(g, scan[g]) /\ WellInv(g)
  BY WellIs DEF ScansInv
<1>2. scan[g].clean
  BY <1>1 DEF WellInv, Well, Faultless
<1>3. PICK d \in Char : scan[g].original[d] # Absent
  BY <1>1 DEF RunOK, Roster, Nobody
<1>4. Good(g, scan[g], d, members[IdOf[g]][d])
  BY DEF ScansInv
<1>5. RankIn(g, members[IdOf[g]][d]) # Absent
  BY <1>2, <1>3, <1>4 DEF Good, IsFollowed, Comparing
<1> QED BY <1>5

LEMMA SomebodyIsThere ==
  ASSUME NEW g \in Guild, ScansInv, ScansGoWell, faults = 0, scan[g].step = "leaves", scan[g].id # NoId
  PROVE  \E d \in Char : scan[g].roster[d] # Absent /\ RankIn(g, members[IdOf[g]][d]) # Absent
<1>1. RunOK(g, scan[g]) /\ WellInv(g)
  BY WellIs DEF ScansInv
<1>2. scan[g].clean
  BY <1>1 DEF WellInv, Well, Faultless
<1>3. PICK d \in Char : scan[g].listed[d] # Absent
  BY <1>1 DEF RunOK, Comparing, Roster, Nobody
<1>4. Good(g, scan[g], d, members[IdOf[g]][d])
  BY DEF ScansInv
<1>5. scan[g].roster[d] # Absent /\ RankIn(g, members[IdOf[g]][d]) # Absent
  BY <1>2, <1>3, <1>4 DEF Good, IsFollowed, Follows, Comparing, Departs
<1> QED BY <1>5

LEMMA AppendAgrees ==
  ASSUME NEW rank, NEW e \in Seq(LogEntry), NEW entry \in LogEntry,
         entry.action = "LEAVE" => rank = Absent,
         entry.action \in {"JOIN", "PROMOTE", "DEMOTE"} => rank = entry.rank
  PROVE  Append(e, entry) \in Seq(LogEntry) /\ Agrees(rank, Append(e, entry))
<1>1. /\ Append(e, entry) \in Seq(LogEntry) /\ Append(e, entry) # <<>>
      /\ Append(e, entry)[Len(Append(e, entry))] = entry
  OBVIOUS
<1>2. entry.action \in {"JOIN", "PROMOTE", "DEMOTE", "LEAVE", "MASTER"}
  BY DEF LogEntry
<1> HIDE DEF Agrees
<1>3. Agrees(rank, Append(e, entry)) <=>
        CASE entry.action = "MASTER" -> TRUE
          [] entry.action = "LEAVE" -> rank \in {Absent, OSINT_GM_RANK}
          [] OTHER -> rank = entry.rank
  BY <1>1 DEF Agrees
<1> QED BY <1>1, <1>2, <1>3

LEMMA SaveLogWell ==
  ASSUME NEW g \in Guild, NEW c \in Char, ScansInv, ScansGoWell, OneGuild, faults = 0, SaveLog(g, c)
  PROVE  ScansGoWell'
<1> DEFINE names == IF scan[g].step = "ranks" THEN {} ELSE {"member", "character"}
           rank == RankIn(g, members[IdOf[g]][c])
           old == history[g][c]
           entry == NewEntry(scan[g], c)
           e == Append(old, entry)
           ch == characters[c]
           run == DoneRun(g, "log", names, c)
<1>1. /\ scan[g].step \in Comparing /\ <<"log", c>> \in scan[g].todo
      /\ history' = [history EXCEPT ![g][c] = e] /\ UNCHANGED <<guilds, members, characters, faults>>
      /\ Done(g, <<"log", c>>, Operations(names, {c}))
  BY DEF SaveLog, Awaits, Comparing, Operations
<1>2. /\ IsTold(scan[g], c, rank, old) /\ IsMoved(g, scan[g], c, rank, ch) /\ OpsBelong(scan[g], c)
      /\ (scan[g].clean => IsFollowed(scan[g], c, rank))
      /\ RunOK(g, scan[g]) /\ Faultless(scan[g], guilds[g])
      /\ (scan[g].id = NoId => rank = Absent /\ scan[g].original = Nobody)
  BY <1>1, FineIs DEF Comparing
<1>3. /\ members' = [members EXCEPT ![IdOf[g]][c] = members[IdOf[g]][c]]
      /\ characters' = [characters EXCEPT ![c] = ch] /\ ch \in CharacterRow \cup {NoRow}
      /\ old \in Seq(LogEntry)
  BY <1>1, SameRows
<1>4. Awaited(scan[g], {"log", "member", "character"}, c) /\ IsLog(scan[g], c)
  BY <1>1 DEF Awaited, IsLog
<1>5. /\ entry \in LogEntry
      /\ entry.action = "LEAVE" => scan[g].roster[c] = Absent
      /\ entry.action \in {"JOIN", "PROMOTE", "DEMOTE"} => scan[g].roster[c] = entry.rank
  BY <1>1, <1>2, <1>4 DEF NewEntry, LogEntry, OpsBelong, IsTold, Comparing, Stays, Joins, Departs, RunOK, Roster
<1> HIDE DEF entry
<1>6. e \in Seq(LogEntry) /\ Agrees(scan[g].roster[c], e)
  BY <1>3, <1>5, AppendAgrees
<1>7. /\ RunOK(g, run) /\ run.step = scan[g].step /\ run.clean = scan[g].clean
      /\ run.listed = scan[g].listed /\ run.original = scan[g].original /\ run.roster = scan[g].roster
      /\ run.todo = (scan[g].todo \ {<<"log", c>>}) \cup Operations(names, {c})
  BY <1>2, DoneIs
<1>8. scan' = [scan EXCEPT ![g] = run]
  BY <1>1, DoneMoves
<1> HIDE DEF run, e
<1>9. /\ ~IsLog(run, c)
      /\ scan[g].step # "ranks" => IsMember(run, c) /\ Awaited(run, {"log", "character"}, c)
      /\ scan[g].step = "ranks" => (IsMember(run, c) <=> IsMember(scan[g], c))
  BY <1>7, InOperations DEF IsLog, IsMember, Awaited
<1>10. IsTold(run, c, rank, e)
  BY <1>1, <1>2, <1>4, <1>6, <1>7, <1>9 DEF IsTold, Departs
<1>11. IsMoved(g, run, c, rank, ch)
  BY <1>1, <1>2, <1>7, <1>9 DEF IsMoved, Comparing, Stays, Joins, Departs
<1>12. \E d \in Char : RankIn(g, members[IdOf[g]][d]) # Absent
  <2>1. scan[g].original # Nobody
    <3>1. scan[g].step # "joins" => scan[g].original[c] # Absent
      BY <1>1, <1>2, <1>4 DEF OpsBelong, Comparing, Stays, Departs
    <3> QED BY <1>1, <1>2, <1>4, <3>1 DEF IsTold, Nobody
  <2>2. scan[g].id # NoId
    BY <1>2, <2>1
  <2>3. CASE scan[g].step \in {"ranks", "joins"}
    BY <2>1, <2>2, <2>3, MembersStay
  <2>4. CASE scan[g].step = "leaves"
    BY <2>2, <2>4, SomebodyIsThere
  <2> QED BY <1>1, <2>3, <2>4 DEF Comparing
<1>13. HasMembers(g, c, members[IdOf[g]][c], e)
  BY <1>12 DEF HasMembers
<1> QED BY <1>1, <1>2, <1>3, <1>6, <1>8, <1>10, <1>11, <1>13, DoneWell DEF run

(* A statement on a member's row, whose rank becomes the roster's.         *)
LEMMA MemberWell ==
  ASSUME NEW g \in Guild, NEW c \in Char, NEW row,
         ScansInv, ScansGoWell, OneGuild, faults = 0, scan[g].step \in Comparing,
         <<"member", c>> \in scan[g].todo, Done(g, <<"member", c>>, {}), scan[g].id # NoId,
         members' = [members EXCEPT ![IdOf[g]][c] = row], RankIn(g, row) = scan[g].roster[c],
         UNCHANGED <<guilds, characters, history, faults>>
  PROVE  ScansGoWell'
<1> DEFINE rank == RankIn(g, members[IdOf[g]][c])
           e == history[g][c]
           ch == characters[c]
           run == DoneRun(g, "member", {}, c)
<1>1. /\ IsTold(scan[g], c, rank, e) /\ IsMoved(g, scan[g], c, rank, ch) /\ OpsBelong(scan[g], c)
      /\ RunOK(g, scan[g]) /\ scan[g].roster[c] \in Rank \cup {Absent}
  BY FineIs DEF RunOK, Roster
<1>2. /\ history' = [history EXCEPT ![g][c] = e] /\ e \in Seq(LogEntry)
      /\ characters' = [characters EXCEPT ![c] = ch] /\ ch \in CharacterRow \cup {NoRow}
  BY SameRows
<1>3. /\ run.step = scan[g].step /\ run.clean = scan[g].clean
      /\ run.listed = scan[g].listed /\ run.original = scan[g].original /\ run.roster = scan[g].roster
      /\ run.todo = (scan[g].todo \ {<<"member", c>>}) \cup Operations({}, {c})
  BY <1>1, DoneIs
<1>4. Done(g, <<"member", c>>, Operations({}, {c}))
  BY DEF Operations
<1>5. scan' = [scan EXCEPT ![g] = run]
  BY <1>4, DoneMoves
<1> HIDE DEF run
<1>6. /\ IsLog(run, c) <=> IsLog(scan[g], c)
      /\ ~IsMember(run, c) /\ IsMember(scan[g], c)
      /\ Awaited(scan[g], {"log", "member", "character"}, c)
      /\ Awaited(run, {"log", "character"}, c) <=> Awaited(scan[g], {"log", "character"}, c)
  BY <1>3, InOperations DEF IsLog, IsMember, Awaited
<1>7. IsTold(run, c, scan[g].roster[c], e)
  BY <1>1, <1>3, <1>6 DEF IsTold, OpsBelong, Comparing, Stays, Joins, Departs
<1>8. IsMoved(g, run, c, scan[g].roster[c], ch)
  BY <1>1, <1>3, <1>6 DEF IsMoved, Comparing, Stays, Joins, Departs
<1>9. HasMembers(g, c, row, e)
  <2>1. CASE scan[g].roster[c] # Absent
    BY <2>1 DEF HasMembers
  <2>2. CASE scan[g].roster[c] = Absent
    <3>1. scan[g].step = "leaves"
      BY <1>1, <1>6, <2>2 DEF OpsBelong, Comparing, Stays, Joins
    <3> QED BY <2>2, <3>1, SomebodyIsThere DEF HasMembers
  <2> QED BY <2>1, <2>2
<1>10. /\ IsTold(run, c, RankIn(g, row), e) /\ IsMoved(g, run, c, RankIn(g, row), ch)
  BY <1>7, <1>8
<1> QED BY <1>2, <1>5, <1>9, <1>10, DoneWell DEF run

(* While the members are ranked or removed the guild has its id.           *)
LEMMA RankedHaveId ==
  ASSUME NEW g \in Guild, NEW c \in Char, ScansInv, ScansGoWell, faults = 0,
         scan[g].step \in {"ranks", "leaves"}, <<"member", c>> \in scan[g].todo
  PROVE  scan[g].id # NoId
<1>1. OpsBelong(scan[g], c) /\ (scan[g].id = NoId => scan[g].original = Nobody)
  BY FineIs DEF Comparing
<1> QED BY <1>1 DEF OpsBelong, Awaited, Stays, Departs, Nobody

LEMMA UpdateRankWell ==
  ASSUME NEW g \in Guild, NEW c \in Char, ScansInv, ScansGoWell, OneGuild, faults = 0, UpdateRank(g, c)
  PROVE  ScansGoWell'
<1> DEFINE old == members[IdOf[g]][c]
           rank == scan[g].roster[c]
           row == IF MemberRank(g, c) = Absent THEN old ELSE [old EXCEPT !.rank = rank]
<1>1. /\ scan[g].step = "ranks" /\ <<"member", c>> \in scan[g].todo
      /\ Done(g, <<"member", c>>, {}) /\ UNCHANGED <<guilds, characters, history, faults>>
      /\ members' = [members EXCEPT ![IdOf[g]][c] = row]
  BY DEF UpdateRank, Awaits
<1>2. /\ RunOK(g, scan[g]) /\ OpsBelong(scan[g], c) /\ Faultless(scan[g], guilds[g])
      /\ (scan[g].clean => IsFollowed(scan[g], c, RankIn(g, old))) /\ old \in MemberRow \cup {NoRow}
  BY FineIs, SameRows
<1>3. rank \in Rank /\ Stays(scan[g], c)
  BY <1>1, <1>2 DEF OpsBelong, Awaited, RunOK, Roster, Stays
<1>4. RankIn(g, old) # Absent
  BY <1>1, <1>2, <1>3 DEF IsFollowed, Faultless, Comparing, Stays
<1>5. old # NoRow /\ old.guild = g /\ row = [old EXCEPT !.rank = rank]
  BY <1>4, MemberRankIs DEF RankIn
<1>6. RankIn(g, row) = rank
  BY <1>2, <1>3, <1>5, Distinct DEF MemberRow, RankIn
<1>7. scan[g].step \in Comparing /\ scan[g].id # NoId
  BY <1>1, RankedHaveId DEF Comparing
<1> HIDE DEF row
<1> QED BY <1>1, <1>6, <1>7, MemberWell

LEMMA SaveMemberWell ==
  ASSUME NEW g \in Guild, NEW c \in Char, ScansInv, ScansGoWell, OneGuild, faults = 0, SaveMember(g, c)
  PROVE  ScansGoWell'
<1> DEFINE row == [guild |-> g, rank |-> scan[g].roster[c]]
<1>1. RunOK(g, scan[g]) /\ OpsBelong(scan[g], c)
  BY FineIs
<1>2. /\ scan[g].step = "joins" /\ <<"member", c>> \in scan[g].todo /\ scan[g].id # NoId
      /\ Done(g, <<"member", c>>, {}) /\ UNCHANGED <<guilds, characters, history, faults>>
      /\ members' = [members EXCEPT ![IdOf[g]][c] = row]
  BY <1>1 DEF SaveMember, Awaits, RunOK
<1>3. scan[g].roster[c] \in Rank
  BY <1>1, <1>2 DEF OpsBelong, Awaited, RunOK, Roster, Joins
<1>4. RankIn(g, row) = scan[g].roster[c] /\ scan[g].step \in Comparing
  BY <1>2, <1>3, Distinct DEF MemberRow, RankIn, Comparing
<1> HIDE DEF row
<1> QED BY <1>2, <1>4, MemberWell

LEMMA DeleteMemberWell ==
  ASSUME NEW g \in Guild, NEW c \in Char, ScansInv, ScansGoWell, OneGuild, faults = 0, DeleteMember(g, c)
  PROVE  ScansGoWell'
<1> DEFINE old == members[IdOf[g]][c]
           row == IF MemberRank(g, c) = Absent THEN old ELSE NoRow
<1>1. /\ scan[g].step = "leaves" /\ <<"member", c>> \in scan[g].todo
      /\ Done(g, <<"member", c>>, {}) /\ UNCHANGED <<guilds, characters, history, faults>>
      /\ members' = [members EXCEPT ![IdOf[g]][c] = row]
  BY DEF DeleteMember, Awaits
<1>2. OpsBelong(scan[g], c)
  BY FineIs
<1>3. scan[g].roster[c] = Absent
  BY <1>1, <1>2 DEF OpsBelong, Awaited, Departs
<1>4. RankIn(g, row) = scan[g].roster[c]
  BY <1>3, MemberRankIs DEF RankIn
<1>5. scan[g].step \in Comparing /\ scan[g].id # NoId
  BY <1>1, RankedHaveId DEF Comparing
<1> HIDE DEF row
<1> QED BY <1>1, <1>4, <1>5, MemberWell

(* Without the id no member is saved: the table has none of the guild.     *)
LEMMA SaveWithoutIdWell ==
  ASSUME NEW g \in Guild, NEW c \in Char, ScansInv, ScansGoWell, OneGuild, faults = 0,
         SaveMemberWithoutId(g, c)
  PROVE  ScansGoWell'
<1> DEFINE run == [scan[g] EXCEPT !.todo = scan[g].todo \ {<<"member", c>>}, !.clean = FALSE]
           row == members[IdOf[g]][c]
           e == history[g][c]
           ch == characters[c]
<1>1. /\ scan[g].step = "joins" /\ <<"member", c>> \in scan[g].todo /\ scan[g].id = NoId
      /\ scan' = [scan EXCEPT ![g] = run]
      /\ UNCHANGED <<guilds, members, characters, history, faults>>
  BY DEF SaveMemberWithoutId, Awaits, Scans, tables
<1>2. /\ RunOK(g, scan[g]) /\ Faultless(scan[g], guilds[g])
      /\ RankIn(g, row) = Absent /\ scan[g].original = Nobody
  BY <1>1, FineIs DEF Comparing
<1>3. /\ run.todo = scan[g].todo \ {<<"member", c>>} /\ run.step = scan[g].step /\ run.clean = FALSE
      /\ run.id = scan[g].id /\ run.isNew = scan[g].isNew /\ run.listed = scan[g].listed
      /\ run.roster = scan[g].roster /\ run.original = scan[g].original
  BY <1>2 DEF RunOK, RunFields
<1>4. /\ members' = [members EXCEPT ![IdOf[g]][c] = row]
      /\ history' = [history EXCEPT ![g][c] = e] /\ e \in Seq(LogEntry)
      /\ characters' = [characters EXCEPT ![c] = ch] /\ ch \in CharacterRow \cup {NoRow}
  BY <1>1, SameRows
<1> HIDE DEF run
<1>5. OneMoves(scan[g], run, c)
  BY <1>3, OtherOps DEF OneMoves
<1>6. Faultless(run, guilds[g])
  BY <1>1, <1>2, <1>3 DEF Faultless
<1>7. e = <<>>
  <2>1. \A d \in Char : RankIn(g, members[IdOf[g]][d]) = Absent
    BY <1>1, FineIs
  <2> QED BY <2>1, WellIs DEF WellInv, Well
<1>8. Fine(g, run, c, RankIn(g, row), e, ch)
  <2>1. IsTold(scan[g], c, RankIn(g, row), e)
    BY FineIs
  <2>2. ~IsLog(run, c) /\ ~Departs(run, c)
    BY <1>1, <1>2, <1>3, <2>1 DEF IsTold, IsLog, Comparing, Departs, Nobody
  <2>3. Agrees(RankIn(g, row), e)
    BY <1>7 DEF Agrees
  <2>4. ~IsMember(run, c)
    BY <1>3 DEF IsMember
  <2> QED BY <1>1, <1>3, <2>2, <2>3, <2>4 DEF Fine, IsTold, IsMoved, Comparing
<1>9. HasMembers(g, c, row, e)
  BY <1>2 DEF HasMembers
<1>10. scan[g].step \in {"roster"} \cup Comparing /\ (run.id = NoId => RankIn(g, row) = Absent)
  BY <1>1, <1>2 DEF Comparing
<1> HIDE DEF row, e, ch
<1> QED BY <1>1, <1>3, <1>4, <1>5, <1>6, <1>8, <1>9, <1>10, OperationIsWell

(* The character follows: it has its row when the scan is clean.           *)
LEMMA UpdateCharacterWell ==
  ASSUME NEW g \in Guild, NEW c \in Char, ScansInv, ScansGoWell, OneGuild, faults = 0,
         UpdateCharacter(g, c)
  PROVE  ScansGoWell'
<1> DEFINE rank == RankIn(g, members[IdOf[g]][c])
           e == history[g][c]
           old == characters[c]
           ch == IF old = NoRow THEN NoRow
                 ELSE CASE scan[g].step = "ranks" -> [old EXCEPT !.rank = scan[g].roster[c]]
                        [] scan[g].step = "joins" -> [guild |-> g, rank |-> scan[g].roster[c]]
                        [] OTHER -> IF old.guild = g THEN [guild |-> NoGuild, rank |-> Absent] ELSE old
           run == DoneRun(g, "character", {}, c)
<1>1. /\ scan[g].step \in Comparing /\ <<"character", c>> \in scan[g].todo
      /\ characters' = [characters EXCEPT ![c] = ch] /\ Done(g, <<"character", c>>, {})
      /\ UNCHANGED <<guilds, members, history, faults>>
  BY DEF UpdateCharacter, Awaits, Comparing
<1>2. /\ IsTold(scan[g], c, rank, e) /\ IsMoved(g, scan[g], c, rank, old) /\ OpsBelong(scan[g], c)
      /\ (scan[g].clean => IsFollowed(scan[g], c, rank))
      /\ RunOK(g, scan[g]) /\ scan[g].roster[c] \in Rank \cup {Absent}
      /\ (scan[g].id = NoId => rank = Absent)
  BY <1>1, FineIs DEF RunOK, Roster, Comparing
<1>3. /\ members' = [members EXCEPT ![IdOf[g]][c] = members[IdOf[g]][c]]
      /\ history' = [history EXCEPT ![g][c] = e] /\ e \in Seq(LogEntry)
      /\ old \in CharacterRow \cup {NoRow}
  BY <1>1, SameRows
<1>4. ch \in CharacterRow \cup {NoRow}
  <2>1. CASE scan[g].step = "ranks" /\ old # NoRow
    <3>1. old \in CharacterRow /\ ch = [old EXCEPT !.rank = scan[g].roster[c]]
      BY <1>3, <2>1
    <3> HIDE DEF ch, old
    <3> QED BY <1>2, <3>1 DEF CharacterRow
  <2>2. CASE scan[g].step # "ranks" /\ old # NoRow
    <3>1. ch \in {[guild |-> g, rank |-> scan[g].roster[c]], [guild |-> NoGuild, rank |-> Absent], old}
      BY <2>2
    <3> HIDE DEF ch, old
    <3> QED BY <1>2, <1>3, <3>1 DEF CharacterRow
  <2>3. CASE old = NoRow
    BY <2>3
  <2> QED BY <2>1, <2>2, <2>3
<1>5. /\ run.step = scan[g].step /\ run.clean = scan[g].clean
      /\ run.listed = scan[g].listed /\ run.original = scan[g].original /\ run.roster = scan[g].roster
      /\ run.todo = (scan[g].todo \ {<<"character", c>>}) \cup Operations({}, {c})
  BY <1>2, DoneIs
<1>6. Done(g, <<"character", c>>, Operations({}, {c}))
  BY <1>1 DEF Operations
<1>7. scan' = [scan EXCEPT ![g] = run]
  BY <1>6, DoneMoves
<1> HIDE DEF run
<1>8. /\ IsLog(run, c) <=> IsLog(scan[g], c)
      /\ IsMember(run, c) <=> IsMember(scan[g], c)
      /\ Awaited(scan[g], {"log", "member", "character"}, c)
  BY <1>1, <1>5, InOperations DEF IsLog, IsMember, Awaited
<1>9. IsTold(run, c, rank, e)
  BY <1>1, <1>2, <1>5, <1>8 DEF IsTold, Departs
<1>10. IsMoved(g, run, c, rank, ch)
  <2> SUFFICES ASSUME scan[g].clean, IsFound(c, old)
               PROVE  IsMoved(g, run, c, rank, ch)
    <3>1. IsFound(c, ch) => IsFound(c, old)
      BY DEF IsFound
    <3> HIDE DEF ch, old
    <3> QED BY <1>1, <1>5, <3>1 DEF IsMoved, Comparing
  <2>1. scan[g].roster[c] = scan[g].listed[c]
    BY <1>1, <1>2 DEF IsFollowed
  <2>2. CASE scan[g].step = "ranks"
    <3>1. Stays(scan[g], c) /\ old = [guild |-> g, rank |-> scan[g].listed[c]]
      BY <1>1, <1>2, <1>8, <2>2 DEF OpsBelong, IsMoved
    <3>2. old # NoRow
      BY <1>1, <1>2, <2>1, <2>2, <3>1 DEF IsMoved, Stays
    <3>3. ch = old
      BY <2>1, <2>2, <3>1, <3>2
    <3> HIDE DEF ch
    <3> QED BY <1>1, <1>2, <1>5, <2>2, <3>1, <3>3 DEF IsMoved, Comparing, Stays, Joins, Departs
  <2>3. CASE scan[g].step = "joins"
    <3>1. Joins(scan[g], c)
      BY <1>1, <1>2, <1>8, <2>3 DEF OpsBelong
    <3>2. old # NoRow
      BY <1>1, <1>2, <2>1, <2>3, <3>1 DEF IsMoved, Joins
    <3>3. ch = [guild |-> g, rank |-> scan[g].listed[c]] /\ ch # NoRow
      BY <1>2, <2>1, <2>3, <3>1, <3>2, ConstantsAssumption DEF CharacterRow
    <3> HIDE DEF ch
    <3> QED BY <1>1, <1>2, <1>5, <2>3, <3>1, <3>3 DEF IsMoved, Comparing, Stays, Joins, Departs
  <2>4. CASE scan[g].step = "leaves"
    <3>1. Departs(scan[g], c)
      BY <1>1, <1>2, <1>8, <2>4 DEF OpsBelong
    <3>2. ~HasRow(ch, g)
      BY <2>4, ConstantsAssumption DEF HasRow
    <3> HIDE DEF ch
    <3> QED BY <1>1, <1>2, <1>5, <2>4, <3>1, <3>2 DEF IsMoved, Comparing, Stays, Joins, Departs
  <2> QED BY <1>1, <2>2, <2>3, <2>4 DEF Comparing
<1>11. HasMembers(g, c, members[IdOf[g]][c], e)
  BY DEF HasMembers
<1> HIDE DEF ch
<1> QED BY <1>1, <1>2, <1>3, <1>4, <1>7, <1>9, <1>10, <1>11, DoneWell DEF run

-----------------------------------------------------------------------------
AllFine(g, run, t, entries, chars) == \A c \in Char : Fine(g, run, c, RankIn(g, t[c]), entries[c], chars[c])

(* The scan goes from one step to the next, and the tables stay.           *)
LEMMA TurnWell ==
  ASSUME NEW g \in Guild, NEW run, ScansInv, ScansGoWell, OneGuild, faults = 0,
         scan[g].step # "idle", run.step # "idle", run.id = scan[g].id, Faultless(run, guilds[g]),
         NoTransition(run), run.id = NoId /\ run.step \in Comparing => run.original = Nobody,
         AllFine(g, run, members[IdOf[g]], history[g], characters),
         scan' = [scan EXCEPT ![g] = run], UNCHANGED <<guilds, members, characters, history, faults>>
  PROVE  ScansGoWell'
<1>1. WellInv(g)
  BY WellIs
<1>2. Well(g, run, guilds[g], members[IdOf[g]], history[g], characters)
  BY <1>1 DEF WellInv, Well, AllFine, NoTransition, IsUnsaved
<1> QED BY <1>2, ScanWell

LEMMA NoOps ==
  ASSUME NEW run, run.todo = {}, NEW names, NEW c
  PROVE  ~Awaited(run, names, c) /\ ~IsLog(run, c) /\ ~IsMember(run, c)
BY DEF Awaited, IsLog, IsMember

(* The ranks in the table and the roster are compared.                     *)
LEMMA CompareWell ==
  ASSUME NEW g \in Guild, ScansInv, ScansGoWell, OneGuild, faults = 0, CompareRosters(g)
  PROVE  ScansGoWell'
<1> DEFINE read == [c \in Char |-> MemberRank(g, c)]
<1>1. PICK original : original = read
  OBVIOUS
<1>2. original \in Roster /\ \A c \in Char : original[c] = RankIn(g, members[IdOf[g]][c])
  BY <1>1, OriginalOK DEF ScansInv
<1>3. /\ RunOK(g, scan[g]) /\ scan[g].step = "roster" /\ scan[g].todo = {}
      /\ UNCHANGED <<guilds, members, characters, history, faults>>
  BY DEF ScansInv, CompareRosters, tables, Scans
<1>4. WellInv(g) /\ scan[g].clean
  BY <1>3, WellIs DEF WellInv, Well, Faultless
<1>5. scan[g].roster = scan[g].listed /\ scan[g].roster # Nobody
  BY <1>3, <1>4, RosterIsListed DEF RunOK
<1> DEFINE run == ComparedRun(g, original)
<1>6. [scan[g] EXCEPT !.original = original].roster = scan[g].roster
  BY <1>3 DEF RunOK, RunFields
<1>7. scan' = [scan EXCEPT ![g] = run]
  BY <1>1, <1>5, <1>6 DEF CompareRosters, Scans, ComparedRun
<1>8. /\ run.step = "ranks" /\ run.clean = scan[g].clean /\ run.id = scan[g].id
      /\ run.isNew = scan[g].isNew
      /\ run.listed = scan[g].listed /\ run.roster = scan[g].roster /\ run.original = original
      /\ \A c \in Char : \A n :
           <<n, c>> \in run.todo <=>
             /\ n \in {"log", "member", "character"}
             /\ original[c] # Absent /\ scan[g].roster[c] # Absent
             /\ original[c] # scan[g].roster[c]
             /\ OSINT_GM_RANK \notin {original[c], scan[g].roster[c]}
  BY <1>2, <1>3, ComparedIs
<1> HIDE DEF run, read
<1>9. ASSUME NEW c \in Char
      PROVE  Fine(g, run, c, RankIn(g, members[IdOf[g]][c]), history[g][c], characters[c])
  <2> DEFINE rank == RankIn(g, members[IdOf[g]][c])
             e == history[g][c]
             ch == characters[c]
  <2>1. /\ IsTold(scan[g], c, rank, e) /\ IsMoved(g, scan[g], c, rank, ch) /\ original[c] = rank
        /\ ~Awaited(scan[g], {"find", "save"}, c)
    BY <1>2, <1>3, FineIs, NoOps
  <2> HIDE DEF rank, e, ch
  <2>2. IsTold(run, c, rank, e)
    BY <1>3, <1>8, <2>1 DEF IsTold, IsLog, IsMember, Comparing
  <2>3. IsMoved(g, run, c, rank, ch)
    <3>1. IsFound(c, ch) /\ rank # Absent => HasRow(ch, g)
      BY <1>3, <2>1 DEF IsMoved, Comparing
    <3>2. IsFound(c, ch) /\ scan[g].listed[c] # Absent =>
            ch # NoRow /\ (rank # Absent => ch = [guild |-> g, rank |-> scan[g].listed[c]])
      BY <1>3, <2>1 DEF IsMoved
    <3> QED BY <1>5, <1>8, <2>1, <3>1, <3>2 DEF IsMoved, Comparing, Stays, Departs
  <2> QED BY <2>2, <2>3 DEF Fine, rank, e, ch
<1>10. Faultless(run, guilds[g]) /\ NoTransition(run)
  BY <1>3, <1>4, <1>8 DEF WellInv, Well, Faultless, NoTransition
<1>11. run.id = NoId => run.original = Nobody
  <2>1. scan[g].step # "idle"
    BY <1>3
  <2>2. ASSUME run.id = NoId, NEW c \in Char PROVE original[c] = Absent
    <3>1. scan[g].id = NoId => RankIn(g, members[IdOf[g]][c]) = Absent
      BY <2>1, FineIs
    <3> QED BY <1>2, <1>8, <2>2, <3>1
  <2> QED BY <1>2, <1>8, <2>2 DEF Roster, Nobody
<1>12. AllFine(g, run, members[IdOf[g]], history[g], characters)
  BY <1>9 DEF AllFine
<1> QED BY <1>3, <1>7, <1>8, <1>10, <1>11, <1>12, TurnWell

(* A master's entry tells of no rank that another may have.                *)
LEMMA MasterAgrees ==
  ASSUME NEW e \in Seq(LogEntry), NEW rank \in {Absent, OSINT_GM_RANK}, Agrees(rank, e),
         NEW other \in {Absent, OSINT_GM_RANK}
  PROVE  Agrees(other, e)
<1>1. CASE e = <<>>
  BY <1>1 DEF Agrees
<1>2. CASE e # <<>>
  <2>1. e[Len(e)] \in LogEntry
    BY <1>2
  <2>2. PICK last \in LogEntry : last = e[Len(e)]
    BY <2>1
  <2>3. /\ last.action \in {"JOIN", "PROMOTE", "DEMOTE", "LEAVE", "MASTER"}
        /\ last.action \in {"JOIN", "PROMOTE", "DEMOTE"} => last.rank \notin {Absent, OSINT_GM_RANK}
    BY Distinct DEF LogEntry
  <2>4. CASE last.action = "MASTER"
    BY <2>2, <2>4 DEF Agrees
  <2>5. CASE last.action = "LEAVE"
    BY <2>2, <2>5 DEF Agrees
  <2>6. CASE last.action \in {"JOIN", "PROMOTE", "DEMOTE"}
    BY <1>2, <2>2, <2>3, <2>6 DEF Agrees
  <2> QED BY <2>3, <2>4, <2>5, <2>6
<1> QED BY <1>1, <1>2

(* The ranks are seen to: the joins begin.                                 *)
LEMMA JoinsWell ==
  ASSUME NEW g \in Guild, ScansInv, ScansGoWell, OneGuild, faults = 0,
         scan[g].step = "ranks", scan[g].todo = {},
         scan' = [scan EXCEPT ![g] = StepRun(g, "joins", BeginJoins(scan[g]))],
         UNCHANGED <<guilds, members, characters, history, faults>>
  PROVE  ScansGoWell'
<1> DEFINE run == StepRun(g, "joins", BeginJoins(scan[g]))
<1>1. RunOK(g, scan[g]) /\ WellInv(g)
  BY WellIs DEF ScansInv
<1>2. /\ RunOK(g, run) /\ run.step = "joins" /\ run.todo = BeginJoins(scan[g])
      /\ run.clean = scan[g].clean /\ run.id = scan[g].id /\ run.isNew = scan[g].isNew
      /\ run.listed = scan[g].listed /\ run.roster = scan[g].roster /\ run.original = scan[g].original
  BY <1>1, StepIs DEF Comparing
<1>3. scan' = [scan EXCEPT ![g] = run]
  OBVIOUS
<1> HIDE DEF run
<1>4. scan[g].clean
  BY <1>1 DEF WellInv, Well, Faultless
<1>5. ASSUME NEW c \in Char
      PROVE  Fine(g, run, c, RankIn(g, members[IdOf[g]][c]), history[g][c], characters[c])
  <2> DEFINE rank == RankIn(g, members[IdOf[g]][c])
             e == history[g][c]
             ch == characters[c]
  <2>1. /\ IsTold(scan[g], c, rank, e) /\ IsMoved(g, scan[g], c, rank, ch)
        /\ IsFollowed(scan[g], c, rank)
        /\ ~IsLog(scan[g], c) /\ ~IsMember(scan[g], c) /\ e \in Seq(LogEntry)
    BY <1>4, FineIs, NoOps, SameRows
  <2>2. /\ IsLog(run, c) <=> Joins(run, c) /\ run.roster[c] # OSINT_GM_RANK /\ run.original # Nobody
        /\ IsMember(run, c) <=> Joins(run, c) /\ ~(run.roster[c] # OSINT_GM_RANK /\ run.original # Nobody)
        /\ Joins(run, c) => Awaited(run, {"log", "character"}, c)
    BY <1>2, InBeginJoins DEF IsLog, IsMember, Awaited, Joins
  <2>3. run.original = Nobody => e = <<>>
    <3>1. ASSUME run.original = Nobody, NEW d \in Char PROVE RankIn(g, members[IdOf[g]][d]) = Absent
      <4>1. IsFollowed(scan[g], d, RankIn(g, members[IdOf[g]][d])) /\ scan[g].original[d] = Absent
        BY <1>2, <1>4, <3>1, FineIs DEF Nobody
      <4> QED BY <4>1 DEF IsFollowed
    <3> QED BY <1>1, <3>1 DEF WellInv, Well
  <2> HIDE DEF rank, e, ch
  <2>4. Agrees(rank, e)
    BY <2>1 DEF IsTold, Comparing
  <2>5. Joins(run, c) => rank = Absent
    BY <1>2, <2>1 DEF IsFollowed, Joins
  <2>6. IsMember(run, c) => Agrees(run.roster[c], e)
    <3>1. CASE run.original = Nobody
      BY <2>3, <3>1 DEF Agrees
    <3>2. CASE run.original # Nobody
      BY <2>1, <2>2, <2>4, <2>5, <3>2, MasterAgrees
    <3> QED BY <3>1, <3>2
  <2>7. IsTold(run, c, rank, e)
    BY <1>2, <2>1, <2>2, <2>4, <2>6 DEF IsTold, Departs, Comparing
  <2>8. IsMoved(g, run, c, rank, ch)
    BY <1>2, <2>1, <2>2 DEF IsMoved, Comparing, Stays, Joins, Departs
  <2> QED BY <2>7, <2>8 DEF Fine, rank, e, ch
<1>6. Faultless(run, guilds[g])
  BY <1>1, <1>2, <1>4 DEF WellInv, Well, Faultless
<1>7. NoTransition(run)
  BY <1>2, InBeginJoins DEF NoTransition
<1>8. run.id = NoId => run.original = Nobody
  BY <1>1, <1>2 DEF WellInv, Well, IsUnsaved, Comparing
<1>9. AllFine(g, run, members[IdOf[g]], history[g], characters)
  BY <1>5 DEF AllFine
<1> QED BY <1>2, <1>3, <1>6, <1>7, <1>8, <1>9, TurnWell

(* The joins are seen to: the leaves begin.                                *)
LEMMA LeavesWell ==
  ASSUME NEW g \in Guild, ScansInv, ScansGoWell, OneGuild, faults = 0,
         scan[g].step = "joins", scan[g].todo = {},
         scan' = [scan EXCEPT ![g] = StepRun(g, "leaves", BeginLeaves(scan[g]))],
         UNCHANGED <<guilds, members, characters, history, faults>>
  PROVE  ScansGoWell'
<1> DEFINE run == StepRun(g, "leaves", BeginLeaves(scan[g]))
<1>1. RunOK(g, scan[g]) /\ WellInv(g)
  BY WellIs DEF ScansInv
<1>2. /\ RunOK(g, run) /\ run.step = "leaves" /\ run.todo = BeginLeaves(scan[g])
      /\ run.clean = scan[g].clean /\ run.id = scan[g].id /\ run.isNew = scan[g].isNew
      /\ run.listed = scan[g].listed /\ run.roster = scan[g].roster /\ run.original = scan[g].original
  BY <1>1, StepIs DEF Comparing
<1>3. scan' = [scan EXCEPT ![g] = run]
  OBVIOUS
<1> HIDE DEF run
<1>5. ASSUME NEW c \in Char
      PROVE  Fine(g, run, c, RankIn(g, members[IdOf[g]][c]), history[g][c], characters[c])
  <2> DEFINE rank == RankIn(g, members[IdOf[g]][c])
             e == history[g][c]
             ch == characters[c]
  <2>1. /\ IsTold(scan[g], c, rank, e) /\ IsMoved(g, scan[g], c, rank, ch)
        /\ ~IsLog(scan[g], c) /\ ~IsMember(scan[g], c)
        /\ ~Awaited(scan[g], {"log", "character"}, c) /\ e \in Seq(LogEntry)
    BY FineIs, NoOps, SameRows
  <2>2. /\ IsLog(run, c) <=> Departs(run, c) /\ run.original[c] # OSINT_GM_RANK
        /\ IsMember(run, c) <=> Departs(run, c) /\ run.original[c] = OSINT_GM_RANK
        /\ Departs(run, c) => Awaited(run, {"log", "character"}, c)
    BY <1>2, InBeginLeaves DEF IsLog, IsMember, Awaited, Departs
  <2> HIDE DEF rank, e, ch
  <2>4. Agrees(rank, e) /\ (Departs(run, c) => rank = run.original[c])
    BY <1>2, <2>1 DEF IsTold, Comparing, Departs
  <2>5. Departs(run, c) => run.roster[c] = Absent /\ run.roster[c] # OSINT_GM_RANK
    BY Distinct DEF Departs, OSINT_GM_RANK
  <2>6. IsMember(run, c) => Agrees(run.roster[c], e)
    BY <2>1, <2>2, <2>4, <2>5, MasterAgrees
  <2>7. IsTold(run, c, rank, e)
    BY <1>2, <2>1, <2>2, <2>4, <2>5, <2>6 DEF IsTold, Comparing
  <2>8. IsMoved(g, run, c, rank, ch)
    BY <1>2, <2>1, <2>2 DEF IsMoved, Comparing, Stays, Joins, Departs
  <2> QED BY <2>7, <2>8 DEF Fine, rank, e, ch
<1>6. Faultless(run, guilds[g])
  BY <1>1, <1>2 DEF WellInv, Well, Faultless
<1>7. NoTransition(run)
  BY <1>2, InBeginLeaves DEF NoTransition
<1>8. run.id = NoId => run.original = Nobody
  BY <1>1, <1>2 DEF WellInv, Well, IsUnsaved, Comparing
<1>9. AllFine(g, run, members[IdOf[g]], history[g], characters)
  BY <1>5 DEF AllFine
<1> QED BY <1>2, <1>3, <1>6, <1>7, <1>8, <1>9, TurnWell

(* The leaves are seen to: the guild itself is left.                       *)
LEMMA EndsWell ==
  ASSUME NEW g \in Guild, ScansInv, ScansGoWell, OneGuild, faults = 0,
         scan[g].step = "leaves", scan[g].todo = {},
         scan' = [scan EXCEPT ![g] = StepRun(g, "changes", LastOps)],
         UNCHANGED <<guilds, members, characters, history, faults>>
  PROVE  ScansGoWell'
<1> DEFINE run == StepRun(g, "changes", LastOps)
<1>1. RunOK(g, scan[g]) /\ WellInv(g)
  BY WellIs DEF ScansInv
<1>2. /\ RunOK(g, run) /\ run.step = "changes" /\ run.todo = LastOps
      /\ run.clean = scan[g].clean /\ run.id = scan[g].id /\ run.isNew = scan[g].isNew
      /\ run.listed = scan[g].listed /\ run.roster = scan[g].roster /\ run.original = scan[g].original
  BY <1>1, StepIs DEF Comparing
<1>3. scan' = [scan EXCEPT ![g] = run]
  OBVIOUS
<1> HIDE DEF run
<1>4. scan[g].id = NoId \/ scan[g].clean
  BY <1>1 DEF WellInv, Well, Faultless
<1>5. ASSUME NEW c \in Char
      PROVE  Fine(g, run, c, RankIn(g, members[IdOf[g]][c]), history[g][c], characters[c])
  <2> DEFINE rank == RankIn(g, members[IdOf[g]][c])
             e == history[g][c]
             ch == characters[c]
  <2>1. /\ IsTold(scan[g], c, rank, e) /\ IsMoved(g, scan[g], c, rank, ch)
        /\ (scan[g].clean => IsFollowed(scan[g], c, rank))
        /\ (scan[g].id = NoId => rank = Absent)
        /\ ~IsLog(scan[g], c) /\ ~IsMember(scan[g], c)
        /\ ~Awaited(scan[g], {"log", "character"}, c) /\ ~Awaited(scan[g], {"log", "member"}, c)
    BY FineIs, NoOps
  <2>2. scan[g].listed[c] \in Rank \cup {Absent}
    BY <1>1 DEF RunOK, Roster
  <2> HIDE DEF rank, e, ch
  <2>3. IsTold(run, c, rank, e)
    BY <1>2, <2>1 DEF IsTold, Comparing
  <2> DEFINE listed == [guild |-> g, rank |-> scan[g].listed[c]]
  <2>4. HasRow(listed, g)
    BY <2>2, ConstantsAssumption DEF HasRow, CharacterRow
  <2>5. ASSUME scan[g].clean, IsFound(c, ch)
        PROVE  IF scan[g].listed[c] # Absent THEN ch = listed
               ELSE rank = Absent /\ (scan[g].original[c] = Absent \/ ~HasRow(ch, g))
    BY <2>1, <2>5 DEF IsMoved, IsFollowed, Follows, Comparing, Stays, Joins, Departs
  <2> HIDE DEF listed
  <2>6. IsFound(c, ch) /\ rank # Absent => HasRow(ch, g)
    BY <1>4, <2>1, <2>4, <2>5
  <2>7. IsMoved(g, run, c, rank, ch)
    BY <1>2, <2>5, <2>6 DEF IsMoved, Comparing, listed
  <2> QED BY <2>3, <2>7 DEF Fine, rank, e, ch
<1>6. Faultless(run, guilds[g])
  BY <1>1, <1>2, <1>4 DEF WellInv, Well, Faultless
<1>7. NoTransition(run)
  BY <1>2 DEF NoTransition, LastOps
<1>9. AllFine(g, run, members[IdOf[g]], history[g], characters)
  BY <1>5 DEF AllFine
<1> QED BY <1>2, <1>3, <1>6, <1>7, <1>9, TurnWell DEF Comparing

LEMMA NextChangesWell ==
  ASSUME NEW g \in Guild, ScansInv, ScansGoWell, OneGuild, faults = 0, NextChanges(g)
  PROVE  ScansGoWell'
<1>1. scan[g].todo = {} /\ UNCHANGED <<guilds, members, characters, history, faults>>
  BY DEF NextChanges, tables
<1> QED BY <1>1, JoinsWell, LeavesWell, EndsWell DEF NextChanges, Scans, LastOps, StepRun

-----------------------------------------------------------------------------
(* The guild itself: its log, its master, its row.                         *)
GuildRun(g, op, next) == [scan[g] EXCEPT !.todo = (scan[g].todo \ {op}) \cup next]

LEMMA GuildRunIs ==
  ASSUME NEW g \in Guild, NEW op, NEW next, RunOK(g, scan[g])
  PROVE  LET run == GuildRun(g, op, next)
         IN /\ run.todo = (scan[g].todo \ {op}) \cup next
            /\ run.step = scan[g].step /\ run.clean = scan[g].clean /\ run.id = scan[g].id
            /\ run.isNew = scan[g].isNew /\ run.listed = scan[g].listed
            /\ run.roster = scan[g].roster /\ run.original = scan[g].original
BY DEF GuildRun, RunOK, RunFields

(* Nobody is left whom the history tells of.                               *)
NobodyIsTold(g, t, entries) ==
  (\A c \in Char : RankIn(g, t[c]) = Absent) => \A c \in Char : entries[c] = <<>>

LEMMA GuildOpWell ==
  ASSUME NEW g \in Guild, NEW op, NEW next, NEW t, NEW entries \in [Char -> Seq(LogEntry)],
         ScansInv, ScansGoWell, OneGuild, faults = 0, scan[g].step = "changes", Done(g, op, next),
         AllFine(g, scan[g], t, entries, characters), NobodyIsTold(g, t, entries),
         scan[g].id = NoId => t = members[IdOf[g]] /\ next = {},
         members' = [members EXCEPT ![IdOf[g]] = t], history' = [history EXCEPT ![g] = entries],
         UNCHANGED <<guilds, characters, faults>>
  PROVE  ScansGoWell'
<1> DEFINE run == GuildRun(g, op, next)
<1>1. RunOK(g, scan[g]) /\ WellInv(g)
  BY WellIs DEF ScansInv
<1>2. /\ run.todo = (scan[g].todo \ {op}) \cup next
      /\ run.step = scan[g].step /\ run.clean = scan[g].clean /\ run.id = scan[g].id
      /\ run.isNew = scan[g].isNew /\ run.listed = scan[g].listed
      /\ run.roster = scan[g].roster /\ run.original = scan[g].original
  BY <1>1, GuildRunIs
<1>3. scan' = [scan EXCEPT ![g] = run]
  BY DEF Done, Scans, GuildRun
<1> HIDE DEF run
<1>4. Faultless(run, guilds[g])
  BY <1>1, <1>2 DEF WellInv, Well, Faultless
<1>5. ASSUME NEW c \in Char PROVE Fine(g, run, c, RankIn(g, t[c]), entries[c], characters[c])
  <2>1. Fine(g, scan[g], c, RankIn(g, t[c]), entries[c], characters[c])
    BY DEF AllFine
  <2> QED BY <1>2, <2>1 DEF Fine, IsTold, IsMoved, Comparing
<1>6. IsUnsaved(run, guilds[g]) =>
        /\ \A c \in Char : RankIn(g, t[c]) = Absent
        /\ run.step = "changes" => \A c \in Char : <<"transition", c>> \notin run.todo
  BY <1>1, <1>2 DEF WellInv, Well, IsUnsaved
<1>7. Well(g, run, guilds[g], t, entries, characters)
  BY <1>1, <1>2, <1>4, <1>5, <1>6 DEF WellInv, Well, NobodyIsTold, Comparing
<1>8. PICK chars : chars = characters
  OBVIOUS
<1> QED BY <1>3, <1>7, <1>8, RunMoves

LEMMA ChangesAreFine ==
  ASSUME NEW g \in Guild, ScansInv, ScansGoWell, faults = 0
  PROVE  /\ history[g] \in [Char -> Seq(LogEntry)] /\ characters \in [Char -> CharacterRow \cup {NoRow}]
         /\ AllFine(g, scan[g], members[IdOf[g]], history[g], characters)
         /\ NobodyIsTold(g, members[IdOf[g]], history[g])
BY WellIs DEF WellInv, Well, AllFine, NobodyIsTold

(* The tables stay.                                                        *)
LEMMA GuildLooks ==
  ASSUME NEW g \in Guild, NEW op, NEW next, ScansInv, ScansGoWell, OneGuild, faults = 0,
         scan[g].step = "changes", Done(g, op, next), scan[g].id = NoId => next = {},
         UNCHANGED <<guilds, members, characters, history, faults>>
  PROVE  ScansGoWell'
<1>1. PICK t, entries : t = members[IdOf[g]] /\ entries = history[g]
  OBVIOUS
<1>2. members' = [members EXCEPT ![IdOf[g]] = t] /\ history' = [history EXCEPT ![g] = entries]
  BY <1>1, SameTables
<1> QED BY <1>1, <1>2, ChangesAreFine, GuildOpWell

(* No other guild has entries that a new one could take over.              *)
LEMMA DetectWell ==
  ASSUME NEW g \in Guild, ScansInv, ScansGoWell, OneGuild, faults = 0, DetectChanges(g)
  PROVE  ScansGoWell'
<1>1. scan[g].step = "changes" /\ Done(g, <<"logs", NoRow>>, {})
      /\ UNCHANGED <<guilds, members, characters, faults>>
  BY DEF DetectChanges, Awaits
<1>2. scan[g].isNew => guilds[g] = NoRow
  BY <1>1, WellIs DEF WellInv, Well, Faultless
<1>3. scan[g].isNew => FoundById(scan[g].id) = {}
  BY <1>2 DEF FoundById, OneGuild
<1>4. UNCHANGED history
  BY <1>3 DEF DetectChanges
<1> QED BY <1>1, <1>4, GuildLooks

LEMMA FindMasterWell ==
  ASSUME NEW g \in Guild, ScansInv, ScansGoWell, OneGuild, faults = 0, FindMaster(g)
  PROVE  ScansGoWell'
<1>1. scan[g].step = "changes" /\ UNCHANGED <<guilds, members, characters, history, faults>>
  BY DEF FindMaster, Awaits, tables
<1>2. CASE Done(g, <<"master", NoRow>>, {})
  BY <1>1, <1>2, GuildLooks
<1>3. CASE ~Done(g, <<"master", NoRow>>, {})
  <2>1. PICK c \in Char : MemberRank(g, c) = OSINT_GM_RANK /\ \E next : Done(g, <<"master", NoRow>>, next)
    BY <1>3 DEF FindMaster
  <2>2. scan[g].id # NoId
    BY <1>1, <2>1, FineIs, MemberRankIs, Distinct DEF OSINT_GM_RANK
  <2> QED BY <1>1, <2>1, <2>2, GuildLooks
<1> QED BY <1>2, <1>3

LEMMA ToldIs ==
  ASSUME NEW entries \in [Char -> Seq(LogEntry)], NEW old \in Char, NEW new \in Char
  PROVE  LET told == Told(entries, old, new)
         IN /\ told \in [Char -> Seq(LogEntry)]
            /\ \A c \in Char : IF c \in {old, new} THEN \A rank : Agrees(rank, told[c])
                               ELSE told[c] = entries[c]
<1> DEFINE told == Told(entries, old, new)
<1>1. MasterEntry \in LogEntry /\ MasterEntry.action = "MASTER"
  BY DEF MasterEntry, LogEntry
<1>2. ASSUME NEW c \in Char
      PROVE  /\ told[c] \in Seq(LogEntry)
             /\ IF c \in {old, new} THEN \A rank : Agrees(rank, told[c]) ELSE told[c] = entries[c]
  <2>1. CASE c \in {old, new}
    <3>1. told[c] = Append(entries[c], MasterEntry) /\ entries[c] \in Seq(LogEntry)
      BY <2>1 DEF Told
    <3> HIDE DEF told
    <3>2. ASSUME NEW rank PROVE told[c] \in Seq(LogEntry) /\ Agrees(rank, told[c])
      BY <1>1, <3>1, AppendAgrees
    <3> QED BY <2>1, <3>2
  <2>2. CASE c \notin {old, new}
    BY <2>2 DEF Told
  <2> QED BY <2>1, <2>2
<1>3. told = [c \in Char |-> told[c]]
  BY DEF Told
<1> HIDE DEF told
<1>4. told \in [Char -> Seq(LogEntry)]
  BY <1>2, <1>3
<1> QED BY <1>2, <1>4 DEF told

(* The scan of a transition is clean, and has the characters where the     *)
(* transition puts them: what is left for it is the table and the history. *)
LEMMA TransitionIsClean ==
  ASSUME NEW g \in Guild, NEW old \in Char, NEW new \in Char, ScansInv, ScansGoWell, faults = 0,
         scan[g].step = "changes", <<"transition", old>> \in scan[g].todo, IsTransition(g, old, new)
  PROVE  /\ scan[g].id # NoId /\ scan[g].clean /\ scan[g].roster = scan[g].listed
         /\ RankIn(g, members[IdOf[g]][new]) # Absent
         /\ characters' = characters
<1>1. RunOK(g, scan[g]) /\ WellInv(g)
  BY WellIs DEF ScansInv
<1>2. scan[g].id # NoId
  BY <1>1 DEF WellInv, Well, IsUnsaved
<1>3. scan[g].roster[new] = OSINT_GM_RANK /\ OSINT_GM_RANK # Absent
  BY Distinct DEF IsTransition, OSINT_GM_RANK
<1>4. scan[g].clean
  BY <1>1, <1>2, <1>3 DEF WellInv, Well, Faultless, Nobody
<1>5. \A c \in Char : scan[g].roster[c] = scan[g].listed[c] /\ Follows(RankIn(g, members[IdOf[g]][c]), scan[g].listed[c])
  BY <1>4, FineIs DEF IsFollowed
<1>6. scan[g].roster = scan[g].listed
  BY <1>1, <1>5 DEF RunOK, Roster
<1>7. RankIn(g, members[IdOf[g]][new]) # Absent
  BY <1>3, <1>5 DEF Follows
<1>8. characters' = characters
  <2>1. characters \in [Char -> CharacterRow \cup {NoRow}]
    BY ChangesAreFine
  <2>2. ASSUME NEW c \in Successor(g, old, new)
        PROVE  characters[c] # NoRow => characters[c] = [guild |-> g, rank |-> scan[g].roster[c]]
    <3>1. c \in Char /\ scan[g].listed[c] # Absent
      BY <1>1, <1>3, <1>6, <2>2, SuccessorsAreRanked, Distinct
    <3>2. IsMoved(g, scan[g], c, RankIn(g, members[IdOf[g]][c]), characters[c])
      BY <3>1, FineIs
    <3> QED BY <1>4, <1>6, <3>1, <3>2 DEF IsMoved, IsFound
  <2>3. ASSUME NEW c \in Successor(g, old, new)
        PROVE  characters[c] # NoRow => [characters[c] EXCEPT !.rank = scan[g].roster[c]] = characters[c]
    <3>1. PICK ch, rank : ch = characters[c] /\ rank = scan[g].roster[c]
      OBVIOUS
    <3>2. ch # NoRow => ch = [guild |-> g, rank |-> rank]
      BY <2>2, <3>1
    <3>3. ch # NoRow => [ch EXCEPT !.rank = rank] = ch
      BY <3>2
    <3> QED BY <3>1, <3>3
  <2>4. characters' = [c \in Char |-> characters[c]]
    BY <2>3 DEF IsTransition
  <2> QED BY <2>1, <2>4
<1> QED BY <1>2, <1>4, <1>6, <1>7, <1>8

LEMMA TransitionWell ==
  ASSUME NEW g \in Guild, NEW old \in Char, ScansInv, ScansGoWell, OneGuild, faults = 0,
         ApplyTransition(g, old)
  PROVE  ScansGoWell'
<1>1. /\ scan[g].step = "changes" /\ <<"transition", old>> \in scan[g].todo
      /\ Done(g, <<"transition", old>>, {}) /\ UNCHANGED <<guilds, faults>>
  BY DEF ApplyTransition, Awaits
<1>2. PICK new \in Char : IsTransition(g, old, new)
  BY TransitionIs
<1>3. /\ scan[g].id # NoId /\ scan[g].clean /\ scan[g].roster = scan[g].listed
      /\ RankIn(g, members[IdOf[g]][new]) # Absent
      /\ characters' = characters /\ history' = [history EXCEPT ![g] = Told(history[g], old, new)]
  BY <1>1, <1>2, TransitionIsClean DEF IsTransition
<1>4. PICK ranked : ranked = Successor(g, old, new)
  OBVIOUS
<1>5. PICK t : t = RankedTable(g, ranked)
  OBVIOUS
<1>6. members' = [members EXCEPT ![IdOf[g]] = t]
  BY <1>2, <1>4, <1>5 DEF IsTransition
<1>7. RunOK(g, scan[g]) /\ (\A c \in ranked : scan[g].roster[c] \in Rank) /\ new \in ranked
      /\ ranked \subseteq {old, new}
  <2>1. RunOK(g, scan[g])
    BY DEF ScansInv
  <2> QED BY <1>2, <1>4, <2>1, SuccessorsAreRanked DEF IsTransition, Successor
<1>8. \A c \in Char :
        LET row == members[IdOf[g]][c]
        IN IF c \in ranked /\ RankIn(g, row) # Absent
             THEN RankIn(g, t[c]) = scan[g].roster[c] ELSE t[c] = row
  BY <1>5, <1>7, RankedIs
<1>9. PICK entries : entries = history[g]
  OBVIOUS
<1>10. entries \in [Char -> Seq(LogEntry)] /\ AllFine(g, scan[g], members[IdOf[g]], entries, characters)
  BY <1>9, ChangesAreFine
<1>11. PICK told : told = Told(entries, old, new)
  OBVIOUS
<1>12. /\ told \in [Char -> Seq(LogEntry)]
       /\ \A c \in Char : IF c \in {old, new} THEN \A rank : Agrees(rank, told[c])
                          ELSE told[c] = entries[c]
  <2>1. LET made == Told(entries, old, new)
        IN /\ made \in [Char -> Seq(LogEntry)]
           /\ \A c \in Char : IF c \in {old, new} THEN \A rank : Agrees(rank, made[c])
                              ELSE made[c] = entries[c]
    BY <1>10, ToldIs
  <2> QED BY <1>11, <2>1
<1>13. ASSUME NEW c \in Char PROVE Fine(g, scan[g], c, RankIn(g, t[c]), told[c], characters[c])
  <2> DEFINE rank == RankIn(g, members[IdOf[g]][c])
  <2>1. IsTold(scan[g], c, rank, entries[c]) /\ IsMoved(g, scan[g], c, rank, characters[c])
    BY <1>10 DEF AllFine, Fine
  <2>2. RankIn(g, t[c]) = rank \/ (c \in ranked /\ rank # Absent)
    BY <1>8
  <2> HIDE DEF rank
  <2>3. IsTold(scan[g], c, RankIn(g, t[c]), told[c])
    BY <1>1, <1>7, <1>12, <2>1, <2>2 DEF IsTold, Comparing
  <2>4. IsMoved(g, scan[g], c, RankIn(g, t[c]), characters[c])
    BY <1>1, <2>1, <2>2 DEF IsMoved, Comparing
  <2> QED BY <2>3, <2>4 DEF Fine
<1>14. RankIn(g, t[new]) # Absent
  BY <1>3, <1>7, <1>8, Distinct
<1>15. AllFine(g, scan[g], t, told, characters) /\ NobodyIsTold(g, t, told)
  BY <1>13, <1>14 DEF AllFine, NobodyIsTold
<1>16. history' = [history EXCEPT ![g] = told]
  BY <1>3, <1>9, <1>11
<1> QED BY <1>1, <1>3, <1>6, <1>12, <1>15, <1>16, GuildOpWell

(* The guild's row is saved, and its scan is over.                         *)
LEMMA SaveGuildWell ==
  ASSUME NEW g \in Guild, ScansInv, ScansGoWell, OneGuild, faults = 0, SaveGuild(g)
  PROVE  ScansGoWell'
<1> DEFINE saved == [id |-> IF scan[g].summary THEN IdOf[g] ELSE scan[g].id]
<1>1. /\ scan[g].step = "changes" /\ scan' = [scan EXCEPT ![g] = NoScan]
      /\ guilds' = [guilds EXCEPT ![g] = saved] /\ UNCHANGED <<members, characters, history, faults>>
  BY DEF SaveGuild, Scans
<1>2. RunOK(g, scan[g]) /\ WellInv(g)
  BY WellIs DEF ScansInv
<1>3. saved # NoRow /\ (saved.id = NoId => scan[g].id = NoId)
  <2>1. IdOf[g] \in Id /\ saved.id \in {IdOf[g], scan[g].id}
    BY Distinct
  <2>2. saved \in GuildRow
    BY <1>2, <2>1 DEF RunOK, GuildRow
  <2> QED BY <2>1, <2>2, ConstantsAssumption
<1> HIDE DEF saved
<1>4. /\ NoScan.step = "idle" /\ NoScan.id = NoId
  BY DEF NoScan
<1>5. Faultless(NoScan, saved) /\ (IsUnsaved(NoScan, saved) => IsUnsaved(scan[g], guilds[g]))
  BY <1>1, <1>3, <1>4 DEF Faultless, IsUnsaved
<1>6. ASSUME NEW c \in Char
      PROVE  Fine(g, NoScan, c, RankIn(g, members[IdOf[g]][c]), history[g][c], characters[c])
  <2>1. Fine(g, scan[g], c, RankIn(g, members[IdOf[g]][c]), history[g][c], characters[c])
    BY <1>2 DEF WellInv, Well
  <2> QED BY <1>1, <1>4, <2>1 DEF Fine, IsTold, IsMoved, Comparing
<1>7. Well(g, NoScan, saved, members[IdOf[g]], history[g], characters)
  BY <1>2, <1>4, <1>5, <1>6 DEF WellInv, Well, Comparing
<1>8. PICK t, entries, chars : t = members[IdOf[g]] /\ entries = history[g] /\ chars = characters
  OBVIOUS
<1>9. /\ members' = [members EXCEPT ![IdOf[g]] = t] /\ history' = [history EXCEPT ![g] = entries]
      /\ characters' = chars /\ Well(g, NoScan, saved, t, entries, chars) /\ faults' \in Nat
  BY <1>1, <1>7, <1>8, SameTables
<1>10. PICK row : row = saved
  OBVIOUS
<1> QED BY <1>1, <1>9, <1>10, WellMoves

-----------------------------------------------------------------------------
(* What every step does to the failures and to the history.                *)
IsStep ==
  /\ faults' \in {faults, faults + 1}
  /\ history' = [h \in Guild |-> history'[h]]

LEMMA MemberStepIs ==
  ASSUME NEW g \in Guild, NEW c \in Char, ScansGoWell, MemberStep(g, c)
  PROVE  IsStep
<1>1. CASE SaveLog(g, c)
  BY <1>1 DEF SaveLog, IsStep, ScansGoWell
<1>2. CASE ApplyTransition(g, c)
  <2>1. PICK new \in Char : IsTransition(g, c, new)
    BY <1>2, TransitionIs
  <2> QED BY <1>2, <2>1 DEF ApplyTransition, IsTransition, IsStep, ScansGoWell
<1>3. CASE ~SaveLog(g, c) /\ ~ApplyTransition(g, c)
  BY <1>3 DEF MemberStep, FindCharacter, SaveCharacter, UpdateCharacter, UpdateRank, SaveMember,
              SaveMemberWithoutId, DeleteMember, tables, IsStep, ScansGoWell
<1> QED BY <1>1, <1>2, <1>3

LEMMA StepsAre == ASSUME ScansGoWell, Next PROVE IsStep
<1>1. ASSUME NEW s \in Sites, Change(s) PROVE IsStep
  BY <1>1 DEF Change, tables, IsStep, ScansGoWell
<1>2. ASSUME NEW g \in Guild, NEW id, Start(g, id) PROVE IsStep
  BY <1>2 DEF Start, tables, IsStep, ScansGoWell
<1>3. ASSUME NEW g \in Guild, ScanStep(g) PROVE IsStep
  <2>1. ASSUME NEW isSummary \in BOOLEAN, NEW isRoster \in BOOLEAN, FetchGuildData(g, isSummary, isRoster)
        PROVE  IsStep
    BY <2>1 DEF FetchGuildData, Fault, tables, IsStep, ScansGoWell
  <2>2. ASSUME CompareRosters(g) \/ NextChanges(g) \/ FindMaster(g) PROVE IsStep
    BY <2>2 DEF CompareRosters, NextChanges, FindMaster, tables, IsStep, ScansGoWell
  <2>3. ASSUME SaveGuild(g) PROVE IsStep
    BY <2>3 DEF SaveGuild, IsStep, ScansGoWell
  <2>4. ASSUME DetectChanges(g) PROVE IsStep
    <3>1. CASE UNCHANGED history
      BY <2>4, <3>1 DEF DetectChanges, IsStep, ScansGoWell
    <3>2. CASE ~UNCHANGED history
      <4>1. PICK h \in FoundById(scan[g].id) :
              history' = [history EXCEPT ![h] = [c \in Char |-> <<>>],
                                         ![g] = [c \in Char |-> history[h][c] \o history[g][c]]]
        BY <2>4, <3>2 DEF DetectChanges
      <4>2. history' = [j \in Guild |-> history'[j]]
        BY <4>1 DEF ScansGoWell
      <4>3. UNCHANGED faults
        BY <2>4 DEF DetectChanges
      <4> QED BY <4>2, <4>3 DEF IsStep
    <3> QED BY <3>1, <3>2
  <2> QED BY <1>3, <2>1, <2>2, <2>3, <2>4, MemberStepIs DEF ScanStep
<1>4. ASSUME NEW g \in Guild, Failure(g) PROVE IsStep
  BY <1>4 DEF Failure, OperationFails, CompareFails, JobFails, Fault, tables, IsStep, ScansGoWell
<1> QED BY <1>1, <1>2, <1>3, <1>4 DEF Next

LEMMA ScansGoWellNext == ASSUME ScansInv, ScansGoWell, OneGuild, [Next]_vars PROVE ScansGoWell'
<1>1. CASE UNCHANGED vars
  BY <1>1 DEF vars, tables, ScansGoWell
<1>2. CASE Next /\ faults' # 0
  <2>1. faults' \in Nat /\ history' = [h \in Guild |-> history'[h]]
    BY <1>2, StepsAre DEF IsStep, ScansGoWell
  <2> QED BY <1>2, <2>1 DEF ScansGoWell
<1>3. CASE Next /\ faults' = 0
  <2>1. faults = 0 /\ ~Fault
    BY <1>3, StepsAre DEF IsStep, ScansGoWell, Fault
  <2>2. ASSUME NEW g \in Guild, NEW c \in Char, MemberStep(g, c) PROVE ScansGoWell'
    BY <2>1, <2>2, FindWell, SaveCharacterWell, SaveLogWell, UpdateCharacterWell, UpdateRankWell,
       SaveMemberWell, SaveWithoutIdWell, DeleteMemberWell, TransitionWell DEF MemberStep
  <2>3. ASSUME NEW g \in Guild, ScanStep(g) PROVE ScansGoWell'
    BY <1>3, <2>1, <2>2, <2>3, FetchWell, CompareWell, NextChangesWell, DetectWell, FindMasterWell,
       SaveGuildWell DEF ScanStep
  <2>4. \A g \in Guild : ~Failure(g)
    BY <2>1 DEF Failure, OperationFails, CompareFails, JobFails
  <2> QED BY <1>3, <2>1, <2>3, <2>4, ChangeWell, StartWell DEF Next
<1> QED BY <1>1, <1>2, <1>3

LEMMA ScansGoWellInit == ASSUME Init PROVE ScansGoWell
<1>1. /\ faults = 0 /\ history = [g \in Guild |-> [c \in Char |-> <<>>]]
      /\ scan = [g \in Guild |-> NoScan] /\ characters = [c \in Char |-> NoRow]
      /\ guilds = [g \in Guild |-> NoRow] /\ members = [i \in Id |-> [c \in Char |-> NoRow]]
  BY DEF Init
<1>2. NoScan.step = "idle" /\ NoScan.id = NoId
  BY DEF NoScan
<1>3. ASSUME NEW g \in Guild
      PROVE  Well(g, NoScan, NoRow, [c \in Char |-> NoRow], [c \in Char |-> <<>>], [c \in Char |-> NoRow])
  <2>1. RankIn(g, NoRow) = Absent
    BY DEF RankIn
  <2>2. ASSUME NEW c \in Char PROVE Fine(g, NoScan, c, Absent, <<>>, NoRow)
    BY <1>2 DEF Fine, IsTold, IsMoved, Comparing, Agrees
  <2>3. Faultless(NoScan, NoRow)
    BY <1>2 DEF Faultless
  <2> QED BY <1>2, <2>1, <2>2, <2>3 DEF Well, Comparing
<1> QED BY <1>1, <1>3, Distinct DEF ScansGoWell

LEMMA OneHasItsId == ASSUME OneGuild PROVE OwnIds
BY DEF OneGuild, OwnIds

LEMMA ScansGoWellAlways == ASSUME OneGuild PROVE Spec => [](ScansInv /\ ScansGoWell)
<1>1. Init => ScansInv /\ ScansGoWell
  BY ScansInit, ScansGoWellInit
<1>2. ScansInv /\ ScansGoWell /\ [Next]_vars => ScansInv' /\ ScansGoWell'
  BY ScansNext, ScansGoWellNext, OneHasItsId
<1> QED BY <1>1, <1>2, PTL DEF Spec

(* Where nothing failed, the last entry about a character tells its rank   *)
(* in the table: no change goes without its entry and no entry without its *)
(* change.                                                                 *)
THEOREM HistoryTells == ASSUME OneGuild PROVE Spec => []HistoryAgrees
<1>1. ScansInv /\ ScansGoWell => HistoryAgrees
  <2> SUFFICES ASSUME ScansInv, ScansGoWell, faults = 0, NEW g \in Guild, NEW c \in Char,
                      scan[g].step = "idle"
               PROVE  Agrees(MemberRank(g, c), history[g][c])
    BY DEF HistoryAgrees
  <2> QED BY FineIs, MemberRankIs DEF IsTold, Comparing
<1> QED BY <1>1, ScansGoWellAlways, PTL

(* Where nothing failed, the members' characters are in the guild with     *)
(* their rank at the end of a scan, but those with neither row nor realm;  *)
(* those that left are not.                                                *)
THEOREM CharactersAreMoved == ASSUME OneGuild PROVE Spec => []CharactersFollow
<1>1. ScansInv /\ ScansGoWell => CharactersFollow
  <2> SUFFICES ASSUME ScansInv, ScansGoWell, faults = 0, NEW g \in Guild, Ends(g), scan[g].clean,
                      NEW c \in Char
               PROVE  IF scan[g].listed[c] # Absent
                      THEN \/ characters[c] = [guild |-> g, rank |-> scan[g].listed[c]]
                           \/ characters[c] = NoRow /\ c \notin KnownRealm
                      ELSE scan[g].original[c] = Absent \/ characters[c] = NoRow \/ characters[c].guild # g
    BY DEF CharactersFollow
  <2> QED BY FineIs DEF IsMoved, IsFound, HasRow, Ends
<1> QED BY <1>1, ScansGoWellAlways, PTL

=============================================================================
