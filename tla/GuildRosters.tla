----------------------------- MODULE GuildRosters -----------------------------
(***************************************************************************)
(* Guild scans: the jobs of apps/osint/src/workers/guilds.worker.ts with    *)
(* the roster, member, log and master services they call.                   *)
(*                                                                         *)
(* A scan reads a guild's roster from Battle.net, saves every member's      *)
(* character, compares the roster with the table characters_guilds_members  *)
(* and follows it: ranks, joins, leaves, and then the guild's master, each   *)
(* with its entry in characters_guilds_logs.  A guild has at most one scan,  *)
(* because the job's id is the guild's guid.  What a scan awaits at the same *)
(* time is a set of operations, done in any order; apart from the master's   *)
(* transaction each is a statement of its own, and fails on its own.         *)
(*                                                                         *)
(* The members table is keyed by the guild's numeric id, a guild's scan by   *)
(* its guid, which is made of its name: a renamed guild has a new guid.      *)
(* Timestamps are left out: where the code compares a guild's with a         *)
(* character's, either may be the later one.  So are the guild's own columns *)
(* (name and faction entries of the log, status), and what a character has   *)
(* besides its guild and rank.                                              *)
(***************************************************************************)
EXTENDS Naturals, Sequences, FiniteSets

CONSTANTS
  Guild,         \* guids
  Id, IdOf,      \* the numeric ids, and which one a guid has
  Char,
  KnownRealm,    \* the characters whose realm is in the realms table
  LowestRank,    \* ranks are 0 .. LowestRank
  InitialSite,   \* the rosters there may be at first
  MaxChanges,    \* bound: changes of rosters
  MaxFaults,     \* bound: failed requests and statements, dead processes
  Absent,        \* not in the roster
  NoGuild, NoId, NoRow

OSINT_GM_RANK == 0

Rank == 0 .. LowestRank

\* a roster maps the guild's members to their ranks; one is the master
Roster == [Char -> Rank \cup {Absent}]

Nobody == [c \in Char |-> Absent]

Rosters == {r \in Roster : Cardinality({c \in Char : r[c] = OSINT_GM_RANK}) = 1}

\* a character is in one guild
Sites == {s \in [Guild -> Rosters \cup {Nobody}] :
            \A c \in Char : Cardinality({g \in Guild : s[g][c] # Absent}) <= 1}

GuildRow == [id : Id \cup {NoId}]

MemberRow == [guild : Guild, rank : Rank]

CharacterRow == [guild : Guild \cup {NoGuild}, rank : Rank \cup {Absent}]

\* MASTER stands for GUILD_INHERIT, GUILD_OWNERSHIP and GUILD_TRANSIT
Entry == [action : {"JOIN", "LEAVE", "PROMOTE", "DEMOTE", "MASTER"}, rank : Rank \cup {Absent}]

ASSUME ConstantsAssumption ==
  /\ IsFiniteSet(Char) /\ KnownRealm \subseteq Char
  /\ {LowestRank, MaxChanges, MaxFaults} \subseteq Nat
  /\ IdOf \in [Guild -> Id]
  /\ InitialSite \subseteq Sites
  /\ Absent \notin Rank
  /\ NoGuild \notin Guild /\ NoId \notin Id
  /\ NoRow \notin GuildRow \cup MemberRow \cup CharacterRow \cup Char

VARIABLES
  site,        \* the rosters as Battle.net knows them
  guilds,      \* the guilds table
  members,     \* characters_guilds_members, keyed by id and character
  characters,  \* the guild columns of the characters table
  history,     \* characters_guilds_logs: each guild's entries about each character
  scan,        \* each guild's job
  changes, faults

tables == <<guilds, members, characters, history>>
vars == <<site, tables, scan, changes, faults>>

-----------------------------------------------------------------------------
(* A scan                                                                  *)

\* `todo` are the operations it awaits; `roster` the members it processed,
\* `original` the ranks in the table when it compared.  Two history variables:
\* `listed` is the roster it was sent, `clean` says that nothing of it failed
NoScan == [step |-> "idle", isNew |-> FALSE, id |-> NoId, summary |-> FALSE, todo |-> {},
           listed |-> Nobody, roster |-> Nobody, original |-> Nobody, clean |-> TRUE]

Present(roster) == {c \in Char : roster[c] # Absent}

\* the rank the table gives to a character in the guild
MemberRank(g, c) ==
  LET row == members[IdOf[g]][c]
  IN IF row # NoRow /\ row.guild = g THEN row.rank ELSE Absent

Operations(names, chars) == names \X chars

\* the job of g goes on as the record run
Scans(g, run) ==
  /\ scan' = [scan EXCEPT ![g] = run]
  /\ UNCHANGED <<site, changes>>

\* the operation is done, and others follow it
Done(g, op, next) == Scans(g, [scan[g] EXCEPT !.todo = (@ \ {op}) \cup next])

Awaits(g, step, op) == scan[g].step = step /\ op \in scan[g].todo

Fault == faults < MaxFaults /\ faults' = faults + 1

Init ==
  /\ site \in InitialSite
  /\ guilds = [g \in Guild |-> NoRow]
  /\ members = [i \in Id |-> [c \in Char |-> NoRow]]
  /\ characters = [c \in Char |-> NoRow]
  /\ history = [g \in Guild |-> [c \in Char |-> <<>>]]
  /\ scan = [g \in Guild |-> NoScan]
  /\ changes = 0
  /\ faults = 0

\* players join, leave, are promoted and hand guilds over; guilds come and go
Change(s) ==
  /\ changes < MaxChanges
  /\ changes' = changes + 1
  /\ site' = s
  /\ UNCHANGED <<tables, scan, faults>>

\* findOrCreate: a job may bring the id of a guild that is not in the table yet
Start(g, id) ==
  /\ scan[g].step = "idle"
  /\ LET isNew == guilds[g] = NoRow
     IN /\ ~isNew => id = guilds[g].id
        /\ Scans(g, [NoScan EXCEPT !.step = "request", !.isNew = isNew, !.id = id])
  /\ UNCHANGED <<tables, faults>>

-----------------------------------------------------------------------------
(* fetchGuildData                                                          *)

\* the summary and the roster arrive, or one of them fails, or the guild is gone;
\* a roster that failed is an empty one
FetchGuildData(g, isSummary, isRoster) ==
  /\ scan[g].step = "request"
  /\ IF isSummary = isRoster /\ isRoster = (site[g] # Nobody)
       THEN UNCHANGED faults ELSE site[g] # Nobody /\ Fault
  /\ Scans(g, IF isRoster
                THEN [scan[g] EXCEPT !.step = "roster", !.summary = isSummary, !.listed = site[g],
                                     !.todo = Operations({"find"}, Present(site[g]))]
                ELSE [scan[g] EXCEPT !.step = "changes", !.summary = isSummary, !.clean = FALSE,
                                     !.todo = {<<"logs", NoRow>>, <<"master", NoRow>>}])
  /\ UNCHANGED tables

\* processRosterMember is done with c
Processed(g, op) ==
  Scans(g, [scan[g] EXCEPT !.todo = @ \ {op}, !.roster[op[2]] = scan[g].listed[op[2]]])

\* characterAsGuildMember: a row of another guild is left alone, unless the
\* guild's timestamp is later; a character that has no row gets one, unless its
\* realm is not found, which is no error
FindCharacter(g, c, isUpdateByGuild) ==
  LET op == <<"find", c>>
      isSaved == IF characters[c] = NoRow THEN c \in KnownRealm
                 ELSE isUpdateByGuild \/ characters[c].guild = g
  IN /\ Awaits(g, "roster", op)
     /\ IF isSaved THEN Done(g, op, {<<"save", c>>}) ELSE Processed(g, op)
     /\ UNCHANGED <<tables, faults>>

\* the row it found is saved whole, as the guild's member
SaveCharacter(g, c) ==
  /\ Awaits(g, "roster", <<"save", c>>)
  /\ characters' = [characters EXCEPT ![c] = [guild |-> g, rank |-> scan[g].listed[c]]]
  /\ Processed(g, <<"save", c>>)
  /\ UNCHANGED <<guilds, members, history, faults>>

-----------------------------------------------------------------------------
(* updateRoster                                                            *)

\* mutant: a roster of the same size is taken for an unchanged one
CompareSizes(g) ==
  /\ scan[g].step = "roster" /\ scan[g].todo = {}
  /\ LET original == [c \in Char |-> MemberRank(g, c)]
         run == [scan[g] EXCEPT !.original = original]
         changed == {c \in Present(original) \cap Present(run.roster) :
                       /\ original[c] # run.roster[c]
                       /\ OSINT_GM_RANK \notin {original[c], run.roster[c]}}
     IN Scans(g, IF Cardinality(Present(run.roster)) = Cardinality(Present(original))
                   THEN [scan[g] EXCEPT !.step = "changes",
                                        !.todo = {<<"logs", NoRow>>, <<"master", NoRow>>}]
                   ELSE [run EXCEPT !.step = "ranks",
                                    !.todo = Operations({"log", "member", "character"}, changed)])
  /\ UNCHANGED <<tables, faults>>

\* compareRosters, once all members are processed; an empty roster is no roster
CompareRosters(g) ==
  /\ scan[g].step = "roster" /\ scan[g].todo = {}
  /\ LET original == [c \in Char |-> MemberRank(g, c)]
         run == [scan[g] EXCEPT !.original = original]
         changed == {c \in Present(original) \cap Present(run.roster) :
                       /\ original[c] # run.roster[c]
                       /\ OSINT_GM_RANK \notin {original[c], run.roster[c]}}
     IN Scans(g, IF run.roster = Nobody
                   THEN [scan[g] EXCEPT !.step = "changes",
                                        !.todo = {<<"logs", NoRow>>, <<"master", NoRow>>}]
                   ELSE [run EXCEPT !.step = "ranks",
                                    !.todo = Operations({"log", "member", "character"}, changed)])
  /\ UNCHANGED <<tables, faults>>

\* mutant: what is not logged is not done
BeginLogged(chars, logged) == Operations({"log"}, chars \cap logged)

\* the operations a member's join or leave begins with: the master's is not logged,
\* and nobody's join the first time the roster is indexed
Begin(chars, logged) == Operations({"log"}, chars \cap logged)
                          \cup Operations({"member", "character"}, chars \ logged)

BeginJoins(run) ==
  LET isFirstTime == run.original = Nobody
  IN Begin(Present(run.roster) \ Present(run.original),
           {c \in Char : run.roster[c] # OSINT_GM_RANK /\ ~isFirstTime})

BeginLeaves(run) ==
  Begin(Present(run.original) \ Present(run.roster),
        {c \in Char : run.original[c] # OSINT_GM_RANK})

\* processRosterChanges: the ranks, then the joins, then the leaves
NextChanges(g) ==
  /\ scan[g].todo = {}
  /\ LET run == scan[g]
     IN \/ run.step = "ranks" /\ Scans(g, [run EXCEPT !.step = "joins", !.todo = BeginJoins(run)])
        \/ run.step = "joins" /\ Scans(g, [run EXCEPT !.step = "leaves", !.todo = BeginLeaves(run)])
        \/ /\ run.step = "leaves"
           /\ Scans(g, [run EXCEPT !.step = "changes",
                                   !.todo = {<<"logs", NoRow>>, <<"master", NoRow>>}])
  /\ UNCHANGED <<tables, faults>>

NewEntry(run, c) ==
  CASE run.step = "joins" -> [action |-> "JOIN", rank |-> run.roster[c]]
    [] run.step = "leaves" -> [action |-> "LEAVE", rank |-> Absent]
    [] OTHER -> [action |-> IF run.roster[c] > run.original[c] THEN "DEMOTE" ELSE "PROMOTE",
                 rank |-> run.roster[c]]

\* the log of a join or leave is saved before the rest of it, that of a rank beside it
SaveLog(g, c) ==
  /\ \E step \in {"ranks", "joins", "leaves"} : Awaits(g, step, <<"log", c>>)
  /\ history' = [history EXCEPT ![g][c] = Append(@, NewEntry(scan[g], c))]
  /\ Done(g, <<"log", c>>, IF scan[g].step = "ranks" THEN {}
                           ELSE Operations({"member", "character"}, {c}))
  /\ UNCHANGED <<guilds, members, characters, faults>>

UpdateRank(g, c) ==
  /\ Awaits(g, "ranks", <<"member", c>>)
  /\ members' = [members EXCEPT ![IdOf[g]][c] =
                   IF MemberRank(g, c) = Absent THEN @ ELSE [@ EXCEPT !.rank = scan[g].roster[c]]]
  /\ Done(g, <<"member", c>>, {})
  /\ UNCHANGED <<guilds, characters, history, faults>>

\* save inserts the row, or overwrites the one with the same id
SaveMember(g, c) ==
  /\ Awaits(g, "joins", <<"member", c>>)
  /\ scan[g].id # NoId
  /\ members' = [members EXCEPT ![scan[g].id][c] = [guild |-> g, rank |-> scan[g].roster[c]]]
  /\ Done(g, <<"member", c>>, {})
  /\ UNCHANGED <<guilds, characters, history, faults>>

\* guild_id may not be null: a scan that began without the id saves no member
SaveMemberWithoutId(g, c) ==
  /\ Awaits(g, "joins", <<"member", c>>)
  /\ scan[g].id = NoId
  /\ Scans(g, [scan[g] EXCEPT !.todo = @ \ {<<"member", c>>}, !.clean = FALSE])
  /\ UNCHANGED <<tables, faults>>

DeleteMember(g, c) ==
  /\ Awaits(g, "leaves", <<"member", c>>)
  /\ members' = [members EXCEPT ![IdOf[g]][c] = IF MemberRank(g, c) = Absent THEN @ ELSE NoRow]
  /\ Done(g, <<"member", c>>, {})
  /\ UNCHANGED <<guilds, characters, history, faults>>

\* mutant: a leave leaves the character as it is
UpdateCharacterOfMember(g, c) ==
  /\ \E step \in {"ranks", "joins", "leaves"} : Awaits(g, step, <<"character", c>>)
  /\ characters' = [characters EXCEPT ![c] =
       IF @ = NoRow \/ scan[g].step = "leaves" THEN @
       ELSE [guild |-> g, rank |-> scan[g].roster[c]]]
  /\ Done(g, <<"character", c>>, {})
  /\ UNCHANGED <<guilds, members, history, faults>>

\* a leave clears the guild only where it still is this one
UpdateCharacter(g, c) ==
  /\ \E step \in {"ranks", "joins", "leaves"} : Awaits(g, step, <<"character", c>>)
  /\ LET row == characters[c]
         rank == scan[g].roster[c]
     IN characters' = [characters EXCEPT ![c] =
          IF row = NoRow THEN NoRow
          ELSE CASE scan[g].step = "ranks" -> [row EXCEPT !.rank = rank]
                 [] scan[g].step = "joins" -> [guild |-> g, rank |-> rank]
                 [] OTHER -> IF row.guild = g THEN [guild |-> NoGuild, rank |-> Absent] ELSE row]
  /\ Done(g, <<"character", c>>, {})
  /\ UNCHANGED <<guilds, members, history, faults>>

-----------------------------------------------------------------------------
(* detectAndLogChanges, beside detectAndLogGuildMasterChange               *)

\* findById: the guild that has the id; without an id, any guild of the realm
FoundById(id) ==
  {h \in Guild : guilds[h] # NoRow /\ (id = NoId \/ guilds[h].id = id)}

\* updateGuildGuidForAllLogs: a new guild takes over the entries of the one found
DetectChanges(g) ==
  /\ Awaits(g, "changes", <<"logs", NoRow>>)
  /\ LET found == IF scan[g].isNew THEN FoundById(scan[g].id) ELSE {}
     IN IF found = {} THEN UNCHANGED history
        ELSE \E h \in found :
               history' = [history EXCEPT ![h] = [c \in Char |-> <<>>],
                                          ![g] = [c \in Char |-> history[h][c] \o history[g][c]]]
  /\ Done(g, <<"logs", NoRow>>, {})
  /\ UNCHANGED <<guilds, members, characters, faults>>

\* the master in the table (any, were there two) is no longer the roster's
FindMaster(g) ==
  /\ Awaits(g, "changes", <<"master", NoRow>>)
  /\ LET masters == {c \in Char : MemberRank(g, c) = OSINT_GM_RANK}
     IN IF masters = {} \/ scan[g].roster = Nobody
          THEN Done(g, <<"master", NoRow>>, {})
          ELSE \E c \in masters :
                 Done(g, <<"master", NoRow>>,
                      IF \E d \in Char \ {c} : scan[g].roster[d] = OSINT_GM_RANK
                        THEN {<<"transition", c>>} ELSE {})
  /\ UNCHANGED <<tables, faults>>

\* mutant: the transition's entries are not inserted
ApplyUnloggedTransition(g, old) ==
  /\ Awaits(g, "changes", <<"transition", old>>)
  /\ \E new \in Char :
       LET roster == scan[g].roster
           ranked == {new} \cup ({old} \cap Present(roster))
       IN /\ roster[new] = OSINT_GM_RANK
          /\ members' = [members EXCEPT ![IdOf[g]] =
               [c \in Char |-> IF c \in ranked /\ MemberRank(g, c) # Absent
                                 THEN [@[c] EXCEPT !.rank = roster[c]] ELSE @[c]]]
          /\ characters' = [c \in Char |->
               IF c \in ranked /\ characters[c] # NoRow
                 THEN [characters[c] EXCEPT !.rank = roster[c]] ELSE characters[c]]
  /\ Done(g, <<"transition", old>>, {})
  /\ UNCHANGED <<guilds, history, faults>>

\* applyGuildMasterTransition, one transaction: old keeps its row if it left
ApplyTransition(g, old) ==
  /\ Awaits(g, "changes", <<"transition", old>>)
  /\ \E new \in Char :
       LET roster == scan[g].roster
           ranked == {new} \cup ({old} \cap Present(roster))
           entry == [action |-> "MASTER", rank |-> Absent]
       IN /\ roster[new] = OSINT_GM_RANK
          /\ members' = [members EXCEPT ![IdOf[g]] =
               [c \in Char |-> IF c \in ranked /\ MemberRank(g, c) # Absent
                                 THEN [@[c] EXCEPT !.rank = roster[c]] ELSE @[c]]]
          /\ characters' = [c \in Char |->
               IF c \in ranked /\ characters[c] # NoRow
                 THEN [characters[c] EXCEPT !.rank = roster[c]] ELSE characters[c]]
          /\ history' = [history EXCEPT ![g] =
               [c \in Char |-> IF c \in {old, new} THEN Append(@[c], entry) ELSE @[c]]]
  /\ Done(g, <<"transition", old>>, {})
  /\ UNCHANGED <<guilds, faults>>

\* the job's last step: the guild's row, with the id if the summary came
SaveGuild(g) ==
  /\ scan[g].step = "changes" /\ scan[g].todo = {}
  /\ guilds' = [guilds EXCEPT ![g] = [id |-> IF scan[g].summary THEN IdOf[g] ELSE scan[g].id]]
  /\ Scans(g, NoScan)
  /\ UNCHANGED <<members, characters, history, faults>>

-----------------------------------------------------------------------------
(* Failures                                                                *)

\* a statement or request fails: the error is logged, what would have followed
\* it is left out, and the scan goes on
OperationFails(g, op) ==
  /\ op \in scan[g].todo
  /\ Fault
  /\ Scans(g, [scan[g] EXCEPT !.todo = @ \ {op}, !.clean = FALSE])
  /\ UNCHANGED tables

\* so does compareRosters: updateRoster ends
CompareFails(g) ==
  /\ scan[g].step = "roster" /\ scan[g].todo = {}
  /\ Fault
  /\ Scans(g, [scan[g] EXCEPT !.step = "changes", !.clean = FALSE,
                              !.todo = {<<"logs", NoRow>>, <<"master", NoRow>>}])
  /\ UNCHANGED tables

\* findOrCreate or the last save throws, or the process dies: the job is retried
JobFails(g) ==
  /\ scan[g].step # "idle"
  /\ Fault
  /\ Scans(g, NoScan)
  /\ UNCHANGED tables

-----------------------------------------------------------------------------
MemberStep(g, c) ==
  \/ \E isUpdateByGuild \in BOOLEAN : FindCharacter(g, c, isUpdateByGuild)
  \/ SaveCharacter(g, c)
  \/ SaveLog(g, c) \/ UpdateCharacter(g, c)
  \/ UpdateRank(g, c) \/ SaveMember(g, c) \/ SaveMemberWithoutId(g, c) \/ DeleteMember(g, c)
  \/ ApplyTransition(g, c)

ScanStep(g) ==
  \/ \E isSummary, isRoster \in BOOLEAN : FetchGuildData(g, isSummary, isRoster)
  \/ \E c \in Char : MemberStep(g, c)
  \/ CompareRosters(g) \/ NextChanges(g)
  \/ DetectChanges(g) \/ FindMaster(g) \/ SaveGuild(g)

Failure(g) == (\E op \in scan[g].todo : OperationFails(g, op)) \/ CompareFails(g) \/ JobFails(g)

Next ==
  \/ \E s \in Sites : Change(s)
  \/ \E g \in Guild : \E id \in {IdOf[g], NoId} : Start(g, id)
  \/ \E g \in Guild : ScanStep(g) \/ Failure(g)

Spec == Init /\ [][Next]_vars

\* the schedulers queue every guild again and again, and what a job awaits returns
Fairness ==
  \A g \in Guild : WF_vars(ScanStep(g)) /\ WF_vars(\E id \in {IdOf[g], NoId} : Start(g, id))

FairSpec == Spec /\ Fairness

-----------------------------------------------------------------------------
(* Properties                                                              *)

\* the table's rank follows the roster's: it may not where one is a master's,
\* because a successor of a master that left keeps the rank it had
Follows(rank, listed) == \/ rank = listed
                         \/ Absent \notin {rank, listed} /\ OSINT_GM_RANK \in {rank, listed}

\* the scan is about to save its guild
Ends(g) == scan[g].step = "changes" /\ scan[g].todo = {}

\* A scan nothing failed in leaves the table as the roster it was sent, whatever
\* earlier scans that failed or died half-way have left there.
ScanRestoresMembers ==
  \A g \in Guild : Ends(g) /\ scan[g].clean =>
    \A c \in Char : Follows(MemberRank(g, c), scan[g].listed[c])

\* what a member's rank is by the history's last entry about it
Agrees(rank, entries) ==
  LET last == entries[Len(entries)]
  IN entries # <<>> => CASE last.action = "MASTER" -> TRUE
                         [] last.action = "LEAVE" -> rank \in {Absent, OSINT_GM_RANK}
                         [] OTHER -> rank = last.rank

\* Where nothing failed, the history tells a member's present rank: no change
\* of the table goes without its entry, and no entry without its change.
HistoryAgrees ==
  faults = 0 => \A g \in Guild, c \in Char :
    scan[g].step = "idle" => Agrees(MemberRank(g, c), history[g][c])

\* Where nothing failed, a scan leaves its members' characters in the guild
\* with their rank, unless one has neither a row nor a realm to make it of, and
\* takes out the members of the table that have left: so it is for one guild,
\* for a member that comes back to a guild which has not noticed that it was
\* away stays in the other one.
CharactersFollow ==
  faults = 0 => \A g \in Guild : Ends(g) /\ scan[g].clean => \A c \in Char :
    IF scan[g].listed[c] # Absent
    THEN \/ characters[c] = [guild |-> g, rank |-> scan[g].listed[c]]
         \/ characters[c] = NoRow /\ c \notin KnownRealm
    ELSE scan[g].original[c] = Absent \/ characters[c] = NoRow \/ characters[c].guild # g

\* When rosters have stopped changing and nothing fails any more, the table
\* comes to agree with them, whatever failures have left in it.
MembersConverge ==
  \A g \in Guild : <>[](site[g] # Nobody => \A c \in Char : Follows(MemberRank(g, c), site[g][c]))

\* "Guild Masters are excluded from JOIN logs as their membership is tracked
\* through guild ownership events instead" (guild-member.service.ts:244-245): a
\* master that came after the first scan has an entry.
MasterIsTracked ==
  faults = 0 => \A g \in Guild, c \in Char :
    Ends(g) /\ scan[g].clean /\ scan[g].original # Nobody
      /\ scan[g].listed[c] = OSINT_GM_RANK /\ scan[g].original[c] = Absent
    => history[g][c] # <<>>

\* A guild's logs are that guild's (apps/api/src/osint/osint.controller.ts:209,
\* "Returns requested guild logs"): when its entries go, it is to the guild that
\* has its numeric id under a new name.
LogsStay ==
  [][\A g \in Guild, c \in Char : history[g][c] # <<>> /\ history'[g][c] = <<>> =>
       \E h \in Guild \ {g} : IdOf[h] = IdOf[g] /\ history'[h][c] # history[h][c]]_vars
=============================================================================
