----------------------------- MODULE MCPlatform -----------------------------
(***************************************************************************)
(* The characters' worker, the ladders, the rank files and the metrics of  *)
(* the day.  They share no state but the queue that the characters' worker *)
(* serves, and its messages come from anyone: a behaviour is of one of     *)
(* them, and the others are in an instance without anything to do.         *)
(***************************************************************************)
EXTENDS MCCharacters, Ladders, RankFiles, Snapshots

MCAllPlans == MCPlans \cup {MCPlan({}, {}, {}, {}, {}, 0, 0, 0, 0, 0, 0, FALSE)}

MCRequest(ladder_, marker, season, known, groups) ==
  [ladder |-> ladder_, marker |-> marker, season |-> season, known |-> known, groups |-> groups]

(* Two weeks of a dungeon, which share a marker, and a bracket; boards     *)
(* that are unknown or empty.                                              *)
MCLadderWorlds ==
  {[requests |-> {MCRequest("mplus", "d1", "s1", TRUE, {"a", "b"}), MCRequest("mplus", "d1", "s2", TRUE, {"c"}),
                  MCRequest("pvp", "2v2", "s1", TRUE, {"e"})},
    runs |-> {"boot", "cron"}, failures |-> 1, restarts |-> 0],
   [requests |-> {MCRequest("mplus", "d1", "s1", FALSE, {}), MCRequest("pvp", "2v2", "s1", TRUE, {}),
                  MCRequest("pvp", "3v3", "s1", FALSE, {})},
    runs |-> {"boot"}, failures |-> 1, restarts |-> 1],
   [requests |-> {}, runs |-> {}, failures |-> 0, restarts |-> 0]}

MCFile(realm, is, content) == [realm |-> realm, is |-> is, content |-> content]
MCShelves ==
  {[files |-> <<MCFile(TRUE, "ranks", "a"), MCFile(FALSE, "ranks", "b"), MCFile(TRUE, "ranks", "a"),
                MCFile(TRUE, "ranks", "c"), MCFile(TRUE, "corrupt", "d")>>,
    bucket |-> {1}, failures |-> 3, restarts |-> 2],
   [files |-> <<MCFile(TRUE, "invalid", "a"), MCFile(TRUE, "ranks", "b"), MCFile(TRUE, "ranks", "c")>>,
    bucket |-> {}, failures |-> 3, restarts |-> 2],
   [files |-> <<>>, bucket |-> {}, failures |-> 0, restarts |-> 0]}

MCFacts(realms, traded, volatile, n) ==
  [realms |-> realms, traded |-> traded, volatile |-> volatile, hall |-> ("r1" :> n)]
MCBoard(hosts, runs, days, facts, old, failures, restarts) ==
  [hosts |-> hosts, runs |-> runs, days |-> days, facts |-> facts, legacy |-> old,
   failures |-> failures, restarts |-> restarts]
MCValue(form, fields) == [form |-> form, fields |-> fields]

(* Three days of the cron; a day of one process whose boot and cron        *)
(* overlap; a day of two processes that boot; and two that migrate the     *)
(* values of older releases side by side.                                  *)
MCBoardWorlds ==
  {MCBoard({"analytics"}, {<<"analytics", "cron">>}, 3,
           <<MCFacts({}, {}, FALSE, 0), MCFacts({"r1"}, {"r1"}, TRUE, 1)>>, <<>>, 1, 0),
   MCBoard({"analytics"}, {"analytics"} \X {"boot", "cron"}, 1, <<MCFacts({"r1"}, {}, FALSE, 1)>>, <<>>, 1, 0),
   MCBoard({"analytics", "api"}, {"analytics", "api"} \X {"boot"}, 1, <<MCFacts({"r1"}, {}, FALSE, 1)>>, <<>>, 0, 1),
   MCBoard({"analytics", "api"}, {}, 1,
           <<MCFacts({}, {}, FALSE, 0)>>, <<MCValue("bare", "sum"), MCValue("keyed", "sum")>>, 1, 1),
   MCBoard({}, {}, 1, <<MCFacts({}, {}, FALSE, 0)>>, <<>>, 0, 0)}

-----------------------------------------------------------------------------
Busy ==
  [characters |-> plan.guids # {}, ladders |-> ladder.requests # {}, shelves |-> shelf.files # <<>>,
   boards |-> board.hosts # {}]

PlatformInit ==
  /\ Init /\ LaddersInit /\ ShelvesInit /\ BoardsInit
  /\ Cardinality({p \in DOMAIN Busy : Busy[p]}) = 1

PlatformNext ==
  \/ Busy.characters /\ Next /\ UNCHANGED <<ladderVars, shelfVars, boardVars>>
  \/ Busy.ladders /\ LaddersNext /\ UNCHANGED <<vars, shelfVars, boardVars>>
  \/ Busy.shelves /\ ShelvesNext /\ UNCHANGED <<vars, ladderVars, boardVars>>
  \/ Busy.boards /\ BoardsNext /\ UNCHANGED <<vars, ladderVars, shelfVars>>

platformVars == <<vars, ladderVars, shelfVars, boardVars>>

(* Only of the characters something is said that must happen. *)
PlatformSpec == PlatformInit /\ [][PlatformNext]_platformVars /\ Fairness
=============================================================================
