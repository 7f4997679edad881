------------------------------- MODULE MCCrons -------------------------------
(***************************************************************************)
(* What has to get through for ever: the sweeps of the tables, the queries *)
(* of Battle.net and the profiles.  They share no state: a behaviour is of *)
(* one of them, and the others are in an instance without anything to do.  *)
(***************************************************************************)
EXTENDS Sweeps, Keys, LookingForGuild

(* Three characters of which the file names two, and as many jobs kept as  *)
(* leave one to run; four guilds, of which one is never saved.             *)
MCSweeping ==
  {[kind |-> "characters", rows |-> <<"c1", "c2", "c3">>, file |-> <<"c1", "c3">>, still |-> {}, moves |-> 1, faults |-> 1, restarts |-> 1],
   [kind |-> "guilds", rows |-> <<"g1", "g2", "g3", "g4">>, file |-> <<>>, still |-> {"g1"}, moves |-> 0, faults |-> 1, restarts |-> 1],
   [kind |-> "none", rows |-> <<>>, file |-> <<>>, still |-> {}, moves |-> 0, faults |-> 0, restarts |-> 0]}

(* Two queries share two keys; one key is refreshed while it is used. *)
MCKeyWorlds ==
  {[uuids |-> {"k1", "k2"}, refreshes |-> 0, faults |-> 0],
   [uuids |-> {"k1"}, refreshes |-> 1, faults |-> 1],
   [uuids |-> {}, refreshes |-> 0, faults |-> 0]}

(* One run at a time, and two that overlap. *)
MCLfgWorlds ==
  {[seekers |-> {"c1", "c2"}, runs |-> {"x1"}, failures |-> 0],
   [seekers |-> {"c1"}, runs |-> {"x1", "x2"}, failures |-> 1],
   [seekers |-> {}, runs |-> {}, failures |-> 0]}

-----------------------------------------------------------------------------
Busy == [sweeps |-> sweep.rows # <<>>, keys |-> world.uuids # {}, lfg |-> lfg.seekers # {}]

CronsInit ==
  /\ SweepsInit /\ KeysInit /\ LfgInit
  /\ Cardinality({p \in DOMAIN Busy : Busy[p]}) = 1

(* Where no key exists, the queries find that out before the part begins. *)
QueriesAreOver == \A q \in Queries : QueryIs(q, "failed")

CronsNext ==
  \/ (Busy.keys \/ ~QueriesAreOver) /\ KeysNext /\ UNCHANGED <<sweepVars, lfgVars>>
  \/ ~Busy.keys /\ QueriesAreOver /\ Busy.sweeps /\ SweepsNext /\ UNCHANGED <<keyVars, lfgVars>>
  \/ ~Busy.keys /\ QueriesAreOver /\ Busy.lfg /\ LfgNext /\ UNCHANGED <<keyVars, sweepVars>>

cronVars == <<sweepVars, keyVars, lfgVars>>

(* The fairness of each part: an instance without anything to do has no    *)
(* fair action that is enabled.                                            *)
CronsSpec == CronsInit /\ [][CronsNext]_cronVars /\ SweepsFairness /\ KeysFairness /\ LfgFairness
=============================================================================
