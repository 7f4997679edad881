-------------------------- MODULE LookingForGuild --------------------------
(***************************************************************************)
(* apps/wow-progress' WowProgressLfgService and apps/osint's ProfileWorker *)
(* on the column lfg_status of the characters' profiles.                   *)
(*                                                                         *)
(* Every five minutes the service forgets who is OLD, makes who is NOW or  *)
(* NEW old, reads the two pages of the site, makes NOW again who is on     *)
(* them and OLD, and has the worker make the others on them NEW or NOW.  A *)
(* page that cannot be read counts as empty and ends the run; runs may     *)
(* overlap.                                                                *)
(***************************************************************************)
EXTENDS Naturals, FiniteSets

CONSTANTS Seekers, LfgRuns,
          LfgWorlds   \* the instances to check: see LfgAssumption

(* An instance: the characters and the runs at once there are, and how     *)
(* often a statement or a job fails.                                       *)
ASSUME LfgAssumption ==
  \A w \in LfgWorlds : w.seekers \subseteq Seekers /\ w.runs \subseteq LfgRuns /\ w.failures \in Nat

NULL == "null"
NoProfile == "no profile"

VARIABLES lfg,       \* the instance, with what is left of its failures
          status,    \* status[c]: lfg_status, or NoProfile
          listed,    \* the characters that are on the site's pages
          lfgRun,    \* lfgRun[x]: a run of the cron
          profileJob \* profileJob[c]: the job of queue osint.profiles with id c

lfgVars == <<lfg, status, listed, lfgRun, profileJob>>

NoLfgRun == [step |-> "idle"]
NoProfileJob == [step |-> "none"]

LfgInit ==
  /\ lfg \in LfgWorlds
  /\ listed \in SUBSET lfg.seekers
  /\ status = [c \in Seekers |-> NoProfile]
  /\ lfgRun = [x \in LfgRuns |-> NoLfgRun]
  /\ profileJob = [c \in Seekers |-> NoProfileJob]

-----------------------------------------------------------------------------
(* One UPDATE: who has one status gets another. *)
Update(from, to) == status' = [c \in Seekers |-> IF status[c] = from THEN to ELSE status[c]]

RunIs(x, step) == lfgRun[x].step = step
RunGoes(x, run) == lfgRun' = [lfgRun EXCEPT ![x] = run]

RemoveOld(x) ==
  /\ RunIs(x, "idle") /\ x \in lfg.runs
  /\ Update("OLD", NULL)
  /\ RunGoes(x, [step |-> "demote", todo |-> {"NOW", "NEW"}])
  /\ UNCHANGED <<lfg, listed, profileJob>>

\* mutant: only who is NOW becomes old
DemotedByMistake == {"NOW"}

Demoted == {"NOW", "NEW"}

(* Promise.all: the two updates, in either order. *)
Demote(x) ==
  /\ RunIs(x, "demote")
  /\ \E s \in lfgRun[x].todo :
       /\ IF s \in Demoted THEN Update(s, "OLD") ELSE UNCHANGED status
       /\ RunGoes(x, IF lfgRun[x].todo = {s} THEN [step |-> "pages"] ELSE [lfgRun[x] EXCEPT !.todo = @ \ {s}])
  /\ UNCHANGED <<lfg, listed, profileJob>>

ReadPages(x) ==
  /\ RunIs(x, "pages") /\ listed # {}
  /\ RunGoes(x, [step |-> "old", found |-> listed])
  /\ UNCHANGED <<lfg, status, listed, profileJob>>

(* A page is empty or cannot be read. *)
PageIsEmpty(x) ==
  /\ RunIs(x, "pages")
  /\ RunGoes(x, NoLfgRun)
  /\ UNCHANGED <<lfg, status, listed, profileJob>>

(* diffNow: who is found and OLD; diffNew: the others that are found, and  *)
(* whose status is to be NEW if anybody was OLD.                           *)
ReadOld(x) ==
  /\ RunIs(x, "old")
  /\ LET old == {c \in Seekers : status[c] = "OLD"}
         found == lfgRun[x].found IN
     RunGoes(x, [step |-> "now", diffNow |-> found \cap old, diffNew |-> found \ old,
                 as |-> IF old # {} THEN "NEW" ELSE "NOW"])
  /\ UNCHANGED <<lfg, status, listed, profileJob>>

(* Who was OLD when the run looked is NOW again. *)
MakeNow(x) ==
  /\ RunIs(x, "now")
  /\ LET r == lfgRun[x] IN
     /\ status' = [c \in Seekers |-> IF c \in r.diffNow THEN "NOW" ELSE status[c]]
     /\ RunGoes(x, IF r.diffNew = {} THEN NoLfgRun ELSE [step |-> "push", diffNew |-> r.diffNew, as |-> r.as])
  /\ UNCHANGED <<lfg, listed, profileJob>>

(* pushCharacterAndProfileToQueue: an id that the queue knows is ignored;  *)
(* a realm that nobody knows, or an error, leaves the character out.       *)
Push(x) ==
  /\ RunIs(x, "push")
  /\ \E c \in lfgRun[x].diffNew :
       /\ \/ profileJob' = [profileJob EXCEPT ![c] = IF @ = NoProfileJob
                              THEN [step |-> "waiting", as |-> lfgRun[x].as, tries |-> 0] ELSE @]
          \/ UNCHANGED profileJob
       /\ RunGoes(x, IF lfgRun[x].diffNew = {c} THEN NoLfgRun ELSE [lfgRun[x] EXCEPT !.diffNew = @ \ {c}])
  /\ UNCHANGED <<lfg, status, listed>>

LfgRunFails(x) ==
  /\ lfg.failures > 0 /\ ~RunIs(x, "idle")
  /\ lfg' = [lfg EXCEPT !.failures = @ - 1]
  /\ RunGoes(x, NoLfgRun)
  /\ UNCHANGED <<status, listed, profileJob>>

-----------------------------------------------------------------------------
(* ProfileWorker.process: the profile is found or created, three sites are *)
(* asked, whose errors are swallowed, and the profile is saved.            *)

FindProfile(c) ==
  /\ profileJob[c].step = "waiting"
  /\ profileJob' = [profileJob EXCEPT ![c].step = "sites"]
  /\ UNCHANGED <<lfg, status, listed, lfgRun>>

SaveProfile(c) ==
  /\ profileJob[c].step = "sites"
  /\ status' = [status EXCEPT ![c] = profileJob[c].as]
  /\ profileJob' = [profileJob EXCEPT ![c] = [step |-> "kept"]]
  /\ UNCHANGED <<lfg, listed, lfgRun>>

(* Three attempts. *)
ProfileFails(c) ==
  /\ lfg.failures > 0 /\ profileJob[c].step \in {"waiting", "sites"}
  /\ lfg' = [lfg EXCEPT !.failures = @ - 1]
  /\ profileJob' = [profileJob EXCEPT ![c] =
       IF @.tries < 2 THEN [step |-> "waiting", as |-> @.as, tries |-> @.tries + 1] ELSE [step |-> "kept"]]
  /\ UNCHANGED <<status, listed, lfgRun>>

(* Kept until 1000 others completed, 500 failed. *)
EvictProfile(c) ==
  /\ profileJob[c].step = "kept"
  /\ profileJob' = [profileJob EXCEPT ![c] = NoProfileJob]
  /\ UNCHANGED <<lfg, status, listed, lfgRun>>

(* Someone puts a character on the site or takes it away. *)
SiteChanges ==
  /\ \E c \in lfg.seekers : listed' = IF c \in listed THEN listed \ {c} ELSE listed \cup {c}
  /\ UNCHANGED <<lfg, status, lfgRun, profileJob>>

IndexWowProgressLfg(x) ==
  \/ RemoveOld(x) \/ Demote(x) \/ ReadPages(x) \/ PageIsEmpty(x)
  \/ ReadOld(x) \/ MakeNow(x) \/ Push(x) \/ LfgRunFails(x)
ProcessProfile(c) == FindProfile(c) \/ SaveProfile(c) \/ ProfileFails(c)

LfgNext ==
  \/ \E x \in lfg.runs : IndexWowProgressLfg(x)
  \/ \E c \in lfg.seekers : ProcessProfile(c) \/ EvictProfile(c)
  \/ SiteChanges

(* The cron fires for ever, its runs end and the queue's jobs are run. *)
LfgFairness ==
  /\ \A x \in LfgRuns : WF_lfgVars(IndexWowProgressLfg(x))
  /\ \A c \in Seekers : WF_lfgVars(ProcessProfile(c))

LfgSpec == LfgInit /\ [][LfgNext]_lfgVars /\ LfgFairness

-----------------------------------------------------------------------------
(* A character that stays away from the site ends without a status, so     *)
(* that it is not shown as looking for a guild any more: no overlapping    *)
(* run, empty page, failed statement or late profile job brings it back    *)
(* for good (wow-progress.lfg.service.ts:62-142, profile.worker.ts:92).    *)
LeaversAreForgotten ==
  \A c \in Seekers : <>[](c \notin listed) => <>[](status[c] \in {NULL, NoProfile})
=============================================================================
