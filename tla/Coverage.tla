------------------------------ MODULE Coverage ------------------------------
(***************************************************************************)
(* What a run of indexWarcraftLogs promises: to save all logs that were    *)
(* listed when it took its lock, although it leaves a realm when it has    *)
(* counted enough logs that it knows.                                      *)
(*                                                                         *)
(* Overlapping runs, failed requests, a burst of uploads and the gap that  *)
(* an earlier run left when it died can break the promise.  This module    *)
(* adds to RaidLogs the history that says of which run that is the case.   *)
(* Its variables are observed only: no action of RaidLogs looks at them.   *)
(***************************************************************************)
EXTENDS RaidLogs

VARIABLES
  promised,  \* of each run, the logs it promises to save
  sizes      \* of each run, how many logs each realm listed when it took its lock

history == <<promised, sizes>>

-----------------------------------------------------------------------------
\* The list ends where the known logs begin: an unknown log is not behind a known one.
HasNoGap(r) ==
  \A i, j \in DOMAIN site[r] : i < j /\ Known(site[r][i]) => Known(site[r][j])

IsListedOnce ==
  \A r, s \in Realm : \A i \in DOMAIN site[r], j \in DOMAIN site[s] :
    site[r][i] = site[s][j] => r = s /\ i = j

\* A run does not read the page ToPage.
IsWithinPages(r) == Len(site[r]) <= (ToPage - 1) * PageSize

\* What a run promises that takes its lock now.
Promise ==
  IF FromPage = 1 /\ IsListedOnce /\ \A r \in Realm : HasNoGap(r) /\ IsWithinPages(r)
    THEN Listed ELSE {}

\* More has been published since than a run tolerates, or than its pages hold.
IsOutgrown(x) ==
  \E r \in Realm : Len(site[r]) > sizes[x][r] + Tolerance \/ ~IsWithinPages(r)

\* The runs `begun`, `saved` and `failed` take their lock, save a log and meet a failure.
Observe(begun, saved, failed) ==
  /\ sizes' = [x \in Lister |-> IF x \in begun THEN [r \in Realm |-> Len(site[r])] ELSE sizes[x]]
  /\ promised' = [x \in Lister |->
       IF x \in begun THEN Promise
       ELSE IF lister'[x].step = "idle" \/ x \in failed \/ saved \ {x} # {} \/ IsOutgrown(x)' THEN {}
       ELSE promised[x]]

ObservedInit ==
  /\ Init
  /\ promised = [x \in Lister |-> {}]
  /\ sizes = [x \in Lister |-> [r \in Realm |-> 0]]

ObservedNext ==
  Next /\ Observe({x \in Lister : LockListing(x)}, {x \in Lister : SaveLog(x)}, {x \in Lister : ListingFails(x)})

ObservedSpec == ObservedInit /\ [][ObservedNext]_<<vars, history>>

-----------------------------------------------------------------------------
(* Properties                                                              *)

\* A run of indexWarcraftLogs ends with every log saved that was listed when it
\* took its lock, although it leaves a realm early at logs it knows and pages
\* shift under it: unless one of its own requests or queries failed, another run
\* saved a log meanwhile, a realm's list grew by more than Tolerance logs or over
\* its last page, or it began with unknown logs behind known ones.
ListingComplete ==
  \A x \in Lister : lister[x].step = "release" => \A g \in promised[x] : Known(g)
=============================================================================
