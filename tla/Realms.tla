------------------------------- MODULE Realms -------------------------------
(***************************************************************************)
(* apps/core's RealmsService and RealmsWorker beside the auctions: once a  *)
(* week and at boot every realm is put on queue core.realms, whose workers *)
(* read the realm's row, ask Battle.net three times and save the row as    *)
(* they read it, with the timestamps that it had then.                     *)
(***************************************************************************)
EXTENDS Auctions

CONSTANT Reindexes  \* Reindexes[e]: how often deployment e indexes its realms

VARIABLES reindexed,   \* how often it did
          realmQueue,  \* the jobs that wait: [realm, nr]
          realmCopies  \* the jobs that run: [realm, nr, stamp], as read

realmVars == <<reindexed, realmQueue, realmCopies>>

RealmMessage(r, nr) == [realm |-> r, nr |-> nr]
RowAsRead(j) == [realm |-> j.realm, nr |-> j.nr, stamp |-> stamp[j.realm]]

RealmsInit ==
  /\ AuctionsInit
  /\ reindexed = 0 /\ realmQueue = {} /\ realmCopies = {}

(* The queue is drained; then the index does not come, or the realms are   *)
(* added one by one, as far as it goes.                                    *)
IndexRealms ==
  /\ reindexed < Reindexes[enabled]
  /\ reindexed' = reindexed + 1
  /\ \E added \in SUBSET Realms : realmQueue' = {RealmMessage(r, reindexed') : r \in added}
  /\ UNCHANGED <<auctionVars, realmCopies>>

TakeRealm(j) ==
  /\ j \in realmQueue
  /\ realmQueue' = realmQueue \ {j}
  /\ realmCopies' = realmCopies \cup {RowAsRead(j)}
  /\ UNCHANGED <<auctionVars, reindexed>>

(* Repository.save writes what differs from the row by now: the timestamp  *)
(* of a snapshot that came meanwhile is set back.                          *)
SaveRealm(j) ==
  /\ j \in realmCopies
  /\ stamp' = [stamp EXCEPT ![j.realm] = j.stamp]
  /\ realmCopies' = realmCopies \ {j}
  /\ UNCHANGED <<enabled, now, published, waiting, job, rows, hashes, series, drained, faults, reindexed, realmQueue>>

(* Battle.net or a statement fails: three attempts, each from the start.   *)
RealmJobFails(j) ==
  /\ j \in realmCopies
  /\ realmCopies' = realmCopies \ {j}
  /\ realmQueue' \in {realmQueue, realmQueue \cup {RealmMessage(j.realm, j.nr)}}
  /\ UNCHANGED <<auctionVars, reindexed>>

RealmsNext ==
  \/ IndexRealms
  \/ \E j \in realmQueue : TakeRealm(j)
  \/ \E j \in realmCopies : SaveRealm(j) \/ RealmJobFails(j)
  \/ AuctionsNext /\ UNCHANGED realmVars
=============================================================================
