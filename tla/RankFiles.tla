----------------------------- MODULE RankFiles -----------------------------
(***************************************************************************)
(* apps/wow-progress' WowProgressRanksService at boot: the site's rank     *)
(* files that the bucket of libs/s3 does not hold are downloaded into it,  *)
(* and the guilds of all files in the bucket are given to osint.guilds,    *)
(* unless a marker in Redis says that the file's content was.              *)
(***************************************************************************)
EXTENDS Naturals

CONSTANTS Shelves,      \* the instances to check: see ShelvesAssumption
          MaxDownloads  \* maxRetries: attempts to download a file

(* An instance: the site's files by name; of each whether its realm is     *)
(* known, what it is ("ranks", "invalid" JSON, "corrupt") and its content; *)
(* those in the bucket at first, and how often a call fails and the        *)
(* process restarts.                                                       *)
ASSUME ShelvesAssumption ==
  /\ MaxDownloads \in Nat \ {0}
  /\ \A w \in Shelves :
       /\ DOMAIN w = {"files", "bucket", "failures", "restarts"}
       /\ DOMAIN w.files \subseteq Nat
       /\ \A i \in DOMAIN w.files : DOMAIN w.files[i] = {"realm", "is", "content"}
       /\ w.bucket \subseteq DOMAIN w.files /\ {w.failures, w.restarts} \subseteq Nat

VARIABLES shelf,    \* the instance, with what is left of its counters
          bucket,   \* the files in the bucket
          step,     \* where onApplicationBootstrap is
          files,    \* the files it still has to deal with
          imported, \* the contents with a marker WP_RANKS_FILE_IMPORTED
          ranked    \* the contents whose guilds were given to the queue

shelfVars == <<shelf, bucket, step, files, imported, ranked>>

ShelvesInit ==
  /\ shelf \in Shelves
  /\ bucket = shelf.bucket
  /\ step = "bucket" /\ files = {}
  /\ imported = {} /\ ranked = {}

Content(i) == shelf.files[i].content
InBucket(i) == i \in bucket
PutObject(i) == bucket' = bucket \cup {i}
GzFiles == {i \in DOMAIN shelf.files : InBucket(i)}

(* They are dealt with one after the other, in the order of their names.   *)
IsNext(i) == i \in files /\ \A j \in files : i =< j
Leaves(i) == files' = files \ {i}

IsRanks(i) == shelf.files[i].is = "ranks" /\ shelf.files[i].realm

-----------------------------------------------------------------------------
(* downloadAllRanks.                                                       *)

(* A bucket that is not there is created; without one nothing is loaded.   *)
EnsureBucketExists ==
  /\ step = "bucket"
  /\ step' \in {"parse", "list"}
  /\ UNCHANGED <<shelf, bucket, files, imported, ranked>>

ParseAvailableFiles ==
  /\ step = "parse"
  /\ step' = "download"
  /\ files' = DOMAIN shelf.files
  /\ UNCHANGED <<shelf, bucket, imported, ranked>>

FileExists(i) ==
  /\ step = "download" /\ IsNext(i) /\ InBucket(i)
  /\ Leaves(i)
  /\ UNCHANGED <<shelf, bucket, step, imported, ranked>>

(* writeFile puts the object at once.  Up to MaxDownloads - 1 attempts     *)
(* failed before; as many as there are, and the file is left out.          *)
DownloadFile(i) ==
  /\ step = "download" /\ IsNext(i) /\ ~InBucket(i)
  /\ \E failed \in 0 .. MaxDownloads :
       /\ failed =< shelf.failures
       /\ shelf' = [shelf EXCEPT !.failures = @ - failed]
       /\ IF failed < MaxDownloads THEN PutObject(i) ELSE UNCHANGED bucket
  /\ Leaves(i)
  /\ UNCHANGED <<step, imported, ranked>>

DownloadEnds ==
  /\ step = "download" /\ files = {}
  /\ step' = "list"
  /\ UNCHANGED <<shelf, bucket, files, imported, ranked>>

-----------------------------------------------------------------------------
(* extractAllGuildRanks.                                                   *)

(* findGzFiles: the names in order. *)
FindFiles ==
  /\ step = "list"
  /\ step' = "extract"
  /\ files' = GzFiles
  /\ UNCHANGED <<shelf, bucket, imported, ranked>>

Extracts(i) == step = "extract" /\ IsNext(i)

(* No realm, no list of guilds, or imported before. *)
SkipFile(i) ==
  /\ Extracts(i)
  /\ \/ ~shelf.files[i].realm
     \/ shelf.files[i].is = "invalid"
     \/ IsRanks(i) /\ Content(i) \in imported
  /\ Leaves(i)
  /\ UNCHANGED <<shelf, bucket, step, imported, ranked>>

(* A file that cannot be read ends the extraction: those behind it wait    *)
(* for ever, since a file in the bucket is never downloaded again.         *)
ReadFails(i) ==
  /\ Extracts(i) /\ shelf.files[i].realm /\ shelf.files[i].is = "corrupt"
  /\ step' = "failed" /\ files' = {}
  /\ UNCHANGED <<shelf, bucket, imported, ranked>>

\* mutant: an error of addBulk is passed over
AddGuildsOrNot(i) ==
  /\ Extracts(i) /\ IsRanks(i) /\ Content(i) \notin imported
  /\ ranked' \in {ranked, ranked \cup {Content(i)}}
  /\ step' = "mark"
  /\ UNCHANGED <<shelf, bucket, files, imported>>

(* addBulk is one transaction. *)
AddGuilds(i) ==
  /\ Extracts(i) /\ IsRanks(i) /\ Content(i) \notin imported
  /\ ranked' = ranked \cup {Content(i)}
  /\ step' = "mark"
  /\ UNCHANGED <<shelf, bucket, files, imported>>

MarkImported(i) ==
  /\ step = "mark" /\ IsNext(i)
  /\ imported' = imported \cup {Content(i)}
  /\ step' = "extract"
  /\ Leaves(i)
  /\ UNCHANGED <<shelf, bucket, ranked>>

ExtractionEnds ==
  /\ step = "extract" /\ files = {}
  /\ step' = "extracted"
  /\ UNCHANGED <<shelf, bucket, files, imported, ranked>>

(* Any other call throws: the boot is over. *)
BootstrapFails ==
  /\ step \notin {"failed", "extracted"} /\ shelf.failures > 0
  /\ shelf' = [shelf EXCEPT !.failures = @ - 1]
  /\ step' = "failed" /\ files' = {}
  /\ UNCHANGED <<bucket, imported, ranked>>

(* Thirty days. *)
ExpireImported ==
  /\ \E c \in imported : imported' = imported \ {c}
  /\ UNCHANGED <<shelf, bucket, step, files, ranked>>

RestartRanks ==
  /\ shelf.restarts > 0
  /\ shelf' = [shelf EXCEPT !.restarts = @ - 1]
  /\ step' = "bucket" /\ files' = {}
  /\ UNCHANGED <<bucket, imported, ranked>>

ShelvesNext ==
  \/ EnsureBucketExists \/ ParseAvailableFiles \/ DownloadEnds \/ FindFiles \/ ExtractionEnds
  \/ \E i \in DOMAIN shelf.files : \/ FileExists(i) \/ DownloadFile(i)
                                    \/ SkipFile(i) \/ ReadFails(i) \/ AddGuilds(i) \/ MarkImported(i)
  \/ BootstrapFails \/ ExpireImported \/ RestartRanks

ShelvesSpec == ShelvesInit /\ [][ShelvesNext]_shelfVars

-----------------------------------------------------------------------------
(* A boot that got through has every list of guilds of a known realm in    *)
(* the bucket in the queue, by itself or by a boot before it that a crash, *)
(* a failed call or a corrupt file ended somewhere, whatever it skipped    *)
(* for a marker (wow-progress.ranks.service.ts:396-449).                   *)
ExtractedRanksAreQueued ==
  step = "extracted" => \A i \in bucket : IsRanks(i) => Content(i) \in ranked
=============================================================================
