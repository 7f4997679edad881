------------------------------ MODULE Pricing -------------------------------
(***************************************************************************)
(* The pricing phase of apps/market's XvaService: at every boot it indexes *)
(* the recipes of the professions, replaces the laboratory's methods       *)
(* (prospecting, milling, disenchanting) and imports three CSV files; the  *)
(* cron of weekdays indexes the recipes again, beside the boot if they     *)
(* meet.  The process may die at any step and is started again.            *)
(*                                                                         *)
(* A recipe, a method and a row of a file are model values: the columns    *)
(* that are copied into a row are left out.  The pricing table has no      *)
(* unique index, the tables of the files have the row's ID for key.        *)
(***************************************************************************)
EXTENDS Naturals, Sequences, FiniteSets, SequencesExt

CONSTANTS Recipes,     \* recipes of the professions' skill tiers
          LabMethods,  \* LabMethods[l]: the methods of a laboratory's table
          EnabledLabs, \* those whose flag is set: without any, the phase returns at once
          CsvFiles,    \* the three files in their order
          CsvVersions, \* contents a file may have
          RowsIn,      \* RowsIn[v]: the IDs in content v
          Deployments, \* which services run, and which phases of the boot have their flag
          MaxUploads, MaxCrashes, MaxFailures \* bounds

(* The laboratories in their order, and their tables: of a method that     *)
(* turns reagents into derivatives only its identity is kept here.         *)
Labs == <<"prospecting", "milling", "disenchanting">>
PROSPECTING == LabMethods["prospecting"]
MILLING == LabMethods["milling"]
DISENCHANTING == LabMethods["disenchanting"]
Methods == PROSPECTING \cup MILLING \cup DISENCHANTING

ASSUME LabsAssumption == /\ DOMAIN LabMethods = Range(Labs)
                         /\ EnabledLabs \subseteq Range(Labs) /\ EnabledLabs # {}
                         /\ \A l, k \in Range(Labs) : l # k => LabMethods[l] \cap LabMethods[k] = {}
ASSUME FilesAssumption == /\ CsvFiles \in Seq(STRING) /\ Len(CsvFiles) = 3
                          /\ DOMAIN RowsIn = CsvVersions

VARIABLES running,  \* what runs
          indexer,  \* indexer[p]: indexPricing of the boot or of the cron
          boot,     \* what the boot does
          recipes,  \* recipes[r]: rows of recipe r in the pricing table
          methods,  \* methods[m]: rows of method m, created by LAB
          touched,  \* the latest updatedAt of the recipes' and of the methods' rows
          written,  \* the clock of these: how often the pricing table was written
          saving,   \* methods whose save is under way
          labFailed,\* did its delete fail, or a save since the last one?
          bucket,   \* bucket[f]: the content of file f in S3
          imported, \* imported[f]: the IDs in file f's table
          filed,    \* the PRICING_CSV_PROCESSED keys: pairs of file and content
          uploads, crashes, failures

fileVars == <<bucket, imported, filed, uploads>>
labVars == <<methods, touched, written, saving, labFailed, failures>>
pricingVars == <<running, indexer, boot, recipes, labVars, fileVars, crashes>>

Threads == {"boot", "cron"}

NoIndexing == [step |-> "none", left |-> {}]

At(step) == boot.step = step

(* The phases in their order; "market" alone runs none of them. *)
Phases == <<"init", "lab", "build", "classes">>
FirstStep == [init |-> "index", lab |-> "clear", build |-> "csv", classes |-> "stage"]

PhaseAfter(n) ==
  LET later == {k \in n + 1 .. Len(Phases) : Phases[k] \in running}
  IN [step |-> IF later = {} THEN "done" ELSE FirstStep[Phases[Min(later)]], at |-> 1]

Booting == IF "market" \in running THEN PhaseAfter(0) ELSE [step |-> "off", at |-> 1]

PricingInit ==
  /\ running \in Deployments
  /\ indexer = [p \in Threads |-> NoIndexing]
  /\ boot = Booting
  /\ recipes = [r \in Recipes |-> 0]
  /\ methods = [m \in Methods |-> 0]
  /\ touched = [recipes |-> 0, methods |-> 0]
  /\ written = 0
  /\ saving = {}
  /\ labFailed = FALSE
  /\ bucket = [f \in Range(CsvFiles) |-> CHOOSE v \in CsvVersions : TRUE]
  /\ imported = [f \in Range(CsvFiles) |-> {}]
  /\ filed = {}
  /\ uploads = 0 /\ crashes = 0 /\ failures = 0

-----------------------------------------------------------------------------
(* indexPricing.                                                           *)

(* A profession or tier whose answer is invalid is skipped, an invalid     *)
(* index ends the run: any part of the recipes may be met.                 *)
BeginIndexing(p) ==
  /\ indexer[p] = NoIndexing
  /\ \E met \in SUBSET Recipes :
       indexer' = [indexer EXCEPT ![p] = [step |-> IF met = {} THEN "none" ELSE "exists", left |-> met]]

IndexAtBoot ==
  /\ At("index")
  /\ BeginIndexing("boot")
  /\ boot' = [boot EXCEPT !.step = "indexing"]
  /\ UNCHANGED <<running, recipes, labVars, fileVars, crashes>>

IndexByCron ==
  /\ "cron" \in running
  /\ BeginIndexing("cron")
  /\ UNCHANGED <<running, boot, recipes, labVars, fileVars, crashes>>

RestOf(p, left) == [step |-> IF left = {} THEN "none" ELSE "exists", left |-> left]

PricingExists(p) ==
  /\ indexer[p].step = "exists"
  /\ LET r == CHOOSE r \in indexer[p].left : TRUE IN
       indexer' = [indexer EXCEPT ![p] = IF recipes[r] > 0 THEN RestOf(p, @.left \ {r})
                                         ELSE [@ EXCEPT !.step = "save"]]
  /\ UNCHANGED <<running, boot, recipes, labVars, fileVars, crashes>>

SavePricing(p) ==
  /\ indexer[p].step = "save"
  /\ LET r == CHOOSE r \in indexer[p].left : TRUE IN
       /\ recipes' = [recipes EXCEPT ![r] = @ + 1]
       /\ indexer' = [indexer EXCEPT ![p] = RestOf(p, @.left \ {r})]
  /\ written' = written + 1
  /\ touched' = [touched EXCEPT !.recipes = written']
  /\ UNCHANGED <<running, boot, methods, saving, labFailed, failures, fileVars, crashes>>

(* A request or a statement throws: indexPricing logs it and ends. *)
IndexingFails(p) ==
  /\ indexer[p] # NoIndexing
  /\ failures < MaxFailures
  /\ failures' = failures + 1
  /\ indexer' = [indexer EXCEPT ![p] = NoIndexing]
  /\ UNCHANGED <<running, boot, recipes, methods, touched, written, saving, labFailed, fileVars, crashes>>

IndexingEnds ==
  /\ At("indexing") /\ indexer["boot"] = NoIndexing
  /\ boot' = PhaseAfter(1)
  /\ UNCHANGED <<running, indexer, recipes, labVars, fileVars, crashes>>

-----------------------------------------------------------------------------
(* libPricing.                                                             *)

\* mutant: the methods of the last boot stay
KeepLab ==
  /\ At("clear")
  /\ boot' = [step |-> "lab", at |-> 1]
  /\ UNCHANGED <<running, indexer, recipes, labVars, fileVars, crashes>>

(* Every method of every laboratory goes, the disabled ones' too. *)
ClearLab ==
  /\ At("clear")
  /\ methods' = [m \in Methods |-> 0]
  /\ touched' = [touched EXCEPT !.methods = 0]
  /\ labFailed' = FALSE
  /\ boot' = [step |-> "lab", at |-> 1]
  /\ UNCHANGED <<running, indexer, recipes, written, saving, failures, fileVars, crashes>>

(* The delete throws: the table stays as the last boot left it, no method  *)
(* is saved, and the boot goes on to the next phase.                       *)
ClearFails ==
  /\ At("clear")
  /\ failures < MaxFailures
  /\ failures' = failures + 1
  /\ labFailed' = TRUE
  /\ boot' = PhaseAfter(2)
  /\ UNCHANGED <<running, indexer, recipes, methods, touched, written, saving, fileVars, crashes>>

(* mergeMap starts the saves of all methods of a laboratory at once. *)
ProcessLabPricingMethod ==
  /\ At("lab") /\ boot.at <= Len(Labs)
  /\ LET l == Labs[boot.at] IN
       IF l \in EnabledLabs
       THEN saving' = saving \cup LabMethods[l] /\ boot' = [boot EXCEPT !.step = "saves"]
       ELSE UNCHANGED saving /\ boot' = [boot EXCEPT !.at = @ + 1]
  /\ UNCHANGED <<running, indexer, recipes, methods, touched, written, labFailed, failures, fileVars, crashes>>

SaveMethod(m) ==
  /\ m \in saving
  /\ saving' = saving \ {m}
  /\ methods' = [methods EXCEPT ![m] = @ + 1]
  /\ written' = written + 1
  /\ touched' = [touched EXCEPT !.methods = written']
  /\ UNCHANGED <<running, indexer, boot, recipes, labFailed, failures, fileVars, crashes>>

NextLab == [boot EXCEPT !.step = "lab", !.at = @ + 1]

(* One failed save rejects the whole laboratory, but the other saves go on. *)
SaveMethodFails(m) ==
  /\ m \in saving /\ At("saves") /\ m \in LabMethods[Labs[boot.at]]
  /\ failures < MaxFailures
  /\ failures' = failures + 1
  /\ saving' = saving \ {m}
  /\ labFailed' = TRUE
  /\ boot' = NextLab
  /\ UNCHANGED <<running, indexer, recipes, methods, touched, written, fileVars, crashes>>

LabEnds ==
  /\ \/ At("saves") /\ saving \cap LabMethods[Labs[boot.at]] = {} /\ boot' = NextLab
     \/ At("lab") /\ boot.at > Len(Labs) /\ boot' = PhaseAfter(2)
  /\ UNCHANGED <<running, indexer, recipes, labVars, fileVars, crashes>>

-----------------------------------------------------------------------------
(* buildSkillLine, buildSpellEffect, buildSpellReagents.                   *)

File == CsvFiles[boot.at]
NextFile == IF boot.at < Len(CsvFiles) THEN [step |-> "csv", at |-> boot.at + 1]
            ELSE PhaseAfter(3)

ReadCsvFile ==
  /\ At("csv")
  /\ boot' = IF <<File, bucket[File]>> \in filed THEN NextFile
             ELSE [step |-> "rows", at |-> boot.at, content |-> bucket[File]]
  /\ UNCHANGED <<running, indexer, recipes, labVars, fileVars, crashes>>

(* The spell effects are saved row by row, the others in one transaction. *)
RowByRow(f) == f = CsvFiles[2]

Missing == RowsIn[boot.content] \ imported[File]

(* A row whose ID is there already is left as it is. *)
SaveRows ==
  /\ At("rows") /\ Missing # {}
  /\ \E rows \in SUBSET Missing :
       /\ IF RowByRow(File) THEN Cardinality(rows) = 1 ELSE rows = Missing
       /\ imported' = [imported EXCEPT ![File] = @ \cup rows]
  /\ UNCHANGED <<running, indexer, boot, recipes, labVars, bucket, filed, uploads, crashes>>

\* mutant: the key is made of what the bucket holds by now
MarkPresentFile ==
  /\ At("rows") /\ Missing = {}
  /\ filed' = filed \cup {<<File, bucket[File]>>}
  /\ boot' = NextFile
  /\ UNCHANGED <<running, indexer, recipes, labVars, bucket, imported, uploads, crashes>>

MarkFileAsProcessed ==
  /\ At("rows") /\ Missing = {}
  /\ filed' = filed \cup {<<File, boot.content>>}
  /\ boot' = NextFile
  /\ UNCHANGED <<running, indexer, recipes, labVars, bucket, imported, uploads, crashes>>

CsvFails ==
  /\ boot.step \in {"csv", "rows"}
  /\ failures < MaxFailures
  /\ failures' = failures + 1
  /\ boot' = NextFile
  /\ UNCHANGED <<running, indexer, recipes, methods, touched, written, saving, labFailed, fileVars, crashes>>

(* Somebody replaces a file in the bucket. *)
UploadFile(f, v) ==
  /\ "build" \in running /\ uploads < MaxUploads /\ bucket[f] # v
  /\ uploads' = uploads + 1
  /\ bucket' = [bucket EXCEPT ![f] = v]
  /\ UNCHANGED <<running, indexer, boot, recipes, labVars, imported, filed, crashes>>

(* Redis forgets the key after thirty days. *)
ExpireFile ==
  /\ \E k \in filed : filed' = filed \ {k}
  /\ UNCHANGED <<running, indexer, boot, recipes, labVars, bucket, imported, uploads, crashes>>

Crash ==
  /\ "market" \in running /\ crashes < MaxCrashes
  /\ crashes' = crashes + 1
  /\ boot' = Booting
  /\ indexer' = [p \in Threads |-> NoIndexing]
  /\ saving' = {}
  /\ UNCHANGED <<running, recipes, methods, touched, written, labFailed, failures, fileVars>>

PricingNext ==
  \/ IndexAtBoot \/ IndexByCron \/ IndexingEnds \/ ClearLab \/ ClearFails \/ ProcessLabPricingMethod \/ LabEnds
  \/ ReadCsvFile \/ SaveRows \/ MarkFileAsProcessed \/ CsvFails \/ ExpireFile \/ Crash
  \/ (\E p \in Threads : PricingExists(p) \/ SavePricing(p) \/ IndexingFails(p))
  \/ (\E m \in Methods : SaveMethod(m) \/ SaveMethodFails(m))
  \/ (\E f \in Range(CsvFiles), v \in CsvVersions : UploadFile(f, v))

PricingSpec == PricingInit /\ [][PricingNext]_pricingVars

-----------------------------------------------------------------------------
(* A content whose key is set has every ID in its table, whatever was      *)
(* uploaded while it was read, failed or died: it is not read again.       *)
MarkedFilesAreImported ==
  \A k \in filed : RowsIn[k[2]] \subseteq imported[k[1]]

(* Once a boot whose delete and saves all succeeded is past the phase of   *)
(* the laboratories, the methods of the enabled ones are in the table once *)
(* and no other one's is, however many earlier boots failed to delete or   *)
(* to save, or died between their delete and their last save.              *)
LabIsRebuilt ==
  "lab" \in running /\ boot.step \in {"csv", "rows", "stage", "done"} /\ ~labFailed
    => \A l \in DOMAIN LabMethods : \A m \in LabMethods[l] :
         methods[m] = IF l \in EnabledLabs THEN 1 ELSE 0
=============================================================================
