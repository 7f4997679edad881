--------------------------- MODULE Catalogue_proofs ---------------------------
(***************************************************************************)
(* Proofs about the boot of apps/market's XvaService and the other writers *)
(* of an item's classes, for any contents of the CSV files and any         *)
(* uploads, failures and crashes: the markers of the imported files and of *)
(* the built stages are true, every boot leaves the enabled laboratories'  *)
(* methods in the table once, and no item gets a class twice.  Then about  *)
(* the evaluations and the price axis, for any recipes, offers and orders: *)
(* these rest on facts about folds and recursive functions, which are      *)
(* shown first, by induction over sets of numbers.                         *)
(***************************************************************************)
EXTENDS AssetClasses, Evaluations, PriceAxis, FiniteSetTheorems, SequenceTheorems, WellFoundedInduction, TLAPS

(* The phases that are still to come, and the first of them.               *)
LaterPhases(n) == {k \in n + 1 .. Len(Phases) : Phases[k] \in running}

LEMMA PhasesAre ==
  /\ Len(Phases) = 4
  /\ FirstStep[Phases[1]] = "index" /\ FirstStep[Phases[2]] = "clear"
  /\ FirstStep[Phases[3]] = "csv" /\ FirstStep[Phases[4]] = "stage"
  /\ Phases[2] = "lab"
BY DEF Phases, FirstStep

LEMMA NextPhase ==
  ASSUME NEW n \in 0 .. 3
  PROVE  /\ LaterPhases(n) # {} => /\ Min(LaterPhases(n)) \in LaterPhases(n)
                                   /\ \A k \in LaterPhases(n) : Min(LaterPhases(n)) <= k
         /\ PhaseAfter(n).step = IF LaterPhases(n) = {} THEN "done" ELSE FirstStep[Phases[Min(LaterPhases(n))]]
         /\ PhaseAfter(n).at = 1
         /\ {"step", "at"} \subseteq DOMAIN PhaseAfter(n)
<1>1. LaterPhases(n) \subseteq 1 .. 4
  BY PhasesAre DEF LaterPhases
<1>2. LaterPhases(n) # {} => \E x \in LaterPhases(n) : \A y \in LaterPhases(n) : x <= y
  <2> DEFINE S == LaterPhases(n)
  <2> HIDE DEF S
  <2>1. S \subseteq 1 .. 4
    BY <1>1 DEF S
  <2>2. S # {} => \E x \in S : \A y \in S : x <= y
    <3>1. CASE 1 \in S BY <3>1, <2>1
    <3>2. CASE 1 \notin S /\ 2 \in S BY <3>2, <2>1
    <3>3. CASE 1 \notin S /\ 2 \notin S /\ 3 \in S BY <3>3, <2>1
    <3>4. CASE 1 \notin S /\ 2 \notin S /\ 3 \notin S
      <4>1. \A x \in S : x = 4
        BY <3>4, <2>1
      <4>2. \A x, y \in S : x <= y
        BY <4>1
      <4> QED BY <4>2
    <3> QED BY <3>1, <3>2, <3>3, <3>4
  <2> QED BY <2>2 DEF S
<1>3. LaterPhases(n) # {} => /\ Min(LaterPhases(n)) \in LaterPhases(n)
                            /\ \A k \in LaterPhases(n) : Min(LaterPhases(n)) <= k
  BY <1>2 DEF Min
<1>4. PhaseAfter(n) = [step |-> IF LaterPhases(n) = {} THEN "done" ELSE FirstStep[Phases[Min(LaterPhases(n))]], at |-> 1]
  BY DEF PhaseAfter, LaterPhases
<1> QED BY <1>3, <1>4

LEMMA PhaseSteps ==
  ASSUME NEW n \in 0 .. 3
  PROVE  PhaseAfter(n).step \in {"index", "clear", "csv", "stage", "done"}
<1>1. LaterPhases(n) \subseteq 1 .. 4
  BY PhasesAre DEF LaterPhases
<1>2. LaterPhases(n) # {} => Min(LaterPhases(n)) \in 1 .. 4
  BY <1>1, NextPhase
<1> QED BY <1>2, NextPhase, PhasesAre

LEMMA LatePhases ==
  PhaseAfter(2).step \in {"csv", "stage", "done"} /\ PhaseAfter(3).step \in {"stage", "done"}
<1>1. LaterPhases(2) \subseteq 3 .. 4 /\ LaterPhases(3) \subseteq 4 .. 4
  BY PhasesAre DEF LaterPhases
<1>2. LaterPhases(2) # {} => Min(LaterPhases(2)) \in {3, 4}
  BY <1>1, NextPhase
<1>3. LaterPhases(3) # {} => Min(LaterPhases(3)) = 4
  BY <1>1, NextPhase
<1> QED BY <1>2, <1>3, NextPhase, PhasesAre

-----------------------------------------------------------------------------
(* The imported files.                                                     *)

(* The boot is at one of the files while it reads them.                    *)
BootAtFile ==
  /\ {"step", "at"} \subseteq DOMAIN boot
  /\ boot.step \in {"csv", "rows"} => boot.at \in 1 .. Len(CsvFiles)

(* What is marked is of a file with a table, and all of it is there.       *)
FilesInv ==
  /\ BootAtFile
  /\ DOMAIN imported = Range(CsvFiles)
  /\ \A k \in filed : k[1] \in Range(CsvFiles)
  /\ MarkedFilesAreImported

-----------------------------------------------------------------------------
LEMMA FileInRange == ASSUME NEW n \in 1 .. Len(CsvFiles) PROVE CsvFiles[n] \in Range(CsvFiles)
BY FilesAssumption DEF Range

(* The phase that follows begins at the first file or before all of them.  *)
LEMMA PhaseBegins ==
  ASSUME NEW n \in 0 .. 3
  PROVE  LET b == PhaseAfter(n) IN
         /\ {"step", "at"} \subseteq DOMAIN b
         /\ b.step \in {"csv", "rows"} => b.at \in 1 .. Len(CsvFiles)
BY FilesAssumption DEF PhaseAfter

(* A step that leaves the files, their tables and the markers alone.       *)
LEMMA BootGoesOn ==
  ASSUME FilesInv, UNCHANGED <<imported, filed>>, BootAtFile'
  PROVE  FilesInv'
BY DEF FilesInv, MarkedFilesAreImported

LEMMA NextFileBegins == ASSUME FilesInv PROVE
  LET b == NextFile IN
    /\ {"step", "at"} \subseteq DOMAIN b
    /\ b.step \in {"csv", "rows"} /\ boot.step \in {"csv", "rows"} => b.at \in 1 .. Len(CsvFiles)
<1>1. CASE boot.at < Len(CsvFiles)
  BY <1>1, FilesAssumption DEF NextFile, FilesInv, BootAtFile
<1>2. CASE ~(boot.at < Len(CsvFiles))
  BY <1>2, PhaseBegins DEF NextFile
<1> QED BY <1>1, <1>2

-----------------------------------------------------------------------------
LEMMA SaveRowsKeeps == ASSUME FilesInv, SaveRows PROVE FilesInv'
<1>1. PICK rows : imported' = [imported EXCEPT ![File] = imported[File] \cup rows]
  BY DEF SaveRows
<1>2. UNCHANGED <<boot, filed>>
  BY DEF SaveRows
<1>3. \A f \in DOMAIN imported : imported[f] \subseteq imported'[f]
  BY <1>1
<1>4. MarkedFilesAreImported'
  BY <1>2, <1>3 DEF FilesInv, MarkedFilesAreImported
<1>5. BootAtFile' /\ DOMAIN imported' = Range(CsvFiles)
  BY <1>1, <1>2 DEF FilesInv, BootAtFile
<1> QED BY <1>2, <1>4, <1>5 DEF FilesInv

(* The content whose rows were saved is marked, whatever the bucket holds. *)
LEMMA MarkKeeps == ASSUME FilesInv, MarkFileAsProcessed PROVE FilesInv'
<1>1. /\ filed' = filed \cup {<<File, boot.content>>} /\ boot' = NextFile /\ UNCHANGED imported
      /\ boot.step = "rows" /\ RowsIn[boot.content] \ imported[File] = {}
  BY DEF MarkFileAsProcessed, At, Missing
<1>2. File \in Range(CsvFiles)
  BY <1>1, FileInRange DEF FilesInv, BootAtFile, File
<1>3. MarkedFilesAreImported'
  BY <1>1 DEF FilesInv, MarkedFilesAreImported
<1>4. BootAtFile'
  BY <1>1, NextFileBegins DEF BootAtFile
<1> QED BY <1>1, <1>2, <1>3, <1>4 DEF FilesInv

LEMMA ReadKeeps == ASSUME FilesInv, ReadCsvFile \/ CsvFails PROVE FilesInv'
<1>1. UNCHANGED <<imported, filed>>
  BY DEF ReadCsvFile, CsvFails, fileVars
<1>2. boot.step \in {"csv", "rows"} /\ boot' \in {NextFile, [step |-> "rows", at |-> boot.at, content |-> bucket[File]]}
  BY DEF ReadCsvFile, CsvFails, At
<1>3. BootAtFile'
  BY <1>2, NextFileBegins DEF FilesInv, BootAtFile
<1> QED BY <1>1, <1>3, BootGoesOn

(* The actions of indexPricing and of the laboratories.                    *)
LEMMA OthersKeep ==
  ASSUME FilesInv,
         \/ IndexAtBoot \/ IndexByCron \/ IndexingEnds \/ ClearLab \/ ClearFails \/ ProcessLabPricingMethod
         \/ LabEnds \/ Crash
         \/ \E p \in Threads : PricingExists(p) \/ SavePricing(p) \/ IndexingFails(p)
         \/ \E m \in Methods : SaveMethod(m) \/ SaveMethodFails(m)
  PROVE  FilesInv'
<1>1. UNCHANGED <<imported, filed>>
  BY DEF IndexAtBoot, IndexByCron, IndexingEnds, ClearLab, ClearFails, ProcessLabPricingMethod, LabEnds, Crash,
         PricingExists, SavePricing, IndexingFails, SaveMethod, SaveMethodFails, fileVars
<1>2. CASE UNCHANGED boot
  BY <1>1, <1>2, BootGoesOn DEF FilesInv, BootAtFile
<1>3. CASE boot' \in {PhaseAfter(n) : n \in 0 .. 3}
  BY <1>1, <1>3, PhaseBegins, BootGoesOn DEF BootAtFile
<1>4. CASE {"step", "at"} \subseteq DOMAIN boot' /\ boot'.step \notin {"csv", "rows"}
  BY <1>1, <1>4, BootGoesOn DEF BootAtFile
<1>5. \/ UNCHANGED boot
      \/ boot' \in {PhaseAfter(n) : n \in 0 .. 3}
      \/ {"step", "at"} \subseteq DOMAIN boot' /\ boot'.step \notin {"csv", "rows"}
  <2>1. CASE IndexAtBoot
    BY <2>1 DEF IndexAtBoot, FilesInv, BootAtFile
  <2>2. CASE IndexingEnds \/ ClearFails \/ LabEnds \/ Crash
    <3>1. boot' \in {PhaseAfter(0), PhaseAfter(1), PhaseAfter(2), NextLab, [step |-> "off", at |-> 1]}
      BY <2>2 DEF IndexingEnds, ClearFails, LabEnds, Crash, Booting
    <3>2. {"step", "at"} \subseteq DOMAIN NextLab /\ NextLab.step = "lab"
      BY DEF NextLab, FilesInv, BootAtFile
    <3> QED BY <3>1, <3>2
  <2>3. CASE ClearLab \/ ProcessLabPricingMethod
    BY <2>3 DEF ClearLab, ProcessLabPricingMethod, At, FilesInv, BootAtFile
  <2>4. CASE \E m \in Methods : SaveMethod(m) \/ SaveMethodFails(m)
    BY <2>4 DEF SaveMethod, SaveMethodFails, NextLab, FilesInv, BootAtFile
  <2>5. CASE IndexByCron \/ \E p \in Threads : PricingExists(p) \/ SavePricing(p) \/ IndexingFails(p)
    BY <2>5 DEF IndexByCron, PricingExists, SavePricing, IndexingFails
  <2> QED BY <2>1, <2>2, <2>3, <2>4, <2>5
<1> QED BY <1>2, <1>3, <1>4, <1>5

LEMMA BucketKeeps ==
  ASSUME FilesInv, ExpireFile \/ \E f \in Range(CsvFiles), v \in CsvVersions : UploadFile(f, v)
  PROVE  FilesInv'
<1>1. UNCHANGED <<boot, imported>> /\ filed' \subseteq filed
  BY DEF ExpireFile, UploadFile
<1> QED BY <1>1 DEF FilesInv, BootAtFile, MarkedFilesAreImported

LEMMA PricingInitInv == ASSUME PricingInit PROVE FilesInv
<1>1. BootAtFile
  BY PhaseBegins DEF PricingInit, Booting, BootAtFile
<1> QED BY <1>1 DEF PricingInit, FilesInv, MarkedFilesAreImported

LEMMA PricingKeepsFiles == ASSUME FilesInv, [PricingNext]_pricingVars PROVE FilesInv'
<1>1. CASE PricingNext
  BY <1>1, SaveRowsKeeps, MarkKeeps, ReadKeeps, OthersKeep, BucketKeeps DEF PricingNext
<1>2. CASE UNCHANGED pricingVars
  BY <1>2, BootGoesOn DEF pricingVars, fileVars, FilesInv, BootAtFile
<1> QED BY <1>1, <1>2

-----------------------------------------------------------------------------
(* The laboratory's methods.                                               *)

(* What is there of laboratory number k, while laboratory number n is at   *)
(* hand: at "saves" the methods still to be saved are missing.             *)
RowsOf(k, n, saves, m) ==
  IF Labs[k] \in EnabledLabs /\ (k < n \/ (k = n /\ saves /\ m \notin saving)) THEN 1 ELSE 0

(* The table has the methods of the laboratories before number n.          *)
TableAt(n, saves) ==
  \A k \in 1 .. 3 : \A m \in LabMethods[Labs[k]] : methods[m] = RowsOf(k, n, saves, m)

SavesOfOneLab ==
  /\ boot.at \in 1 .. 3
  /\ Labs[boot.at] \in EnabledLabs
  /\ saving \subseteq LabMethods[Labs[boot.at]]

(* The steps of the phases that follow the laboratories'.                  *)
AfterLab == {"csv", "rows", "stage", "append", "find", "update", "mark", "done"}

(* Before its delete a boot saves no method, whatever failed before.       *)
BeforeLab == boot.step \in {"index", "indexing", "clear"} => saving = {}

(* Nothing is being saved but by the laboratory at hand; the table has     *)
(* what the laboratories so far put there.  Before the delete it may have  *)
(* anything.                                                               *)
LabInv ==
  "lab" \in running /\ ~labFailed =>
    /\ {"step", "at"} \subseteq DOMAIN boot
    /\ DOMAIN methods = Methods
    /\ At("saves") => SavesOfOneLab /\ TableAt(boot.at, TRUE)
    /\ ~At("saves") => saving = {}
    /\ At("lab") => boot.at \in 1 .. 4 /\ TableAt(boot.at, FALSE)
    /\ boot.step \in AfterLab => TableAt(4, FALSE)

LEMMA LabsAre ==
  /\ Len(Labs) = 3
  /\ \A k \in 1 .. 3 : Labs[k] \in Range(Labs)
  /\ \A j, k \in 1 .. 3 : j # k => Labs[j] # Labs[k]
  /\ \A l \in Range(Labs) : \E k \in 1 .. 3 : l = Labs[k]
BY DEF Labs, Range

LEMMA MethodsOfLabs ==
  /\ \A k \in 1 .. 3 : LabMethods[Labs[k]] \subseteq Methods
  /\ \A j, k \in 1 .. 3 : j # k => LabMethods[Labs[j]] \cap LabMethods[Labs[k]] = {}
<1>1. \A k \in 1 .. 3 : LabMethods[Labs[k]] \subseteq Methods
  BY DEF Labs, Methods, PROSPECTING, MILLING, DISENCHANTING
<1> QED BY <1>1, LabsAre, LabsAssumption

(* The phases that follow when the laboratory's is among them.             *)
LEMMA LabPhases ==
  ASSUME "lab" \in running
  PROVE  /\ PhaseAfter(0).step \in {"index", "clear"}
         /\ PhaseAfter(1).step = "clear"
         /\ PhaseAfter(2).step \in {"csv", "stage", "done"}
         /\ PhaseAfter(3).step \in {"stage", "done"}
         /\ \A n \in 0 .. 3 : {"step", "at"} \subseteq DOMAIN PhaseAfter(n)
<1>1. 2 \in LaterPhases(0) /\ 2 \in LaterPhases(1) /\ LaterPhases(0) \subseteq 1 .. 4 /\ LaterPhases(1) \subseteq 2 .. 4
      /\ LaterPhases(2) \subseteq 3 .. 4 /\ LaterPhases(3) \subseteq 4 .. 4
  BY PhasesAre DEF LaterPhases
<1>2. PhaseAfter(0).step \in {"index", "clear"}
  <2>1. Min(LaterPhases(0)) \in {1, 2}
    BY <1>1, NextPhase
  <2> QED BY <2>1, <1>1, NextPhase, PhasesAre
<1>3. PhaseAfter(1).step = "clear"
  <2>1. Min(LaterPhases(1)) = 2
    BY <1>1, NextPhase
  <2> QED BY <2>1, <1>1, NextPhase, PhasesAre
<1>4. PhaseAfter(2).step \in {"csv", "stage", "done"}
  <2>1. LaterPhases(2) # {} => Min(LaterPhases(2)) \in {3, 4}
    BY <1>1, NextPhase
  <2> QED BY <2>1, NextPhase, PhasesAre
<1>5. PhaseAfter(3).step \in {"stage", "done"}
  <2>1. LaterPhases(3) # {} => Min(LaterPhases(3)) = 4
    BY <1>1, NextPhase
  <2> QED BY <2>1, NextPhase, PhasesAre
<1> QED BY <1>2, <1>3, <1>4, <1>5, NextPhase

(* Steps beside the laboratory: the boot stays where it is, goes on before *)
(* the delete, or goes on after the last laboratory.                       *)
LEMMA BesideLab ==
  ASSUME LabInv, UNCHANGED <<running, methods, saving, labFailed>>,
         "lab" \in running =>
           \/ UNCHANGED boot
           \/ /\ {"step", "at"} \subseteq DOMAIN boot'
              /\ boot.step # "saves"
              /\ boot'.step \in {"index", "indexing", "clear"}
           \/ /\ {"step", "at"} \subseteq DOMAIN boot'
              /\ boot.step \in AfterLab /\ boot'.step \in AfterLab
  PROVE  LabInv'
<1> SUFFICES ASSUME "lab" \in running, ~labFailed
             PROVE  LabInv'
  BY DEF LabInv
<1>1. CASE UNCHANGED boot
  BY <1>1 DEF LabInv, AfterLab, At, SavesOfOneLab, TableAt, RowsOf
<1>2. CASE /\ {"step", "at"} \subseteq DOMAIN boot'
           /\ boot.step # "saves"
           /\ boot'.step \in {"index", "indexing", "clear"}
  BY <1>2 DEF LabInv, AfterLab, At
<1>3. CASE /\ {"step", "at"} \subseteq DOMAIN boot'
           /\ boot.step \in AfterLab /\ boot'.step \in AfterLab
  BY <1>3 DEF LabInv, AfterLab, At, TableAt, RowsOf, AfterLab
<1> QED BY <1>1, <1>2, <1>3

LEMMA IndexKeepsLab ==
  ASSUME LabInv,
         \/ IndexAtBoot \/ IndexByCron \/ IndexingEnds \/ ExpireFile \/ SaveRows
         \/ \E p \in Threads : PricingExists(p) \/ SavePricing(p) \/ IndexingFails(p)
         \/ \E f \in Range(CsvFiles), v \in CsvVersions : UploadFile(f, v)
  PROVE  LabInv'
<1>1. UNCHANGED <<running, methods, saving, labFailed>>
  BY DEF IndexAtBoot, IndexByCron, IndexingEnds, ExpireFile, SaveRows, PricingExists, SavePricing, IndexingFails,
         UploadFile, labVars
<1>2. CASE UNCHANGED boot
  BY <1>1, <1>2, BesideLab
<1>3. CASE IndexAtBoot
  <2>1. boot.step = "index" /\ boot' = [boot EXCEPT !.step = "indexing"]
    BY <1>3 DEF IndexAtBoot, At
  <2>2. CASE "lab" \in running /\ ~labFailed
    <3>1. {"step", "at"} \subseteq DOMAIN boot
      BY <2>2 DEF LabInv
    <3> QED BY <1>1, <2>1, <3>1, BesideLab
  <2>3. CASE ~("lab" \in running /\ ~labFailed)
    BY <1>1, <2>3 DEF LabInv
  <2> QED BY <2>2, <2>3
<1>4. CASE IndexingEnds
  <2>1. boot.step = "indexing" /\ boot' = PhaseAfter(1)
    BY <1>4 DEF IndexingEnds, At
  <2>2. "lab" \in running => {"step", "at"} \subseteq DOMAIN boot' /\ boot'.step = "clear"
    BY <2>1, LabPhases
  <2> QED BY <1>1, <2>1, <2>2, BesideLab
<1> QED BY <1>2, <1>3, <1>4 DEF IndexByCron, ExpireFile, SaveRows, PricingExists, SavePricing, IndexingFails, UploadFile

LEMMA CsvKeepsLab ==
  ASSUME LabInv, ReadCsvFile \/ MarkFileAsProcessed \/ CsvFails
  PROVE  LabInv'
<1>1. UNCHANGED <<running, methods, saving, labFailed>>
  BY DEF ReadCsvFile, MarkFileAsProcessed, CsvFails, labVars
<1>2. boot.step \in {"csv", "rows"}
  BY DEF ReadCsvFile, MarkFileAsProcessed, CsvFails, At
<1>3. \/ boot' = NextFile
      \/ boot' = [step |-> "rows", at |-> boot.at, content |-> bucket[File]]
  BY DEF ReadCsvFile, MarkFileAsProcessed, CsvFails
<1>4. "lab" \in running => {"step", "at"} \subseteq DOMAIN boot' /\ boot'.step \in {"csv", "rows", "stage", "done"}
  BY <1>3, LabPhases DEF NextFile
<1> QED BY <1>1, <1>2, <1>4, BesideLab DEF AfterLab

(* The delete empties the table, the disabled laboratories' rows included, *)
(* and with them what a failed laboratory left.                            *)
LEMMA ClearKeepsLab == ASSUME BeforeLab, ClearLab PROVE LabInv'
<1>1. boot.step = "clear" /\ boot' = [step |-> "lab", at |-> 1] /\ methods' = [m \in Methods |-> 0] /\ UNCHANGED saving
  BY DEF ClearLab, At
<1>2. TableAt(1, FALSE)'
  BY <1>1, MethodsOfLabs DEF TableAt, RowsOf
<1>3. saving' = {}
  BY <1>1 DEF BeforeLab
<1> QED BY <1>1, <1>2, <1>3 DEF LabInv, AfterLab, At, TableAt, RowsOf

LEMMA BeforeStays ==
  ASSUME BeforeLab, saving' \subseteq saving, boot' = boot \/ boot'.step \notin {"index", "indexing", "clear"}
  PROVE  BeforeLab'
BY DEF BeforeLab

LEMMA PricingKeepsBefore ==
  ASSUME BeforeLab, {"step", "at"} \subseteq DOMAIN boot, PricingNext
  PROVE  BeforeLab'
<1>1. CASE Crash
  BY <1>1 DEF Crash, BeforeLab
<1>2. CASE IndexAtBoot \/ IndexingEnds
  <2>1. boot.step \in {"index", "indexing"} /\ UNCHANGED saving
    BY <1>2 DEF IndexAtBoot, IndexingEnds, At, labVars
  <2> QED BY <2>1 DEF BeforeLab
<1>3. CASE ClearLab \/ ClearFails
  <2>1. boot.step = "clear" /\ UNCHANGED saving
    BY <1>3 DEF ClearLab, ClearFails, At
  <2> QED BY <2>1 DEF BeforeLab
<1>4. CASE ProcessLabPricingMethod
  <2>1. boot.step = "lab" /\ boot' \in {[boot EXCEPT !.step = "saves"], [boot EXCEPT !.at = boot.at + 1]}
    BY <1>4 DEF ProcessLabPricingMethod, At
  <2>2. boot'.step \in {"saves", "lab"}
    BY <2>1
  <2> QED BY <2>2 DEF BeforeLab
<1>5. CASE LabEnds \/ ReadCsvFile \/ MarkFileAsProcessed \/ CsvFails
  <2>1. UNCHANGED saving
    BY <1>5 DEF LabEnds, ReadCsvFile, MarkFileAsProcessed, CsvFails, labVars
  <2>2. \/ boot' \in {NextLab, PhaseAfter(2), PhaseAfter(3), [step |-> "csv", at |-> boot.at + 1]}
        \/ boot' = [step |-> "rows", at |-> boot.at, content |-> bucket[File]]
    BY <1>5 DEF LabEnds, ReadCsvFile, MarkFileAsProcessed, CsvFails, NextFile
  <2>3. NextLab.step = "lab"
    BY DEF NextLab
  <2>4. boot'.step \notin {"index", "indexing", "clear"}
    BY <2>2, <2>3, LatePhases
  <2> QED BY <2>1, <2>4, BeforeStays
<1>6. CASE \E m \in Methods : SaveMethod(m) \/ SaveMethodFails(m)
  <2>1. saving' \subseteq saving /\ (boot' = boot \/ boot' = NextLab)
    BY <1>6 DEF SaveMethod, SaveMethodFails
  <2>2. NextLab.step = "lab"
    BY DEF NextLab
  <2> QED BY <2>1, <2>2, BeforeStays
<1>7. CASE \/ IndexByCron \/ SaveRows \/ ExpireFile
           \/ \E p \in Threads : PricingExists(p) \/ SavePricing(p) \/ IndexingFails(p)
           \/ \E f \in Range(CsvFiles), v \in CsvVersions : UploadFile(f, v)
  <2>1. UNCHANGED <<boot, saving>>
    BY <1>7 DEF IndexByCron, SaveRows, ExpireFile, PricingExists, SavePricing, IndexingFails, UploadFile, labVars
  <2> QED BY <2>1, BeforeStays
<1> QED BY <1>1, <1>2, <1>3, <1>4, <1>5, <1>6, <1>7 DEF PricingNext

LEMMA ProcessKeepsLab == ASSUME LabInv, ProcessLabPricingMethod PROVE LabInv'
<1> SUFFICES ASSUME "lab" \in running, ~labFailed PROVE LabInv'
  BY DEF LabInv, ProcessLabPricingMethod
<1>1. boot.step = "lab" /\ boot.at \in 1 .. 3 /\ saving = {} /\ TableAt(boot.at, FALSE) /\ UNCHANGED methods
      /\ {"step", "at"} \subseteq DOMAIN boot /\ DOMAIN methods = Methods
  <2>1. boot.step = "lab" /\ boot.at <= 3 /\ UNCHANGED methods
    BY LabsAre DEF ProcessLabPricingMethod, At
  <2>2. ~(boot.step = "saves")
    BY <2>1
  <2>3. saving = {} /\ boot.at \in 1 .. 4 /\ TableAt(boot.at, FALSE)
        /\ {"step", "at"} \subseteq DOMAIN boot /\ DOMAIN methods = Methods
    BY ONLY <2>1, <2>2, "lab" \in running, ~labFailed, LabInv DEF LabInv, AfterLab, At
  <2>4. boot.at \in 1 .. 3
    BY <2>1, <2>3
  <2> QED BY ONLY <2>1, <2>3, <2>4
<1>2. CASE Labs[boot.at] \in EnabledLabs
  <2>1. saving' = LabMethods[Labs[boot.at]] /\ boot' = [boot EXCEPT !.step = "saves"]
    BY <1>1, <1>2 DEF ProcessLabPricingMethod
  <2>2. boot'.step = "saves" /\ boot'.at = boot.at /\ {"step", "at"} \subseteq DOMAIN boot'
    BY <1>1, <2>1
  <2>3. TableAt(boot.at, TRUE)'
    BY <1>1, <2>1, <2>2 DEF TableAt, RowsOf
  <2> QED BY <1>1, <1>2, <2>1, <2>2, <2>3 DEF LabInv, AfterLab, At, SavesOfOneLab
<1>3. CASE Labs[boot.at] \notin EnabledLabs
  <2>1. saving' = {} /\ boot' = [boot EXCEPT !.at = boot.at + 1]
    BY <1>1, <1>3 DEF ProcessLabPricingMethod
  <2>2. boot'.step = "lab" /\ boot'.at = boot.at + 1 /\ {"step", "at"} \subseteq DOMAIN boot'
    BY <1>1, <2>1
  <2>3. TableAt(boot.at, FALSE)'
    BY <1>1, <1>3, <2>1, <2>2 DEF TableAt, RowsOf
  <2> QED BY <1>1, <2>1, <2>2, <2>3 DEF LabInv, AfterLab, At, TableAt, RowsOf
<1> QED BY <1>2, <1>3

(* A save puts the one row of its method in the table.                     *)
LEMMA SaveKeepsLab == ASSUME LabInv, NEW x \in Methods, SaveMethod(x) PROVE LabInv'
<1> SUFFICES ASSUME "lab" \in running, ~labFailed PROVE LabInv'
  BY DEF LabInv, SaveMethod
<1>1. x \in saving /\ saving' = saving \ {x} /\ methods' = [methods EXCEPT ![x] = methods[x] + 1] /\ UNCHANGED boot
  BY DEF SaveMethod
<1>2. boot.step = "saves" /\ SavesOfOneLab /\ TableAt(boot.at, TRUE)
      /\ {"step", "at"} \subseteq DOMAIN boot /\ DOMAIN methods = Methods
  BY <1>1 DEF LabInv, AfterLab, At
<1>3. methods[x] = 0
  BY <1>1, <1>2 DEF SavesOfOneLab, TableAt, RowsOf
<1>4. \A m \in Methods : methods'[m] = IF m = x THEN 1 ELSE methods[m]
  BY <1>1, <1>2, <1>3
<1>5. \A k \in 1 .. 3 : x \in LabMethods[Labs[k]] <=> k = boot.at
  BY <1>1, <1>2, MethodsOfLabs DEF SavesOfOneLab
<1>6. TableAt(boot.at, TRUE)'
  <2> SUFFICES ASSUME NEW k \in 1 .. 3, NEW m \in LabMethods[Labs[k]]
               PROVE  methods'[m] = RowsOf(k, boot.at, TRUE, m)'
    BY <1>1 DEF TableAt
  <2>1. methods[m] = RowsOf(k, boot.at, TRUE, m) /\ m \in Methods
    BY <1>2, MethodsOfLabs DEF TableAt
  <2>2. CASE m = x
    BY <2>2, <1>1, <1>2, <1>4, <1>5 DEF RowsOf, SavesOfOneLab
  <2>3. CASE m # x
    BY <2>1, <2>3, <1>1, <1>4 DEF RowsOf
  <2> QED BY <2>2, <2>3
<1>7. DOMAIN methods' = Methods
  BY <1>1, <1>2
<1> QED BY <1>1, <1>2, <1>6, <1>7 DEF LabInv, AfterLab, At, SavesOfOneLab

LEMMA LabEndsKeepsLab == ASSUME LabInv, LabEnds PROVE LabInv'
<1> SUFFICES ASSUME "lab" \in running, ~labFailed PROVE LabInv'
  BY DEF LabInv, LabEnds, labVars
<1>1. UNCHANGED <<methods, saving>>
  BY DEF LabEnds, labVars
<1>2. CASE /\ boot.step = "saves" /\ saving \cap LabMethods[Labs[boot.at]] = {} /\ boot' = NextLab
  <2>1. SavesOfOneLab /\ TableAt(boot.at, TRUE) /\ {"step", "at"} \subseteq DOMAIN boot
        /\ DOMAIN methods = Methods
    BY <1>2 DEF LabInv, AfterLab, At
  <2>2. saving = {}
    BY <1>2, <2>1 DEF SavesOfOneLab
  <2>3. boot'.step = "lab" /\ boot'.at = boot.at + 1 /\ {"step", "at"} \subseteq DOMAIN boot'
    BY <1>2, <2>1 DEF NextLab
  <2>4. TableAt(boot.at, FALSE)'
    BY <1>1, <2>1, <2>2, <2>3 DEF TableAt, RowsOf, SavesOfOneLab
  <2> QED BY <1>1, <2>1, <2>2, <2>3, <2>4 DEF LabInv, AfterLab, At, TableAt, RowsOf, SavesOfOneLab
<1>3. CASE boot.step = "lab" /\ boot.at > Len(Labs) /\ boot' = PhaseAfter(2)
  <2>1. boot.at = 4 /\ TableAt(4, FALSE) /\ saving = {} /\ DOMAIN methods = Methods
    <3>1. boot.step = "lab" /\ ~(boot.step = "saves")
      BY <1>3
    <3>2. boot.at \in 1 .. 4 /\ TableAt(boot.at, FALSE) /\ saving = {} /\ DOMAIN methods = Methods
      BY ONLY <3>1, "lab" \in running, ~labFailed, LabInv DEF LabInv, AfterLab, At
    <3>3. boot.at = 4
      BY <1>3, <3>2, LabsAre
    <3> QED BY <3>2, <3>3
  <2>2. boot'.step \in {"csv", "stage", "done"} /\ {"step", "at"} \subseteq DOMAIN boot'
    BY <1>3, LabPhases
  <2>3. TableAt(4, FALSE)'
    BY <1>1, <2>1 DEF TableAt, RowsOf
  <2> QED BY <1>1, <2>1, <2>2, <2>3 DEF LabInv, AfterLab, At
<1> QED BY <1>2, <1>3 DEF LabEnds, At

(* A boot that dies leaves what it had saved, and the next one deletes it. *)
LEMMA CrashKeepsLab == ASSUME LabInv, Crash PROVE LabInv'
<1> SUFFICES ASSUME "lab" \in running, ~labFailed PROVE LabInv'
  BY DEF LabInv, Crash
<1>1. boot' = PhaseAfter(0) /\ saving' = {} /\ UNCHANGED methods
  BY DEF Crash, Booting
<1> QED BY <1>1, LabPhases DEF LabInv, AfterLab, At, TableAt, RowsOf

LEMMA LabInit == ASSUME PricingInit PROVE LabInv
<1> SUFFICES ASSUME "lab" \in running PROVE LabInv
  BY DEF LabInv
<1>1. boot.step \in {"index", "clear", "off"} /\ {"step", "at"} \subseteq DOMAIN boot
  BY LabPhases DEF PricingInit, Booting
<1> QED BY <1>1 DEF PricingInit, LabInv, AfterLab, At

LEMMA PricingKeepsLab == ASSUME LabInv, BeforeLab, [PricingNext]_pricingVars PROVE LabInv'
<1>1. CASE PricingNext
  <2>1. CASE \E m \in Methods : SaveMethod(m) \/ SaveMethodFails(m)
    <3>1. PICK m \in Methods : SaveMethod(m) \/ SaveMethodFails(m)
      BY <2>1
    <3>2. CASE SaveMethod(m)
      BY <3>2, SaveKeepsLab
    <3>3. CASE SaveMethodFails(m)
      BY <3>3 DEF SaveMethodFails, LabInv
    <3> QED BY <3>1, <3>2, <3>3
  <2>2. CASE ClearLab \/ ProcessLabPricingMethod \/ LabEnds \/ Crash
    BY <2>2, ClearKeepsLab, ProcessKeepsLab, LabEndsKeepsLab, CrashKeepsLab
  <2>3. CASE ReadCsvFile \/ MarkFileAsProcessed \/ CsvFails
    BY <2>3, CsvKeepsLab
  <2>4. CASE ClearFails
    BY <2>4 DEF ClearFails, LabInv
  <2> QED BY <1>1, <2>1, <2>2, <2>3, <2>4, IndexKeepsLab DEF PricingNext
<1>2. CASE UNCHANGED pricingVars
  BY <1>2, BesideLab DEF pricingVars, labVars
<1> QED BY <1>1, <1>2

LEMMA LabInvRebuilt == ASSUME LabInv PROVE LabIsRebuilt
<1> SUFFICES ASSUME "lab" \in running, ~labFailed, boot.step \in {"csv", "rows", "stage", "done"},
                    NEW l \in DOMAIN LabMethods, NEW m \in LabMethods[l]
             PROVE  methods[m] = IF l \in EnabledLabs THEN 1 ELSE 0
  BY DEF LabIsRebuilt
<1>1. PICK k \in 1 .. 3 : l = Labs[k]
  BY LabsAre, LabsAssumption
<1>2. TableAt(4, FALSE)
  BY DEF LabInv, AfterLab
<1> QED BY <1>1, <1>2 DEF TableAt, RowsOf

-----------------------------------------------------------------------------
(* Arrays of classes.                                                      *)

IsRow(classes) == classes = NULL \/ IsList(classes)

(* What a row holds: its classes, none when nobody wrote the column.       *)
ClassesIn(classes) == IF classes = NULL THEN {} ELSE Range(classes)

LEMMA ListOfOne == ASSUME NEW c \in Classes PROVE IsList(<<c>>) /\ c \in ClassesIn(<<c>>)
<1>1. IsList(<<c>>)
  BY DEF IsList
<1>2. <<c>> # NULL
  BY <1>1, NullAssumption DEF IsList
<1> QED BY <1>1, <1>2 DEF ClassesIn, Range

LEMMA EmptyList == IsList(<<>>)
BY DEF IsList

LEMMA AppendIsList ==
  ASSUME NEW s, IsList(s), NEW c \in Classes, c \notin Range(s)
  PROVE  IsList(Append(s, c)) /\ ClassesIn(s) \cup {c} \subseteq ClassesIn(Append(s, c))
<1>1. s \in Seq(Classes) /\ DOMAIN s = 1 .. Len(s) /\ Len(s) \in Nat
  BY DEF IsList
<1>2. /\ Append(s, c) \in Seq(Classes)
      /\ Len(Append(s, c)) = Len(s) + 1
      /\ \A i \in 1 .. Len(s) : Append(s, c)[i] = s[i]
      /\ Append(s, c)[Len(s) + 1] = c
  BY <1>1, AppendProperties
<1> DEFINE t == Append(s, c)
<1> HIDE DEF t
<1>3. DOMAIN t = 1 .. Len(s) + 1
  BY <1>1, <1>2 DEF t
<1>4. \A i \in 1 .. Len(s) : t[i] = s[i] /\ s[i] # c
  BY <1>1, <1>2 DEF t, Range
<1>5. t[Len(s) + 1] = c
  BY <1>2 DEF t
<1>6. \A n, k \in DOMAIN t : t[n] = t[k] => n = k
  BY <1>1, <1>3, <1>4, <1>5 DEF IsList
<1>7. t \in Seq(Classes) /\ t # NULL
  BY <1>2, NullAssumption DEF t
<1>8. Range(s) \cup {c} \subseteq Range(t)
  BY <1>1, <1>3, <1>4, <1>5 DEF Range
<1> QED BY <1>6, <1>7, <1>8 DEF t, IsList, ClassesIn

(* A class is added where it is missing, and only there.                   *)
LEMMA WithIsList ==
  ASSUME NEW s, IsRow(s), NEW c \in Classes
  PROVE  IsList(With(s, c)) /\ ClassesIn(s) \cup {c} \subseteq ClassesIn(With(s, c))
<1>1. CASE s = NULL
  BY <1>1, ListOfOne DEF With, ClassesIn
<1>2. CASE s # NULL
  <2>1. IsList(s) /\ DOMAIN s = 1 .. Len(s)
    BY <1>2 DEF IsRow, IsList
  <2>2. Contains(s, c) <=> c \in Range(s)
    BY <2>1 DEF Contains, Range
  <2>3. CASE c \in Range(s)
    BY <1>2, <2>1, <2>2, <2>3 DEF With, ClassesIn
  <2>4. CASE c \notin Range(s)
    BY <1>2, <2>1, <2>2, <2>4, AppendIsList DEF With
  <2> QED BY <2>3, <2>4
<1> QED BY <1>1, <1>2

LEMMA PushIsList ==
  ASSUME NEW s, IsList(s), NEW cs \in Seq(Classes)
  PROVE  IsList(PushAll(s, cs))
<1>1. CASE cs = <<>>
  BY <1>1 DEF PushAll
<1>2. CASE cs # <<>> /\ Len(cs) = 1
  <2>1. cs[1] \in Classes
    BY <1>2
  <2> QED BY <1>2, <2>1, WithIsList DEF PushAll, IsRow
<1>3. CASE cs # <<>> /\ Len(cs) # 1
  <2>1. cs[1] \in Classes /\ cs[2] \in Classes
    <3>1. Len(cs) \in Nat /\ Len(cs) # 0
      BY <1>3
    <3>2. 1 \in 1 .. Len(cs) /\ 2 \in 1 .. Len(cs)
      BY <1>3, <3>1
    <3> QED BY <3>2
  <2>2. PushAll(s, cs) = With(With(s, cs[1]), cs[2])
    BY <1>3 DEF PushAll
  <2>3. IsList(With(s, cs[1]))
    BY <2>1, WithIsList DEF IsRow
  <2> QED BY <2>1, <2>2, <2>3, WithIsList DEF IsRow
<1> QED BY <1>1, <1>2, <1>3

LEMMA IntervalCounts == ASSUME NEW n \in Nat PROVE IsFiniteSet(1 .. n) /\ Cardinality(1 .. n) = n
BY FS_Interval

(* A list has as many classes as it is long.                               *)
LEMMA ListCounts == ASSUME NEW s, IsList(s) PROVE Cardinality(Range(s)) = Len(s)
<1>1. DOMAIN s = 1 .. Len(s) /\ Len(s) \in Nat
  BY DEF IsList
<1>2. s \in Bijection(1 .. Len(s), Range(s))
  BY <1>1 DEF IsList, Bijection, Injection, Surjection, IsInjective, Range
<1>3. IsFiniteSet(1 .. Len(s)) /\ Cardinality(1 .. Len(s)) = Len(s)
  BY <1>1, IntervalCounts
<1> QED BY <1>2, <1>3, FS_Bijection DEF ExistsBijection

(* SetToSeq lists a finite set.                                            *)
LEMMA SetIsListed ==
  ASSUME NEW S, IsFiniteSet(S)
  PROVE  /\ Cardinality(S) \in Nat
         /\ SetToSeq(S) \in [1 .. Cardinality(S) -> S]
         /\ \A x \in S : \E n \in 1 .. Cardinality(S) : SetToSeq(S)[n] = x
<1> DEFINE n == Cardinality(S)
<1>1. n \in Nat /\ ExistsBijection(1 .. n, S)
  BY FS_CardinalityType
<1>2. \E f \in [1 .. n -> S] : IsInjective(f)
  BY <1>1 DEF ExistsBijection, Bijection, Injection
<1>3. SetToSeq(S) \in [1 .. n -> S] /\ IsInjective(SetToSeq(S))
  BY <1>2 DEF SetToSeq
<1>4. SetToSeq(S) \in Injection(1 .. n, S)
  BY <1>3 DEF Injection
<1>5. Cardinality(1 .. n) = n
  BY <1>1, IntervalCounts
<1>6. SetToSeq(S) \in Surjection(1 .. n, S)
  BY <1>4, <1>5, FS_Injection
<1> QED BY <1>1, <1>3, <1>6 DEF Surjection

Add == Items \X Classes

LEMMA PairsAre ==
  ASSUME NEW S \in SUBSET Items, NEW c \in Classes
  PROVE  /\ Pairs(S, c) \in Seq(Add)
         /\ \A x \in S : \E n \in 1 .. Len(Pairs(S, c)) : Pairs(S, c)[n] = <<x, c>>
<1>1. IsFiniteSet(S)
  BY ItemsAssumption, FS_Subset
<1>2. /\ Cardinality(S) \in Nat
      /\ SetToSeq(S) \in [1 .. Cardinality(S) -> S]
      /\ \A x \in S : \E n \in 1 .. Cardinality(S) : SetToSeq(S)[n] = x
  BY <1>1, SetIsListed
<1>3. Pairs(S, c) \in [1 .. Cardinality(S) -> Add]
  BY <1>2 DEF Pairs, Add
<1>4. Pairs(S, c) \in Seq(Add) /\ Len(Pairs(S, c)) = Cardinality(S)
  BY <1>2, <1>3
<1>5. \A n \in 1 .. Cardinality(S) : Pairs(S, c)[n] = <<SetToSeq(S)[n], c>>
  BY DEF Pairs
<1> QED BY <1>2, <1>4, <1>5

LEMMA ConcatHas ==
  ASSUME NEW s \in Seq(Add), NEW t \in Seq(Add)
  PROVE  /\ s \o t \in Seq(Add)
         /\ \A n \in 1 .. Len(s) : n \in 1 .. Len(s \o t) /\ (s \o t)[n] = s[n]
         /\ \A n \in 1 .. Len(t) : Len(s) + n \in 1 .. Len(s \o t) /\ (s \o t)[Len(s) + n] = t[n]
<1>1. Len(s) \in Nat /\ Len(t) \in Nat
  OBVIOUS
<1>2. /\ s \o t \in Seq(Add)
      /\ Len(s \o t) = Len(s) + Len(t)
      /\ \A i \in 1 .. Len(s) + Len(t) : (s \o t)[i] = IF i <= Len(s) THEN s[i] ELSE t[i - Len(s)]
  BY ConcatProperties
<1>3. \A n \in 1 .. Len(s) : n \in 1 .. Len(s) + Len(t) /\ n <= Len(s)
  BY <1>1
<1>4. \A n \in 1 .. Len(t) : Len(s) + n \in 1 .. Len(s) + Len(t) /\ ~(Len(s) + n <= Len(s)) /\ (Len(s) + n) - Len(s) = n
  BY <1>1
<1> QED BY <1>2, <1>3, <1>4
-----------------------------------------------------------------------------
(* The adds of a stage.                                                    *)

(* The items a method that is there names, each with its class.            *)
Named == ((UNION {Derivatives[m] : m \in There}) \X {"DERIVATIVE"})
           \cup ((UNION {Reagents[m] : m \in There}) \X {"REAGENT"})

LEMMA AddsAre ==
  ASSUME Known \subseteq Items
  PROVE  /\ \A stage \in {"pricing", "auctions", "premium", "currency", "vsp"} : Adds(stage) \in Seq(Add)
         /\ \A p \in Named : \E n \in 1 .. Len(Adds("pricing")) : Adds("pricing")[n] = p
<1> DEFINE ds == UNION {Derivatives[m] : m \in There}
           rs == UNION {Reagents[m] : m \in There}
<1>1. ds \in SUBSET Items /\ rs \in SUBSET Items
  BY ItemsAssumption DEF There
<1> HIDE DEF ds, rs
<1>2. {"DERIVATIVE", "REAGENT", "PREMIUM", "WOWTOKEN", "GOLD", "VSP"} \subseteq Classes
  BY DEF Classes
<1>3. /\ Pairs(ds, "DERIVATIVE") \in Seq(Add)
      /\ \A x \in ds : \E n \in 1 .. Len(Pairs(ds, "DERIVATIVE")) : Pairs(ds, "DERIVATIVE")[n] = <<x, "DERIVATIVE">>
  BY <1>1, <1>2, PairsAre
<1>4. /\ Pairs(rs, "REAGENT") \in Seq(Add)
      /\ \A x \in rs : \E n \in 1 .. Len(Pairs(rs, "REAGENT")) : Pairs(rs, "REAGENT")[n] = <<x, "REAGENT">>
  BY <1>1, <1>2, PairsAre
<1>5. Adds("pricing") = Pairs(ds, "DERIVATIVE") \o Pairs(rs, "REAGENT")
  BY DEF Adds, ds, rs
<1>6. Named = (ds \X {"DERIVATIVE"}) \cup (rs \X {"REAGENT"})
  BY DEF Named, ds, rs
<1>7. Adds("pricing") \in Seq(Add)
  BY <1>3, <1>4, <1>5, ConcatHas
<1>8. ASSUME NEW p \in Named PROVE \E n \in 1 .. Len(Adds("pricing")) : Adds("pricing")[n] = p
  <2>1. CASE p \in ds \X {"DERIVATIVE"}
    <3>1. PICK x \in ds : p = <<x, "DERIVATIVE">>
      BY <2>1
    <3>2. PICK n \in 1 .. Len(Pairs(ds, "DERIVATIVE")) : Pairs(ds, "DERIVATIVE")[n] = p
      BY <1>3, <3>1
    <3>3. n \in 1 .. Len(Adds("pricing")) /\ Adds("pricing")[n] = p
      BY <1>3, <1>4, <1>5, <3>2, ConcatHas
    <3> QED BY <3>3
  <2>2. CASE p \in rs \X {"REAGENT"}
    <3>1. PICK x \in rs : p = <<x, "REAGENT">>
      BY <2>2
    <3>2. PICK n \in 1 .. Len(Pairs(rs, "REAGENT")) : Pairs(rs, "REAGENT")[n] = p
      BY <1>4, <3>1
    <3> QED BY <1>3, <1>4, <1>5, <3>2, ConcatHas
  <2> QED BY <1>6, <2>1, <2>2
<1>9. Adds("auctions") \in Seq(Add)
  BY DEF Adds
<1>10. Adds("premium") \in Seq(Add)
  <2>1. {i \in Known \cap OnAcquire : "REAGENT" \in ClassesOf(i)} \in SUBSET Items
    OBVIOUS
  <2>2. Adds("premium") = Pairs({i \in Known \cap OnAcquire : "REAGENT" \in ClassesOf(i)}, "PREMIUM")
    BY DEF Adds
  <2> QED BY <1>2, <2>1, <2>2, PairsAre
<1>11. Adds("vsp") \in Seq(Add)
  <2>1. {i \in Known \cap VendorPriced : itemsTable[i] # NULL /\ "VSP" \notin ClassesOf(i)} \in SUBSET Items
    OBVIOUS
  <2>2. Adds("vsp") = Pairs({i \in Known \cap VendorPriced : itemsTable[i] # NULL /\ "VSP" \notin ClassesOf(i)}, "VSP")
    BY DEF Adds
  <2> QED BY <1>2, <2>1, <2>2, PairsAre
<1>12. Adds("currency") \in Seq(Add)
  <2>1. Pairs(WowTokens, "WOWTOKEN") \in Seq(Add)
    BY <1>2, ItemsAssumption, PairsAre
  <2>2. <<<<Gold, "GOLD">>>> \in Seq(Add)
    BY <1>2, ItemsAssumption DEF Add
  <2>3. Adds("currency") = Pairs(WowTokens, "WOWTOKEN") \o <<<<Gold, "GOLD">>>>
    BY DEF Adds
  <2> QED BY <2>1, <2>2, <2>3, ConcatHas
<1> QED BY <1>7, <1>8, <1>9, <1>10, <1>11, <1>12

LEMMA StageIs ==
  ASSUME boot.at \in 1 .. 5
  PROVE  /\ Stage \in {"pricing", "auctions", "premium", "currency", "vsp"}
         /\ Stage = "pricing" <=> boot.at = 1
         /\ Stage = "auctions" <=> boot.at = 2
         /\ Len(Stages) = 5
BY DEF Stage, Stages

-----------------------------------------------------------------------------
(* No class is there twice.                                                *)

StageSteps == {"stage", "append", "find", "update", "mark"}

(* What the boot holds while it builds the classes of a stage.             *)
BootInv ==
  /\ {"step", "at"} \subseteq DOMAIN boot
  /\ boot.step \in StageSteps => boot.at \in 1 .. 5
  /\ boot.step = "append" => boot.at = 2
  /\ boot.step \in {"find", "update"} => "adds" \in DOMAIN boot /\ boot.adds \in Seq(Add)
  /\ boot.step = "update" => boot.item \in Known /\ IsList(boot.classes)

TablesInv ==
  /\ Known \subseteq Items
  /\ \A i \in Known : IsRow(itemsTable[i])

WorkerInv == worker # NoItem => worker.item \in Items /\ IsRow(worker.classes)

ValuationsInv ==
  /\ {"step", "at", "left"} \subseteq DOMAIN valuations
  /\ valuations.step \in {"off", "stage", "find", "save", "tags"}
  /\ valuations.step # "off" => valuations.at \in 1 .. 5
  /\ valuations.step \in {"find", "save", "tags"} => valuations.at \in 1 .. 4
  /\ valuations.step \in {"find", "save"} => \A a \in valuations.left : a[2] \in Seq(Classes)
  /\ valuations.step = "tags" => \A a \in valuations.left : a[1] \in Items /\ IsList(a[2])
  /\ valuations.step = "save" => valuations.item \in Known /\ IsList(valuations.classes)

(* Every writer holds a list without repetition, and so does every row.    *)
ClassesInv == BootInv /\ TablesInv /\ WorkerInv /\ ValuationsInv

(* The pricing phase leads to the first stage, never into one.             *)
LEMMA PricingMoves ==
  ASSUME {"step", "at"} \subseteq DOMAIN boot, PricingNext
  PROVE  \/ boot' = boot
         \/ /\ {"step", "at"} \subseteq DOMAIN boot'
            /\ boot'.step \notin {"append", "find", "update", "mark"}
            /\ boot'.step = "stage" => boot'.at = 1
<1> DEFINE Moves == \/ boot' = boot
                    \/ /\ {"step", "at"} \subseteq DOMAIN boot'
                       /\ boot'.step \notin {"append", "find", "update", "mark"}
                       /\ boot'.step = "stage" => boot'.at = 1
<1>1. \A n \in 0 .. 3 : boot' = PhaseAfter(n) => Moves
  BY NextPhase, PhaseSteps
<1>2. CASE IndexAtBoot \/ ClearLab
  BY <1>2 DEF IndexAtBoot, ClearLab
<1>3. CASE IndexingEnds \/ ClearFails \/ Crash
  <2>1. boot' \in {PhaseAfter(0), PhaseAfter(1), PhaseAfter(2), [step |-> "off", at |-> 1]}
    BY <1>3 DEF IndexingEnds, ClearFails, Crash, Booting
  <2> QED BY <2>1, <1>1
<1>4. CASE LabEnds \/ \E m \in Methods : SaveMethod(m) \/ SaveMethodFails(m)
  <2>1. boot' \in {boot, NextLab, PhaseAfter(2)}
    BY <1>4 DEF LabEnds, SaveMethod, SaveMethodFails
  <2>2. NextLab.step = "lab" /\ {"step", "at"} \subseteq DOMAIN NextLab
    BY DEF NextLab
  <2> QED BY <2>1, <2>2, <1>1
<1>5. CASE ProcessLabPricingMethod
  <2>1. boot.step = "lab" /\ boot' \in {[boot EXCEPT !.step = "saves"], [boot EXCEPT !.at = boot.at + 1]}
    BY <1>5 DEF ProcessLabPricingMethod, At
  <2> QED BY <2>1
<1>6. CASE ReadCsvFile \/ MarkFileAsProcessed \/ CsvFails
  <2>1. boot' = NextFile \/ boot' = [step |-> "rows", at |-> boot.at, content |-> bucket[File]]
    BY <1>6 DEF ReadCsvFile, MarkFileAsProcessed, CsvFails
  <2>2. boot' \in {[step |-> "csv", at |-> boot.at + 1], PhaseAfter(3)}
        \/ boot' = [step |-> "rows", at |-> boot.at, content |-> bucket[File]]
    BY <2>1 DEF NextFile
  <2> QED BY <2>2, <1>1
<1>7. CASE \/ IndexByCron \/ SaveRows \/ ExpireFile
           \/ \E p \in Threads : PricingExists(p) \/ SavePricing(p) \/ IndexingFails(p)
           \/ \E f \in Range(CsvFiles), v \in CsvVersions : UploadFile(f, v)
  BY <1>7 DEF IndexByCron, SaveRows, ExpireFile, PricingExists, SavePricing, IndexingFails, UploadFile
<1> QED BY <1>2, <1>3, <1>4, <1>5, <1>6, <1>7 DEF PricingNext

LEMMA PutIs ==
  ASSUME NEW i, NEW classes, Put(i, classes)
  PROVE  /\ Known' = Known \cup {i}
         /\ \A j \in Known' : itemsTable'[j] = IF j = i THEN classes ELSE itemsTable[j]
BY DEF Put, Known

LEMMA PutKeepsTables ==
  ASSUME TablesInv, NEW i \in Items, NEW classes, IsRow(classes), Put(i, classes)
  PROVE  TablesInv' /\ Known \subseteq Known'
BY PutIs DEF TablesInv

(* A step that leaves the table and the other writers alone.               *)
LEMMA BootStepKeeps ==
  ASSUME ClassesInv, UNCHANGED <<itemsTable, worker, valuations>>, BootInv'
  PROVE  ClassesInv'
BY DEF ClassesInv, TablesInv, WorkerInv, ValuationsInv, Known

LEMMA PricingKeepsClasses ==
  ASSUME ClassesInv, PricingNext, UNCHANGED classVars
  PROVE  ClassesInv'
<1>1. UNCHANGED <<itemsTable, worker, valuations>>
  BY DEF classVars
<1>2. CASE boot' = boot
  BY <1>1, <1>2, BootStepKeeps DEF ClassesInv, BootInv, Known
<1>3. CASE boot' # boot
  BY <1>1, <1>3, PricingMoves, BootStepKeeps DEF ClassesInv, BootInv, StageSteps
<1> QED BY <1>2, <1>3

LEMMA NextStageIs ==
  ASSUME boot.at \in 1 .. 5
  PROVE  /\ {"step", "at"} \subseteq DOMAIN NextStage
         /\ NextStage.step \in {"stage", "done"}
         /\ NextStage.step = "stage" => NextStage.at \in 1 .. 5
<1>1. CASE boot.at < Len(Stages)
  <2>1. NextStage = [step |-> "stage", at |-> boot.at + 1]
    BY <1>1 DEF NextStage
  <2>2. boot.at + 1 \in 1 .. 5
    BY <1>1 DEF Stages
  <2> QED BY <2>1, <2>2
<1>2. CASE ~(boot.at < Len(Stages))
  BY <1>2 DEF NextStage
<1> QED BY <1>1, <1>2

LEMMA ProcessedKeepsClasses ==
  ASSUME ClassesInv, IsStageProcessed \/ MarkStageAsProcessed
  PROVE  ClassesInv'
<1>1. UNCHANGED <<itemsTable, worker, valuations>>
  BY DEF IsStageProcessed, MarkStageAsProcessed, classVars
<1>2. boot.at \in 1 .. 5
  BY DEF IsStageProcessed, MarkStageAsProcessed, At, ClassesInv, BootInv, StageSteps
<1>3. \/ boot' = NextStage
      \/ Stage = "auctions" /\ boot' = [step |-> "append", at |-> boot.at, class |-> "MARKET"]
      \/ boot' = [step |-> "find", at |-> boot.at, adds |-> Adds(Stage)]
  BY DEF IsStageProcessed, MarkStageAsProcessed
<1>4. Adds(Stage) \in Seq(Add)
  BY <1>2, AddsAre, StageIs DEF ClassesInv, TablesInv
<1>5. CASE boot' = NextStage
  BY <1>1, <1>2, <1>5, NextStageIs, BootStepKeeps DEF BootInv, StageSteps
<1>6. CASE Stage = "auctions" /\ boot' = [step |-> "append", at |-> boot.at, class |-> "MARKET"]
  BY <1>1, <1>2, <1>6, StageIs, BootStepKeeps DEF BootInv, StageSteps
<1>7. CASE boot' = [step |-> "find", at |-> boot.at, adds |-> Adds(Stage)]
  BY <1>1, <1>2, <1>4, <1>7, BootStepKeeps DEF BootInv, StageSteps
<1> QED BY <1>3, <1>5, <1>6, <1>7

(* The rows an UPDATE reaches get the class behind those they have.        *)
LEMMA AppendIs ==
  ASSUME TablesInv, NEW c \in Classes, NEW ids, AppendClass(c, ids)
  PROVE  /\ TablesInv' /\ Known' = Known
         /\ \A i \in Known : ClassesOf(i) \subseteq ClassesIn(itemsTable'[i])
<1>1. Known' = Known
  BY DEF AppendClass, Known
<1>2. ASSUME NEW i \in Known
      PROVE  IsRow(itemsTable'[i]) /\ ClassesOf(i) \subseteq ClassesIn(itemsTable'[i])
  <2>1. itemsTable'[i] = IF i \in ids /\ itemsTable[i] # NULL /\ c \notin ClassesOf(i) THEN Append(itemsTable[i], c)
                         ELSE itemsTable[i]
    BY DEF AppendClass
  <2>2. IsRow(itemsTable[i]) /\ ClassesOf(i) = ClassesIn(itemsTable[i])
    BY DEF TablesInv, ClassesOf, ClassesIn
  <2>3. CASE i \in ids /\ itemsTable[i] # NULL /\ c \notin ClassesOf(i)
    BY <2>1, <2>2, <2>3, AppendIsList DEF IsRow, ClassesIn
  <2>4. CASE ~(i \in ids /\ itemsTable[i] # NULL /\ c \notin ClassesOf(i))
    BY <2>1, <2>2, <2>4
  <2> QED BY <2>3, <2>4
<1> QED BY <1>1, <1>2 DEF TablesInv

LEMMA AuctionsAppend ==
  ASSUME ClassesInv, AddAuctionClasses
  PROVE  /\ boot.step = "append" /\ boot.at = 2
         /\ {"step", "at"} \subseteq DOMAIN boot' /\ boot'.step \in {"append", "mark"} /\ boot'.at = 2
         /\ UNCHANGED <<staged, worker, valuations>>
         /\ \E c \in Classes : \E ids : AppendClass(c, ids)
<1>1. boot.step = "append" /\ boot.at = 2 /\ {"step", "at"} \subseteq DOMAIN boot
  BY DEF AddAuctionClasses, At, ClassesInv, BootInv
<1>2. {"MARKET", "COMMDTY", "ITEM"} \subseteq Classes
  BY DEF Classes
<1>3. \E c \in Classes : \E ids : AppendClass(c, ids)
  BY <1>2 DEF AddAuctionClasses
<1>4. \/ boot' = [boot EXCEPT !.class = "COMMDTY"]
      \/ boot' = [boot EXCEPT !.class = "ITEM"]
      \/ boot' = [step |-> "mark", at |-> boot.at]
  BY DEF AddAuctionClasses
<1> QED BY <1>1, <1>3, <1>4 DEF AddAuctionClasses

LEMMA AuctionsKeepClasses == ASSUME ClassesInv, AddAuctionClasses PROVE ClassesInv'
<1> QED BY AuctionsAppend, AppendIs DEF ClassesInv, BootInv, StageSteps, WorkerInv, ValuationsInv

LEMMA FindKeepsClasses == ASSUME ClassesInv, FindItem PROVE ClassesInv'
<1>1. UNCHANGED <<itemsTable, worker, valuations>>
  BY DEF FindItem, classVars
<1>2. boot.step = "find" /\ boot.at \in 1 .. 5 /\ boot.adds \in Seq(Add) /\ {"step", "at", "adds"} \subseteq DOMAIN boot
  BY DEF FindItem, At, ClassesInv, BootInv, StageSteps
<1>3. CASE boot.adds = <<>>
  <2>1. boot' = [step |-> "mark", at |-> boot.at]
    BY <1>3 DEF FindItem
  <2> QED BY <1>1, <1>2, <2>1, BootStepKeeps DEF BootInv, StageSteps
<1>4. CASE boot.adds # <<>>
  <2> DEFINE i == Head(boot.adds)[1]
             c == Head(boot.adds)[2]
             found == [step |-> "update", at |-> boot.at, adds |-> Tail(boot.adds),
                       item |-> i, classes |-> With(itemsTable[i], c)]
  <2>1. Head(boot.adds) \in Add /\ Tail(boot.adds) \in Seq(Add)
    BY <1>2, <1>4, HeadTailProperties
  <2>2. c \in Classes
    BY <2>1 DEF Add
  <2>3. boot' = IF i \notin Known \/ c \in ClassesOf(i) THEN [boot EXCEPT !.adds = Tail(boot.adds)] ELSE found
    BY <1>4 DEF FindItem
  <2> HIDE DEF i, c
  <2>4. CASE i \notin Known \/ c \in ClassesOf(i)
    <3>1. boot' = [boot EXCEPT !.adds = Tail(boot.adds)]
      BY <2>3, <2>4
    <3>2. /\ {"step", "at", "adds"} \subseteq DOMAIN boot' /\ boot'.step = "find" /\ boot'.at = boot.at
          /\ boot'.adds = Tail(boot.adds)
      BY <1>2, <3>1
    <3> QED BY <1>1, <1>2, <2>1, <3>2, BootStepKeeps DEF BootInv, StageSteps
  <2>5. CASE ~(i \notin Known \/ c \in ClassesOf(i))
    <3>1. boot' = found /\ i \in Known
      BY <2>3, <2>5
    <3>2. IsList(With(itemsTable[i], c))
      BY <2>2, <3>1, WithIsList DEF ClassesInv, TablesInv
    <3>3. /\ {"step", "at", "adds"} \subseteq DOMAIN boot' /\ boot'.step = "update" /\ boot'.at = boot.at
          /\ boot'.adds = Tail(boot.adds) /\ boot'.item = i /\ boot'.classes = With(itemsTable[i], c)
      BY <3>1
    <3>4. Known' = Known
      BY <1>1 DEF Known
    <3> QED BY <1>1, <1>2, <2>1, <3>1, <3>2, <3>3, <3>4, BootStepKeeps DEF BootInv, StageSteps
  <2> QED BY <2>4, <2>5
<1> QED BY <1>3, <1>4

LEMMA UpdateKeepsClasses == ASSUME ClassesInv, UpdateItem PROVE ClassesInv'
<1>1. /\ boot.step = "update" /\ boot.item \in Known /\ IsRow(boot.classes) /\ boot.adds \in Seq(Add)
      /\ boot.at \in 1 .. 5
  BY DEF UpdateItem, At, ClassesInv, BootInv, IsRow, StageSteps
<1>2. TablesInv' /\ Known \subseteq Known'
  BY <1>1, PutKeepsTables DEF UpdateItem, ClassesInv, TablesInv
<1>3. BootInv'
  BY <1>1 DEF UpdateItem, BootInv, StageSteps
<1> QED BY <1>2, <1>3 DEF UpdateItem, ClassesInv, WorkerInv, ValuationsInv

LEMMA WorkerKeepsClasses ==
  ASSUME ClassesInv, SaveByWorker \/ SaveGoldItem \/ \E i \in Items : FindForWorker(i)
  PROVE  ClassesInv'
<1>0. UNCHANGED <<boot, valuations>>
  BY DEF SaveByWorker, SaveGoldItem, FindForWorker, pricingVars
<1>1. CASE SaveByWorker
  <2>1. TablesInv' /\ Known \subseteq Known'
    BY <1>1, PutKeepsTables DEF SaveByWorker, ClassesInv, WorkerInv
  <2> QED BY <1>0, <1>1, <2>1 DEF SaveByWorker, ClassesInv, BootInv, WorkerInv, ValuationsInv
<1>2. CASE SaveGoldItem
  <2>1. IsRow(GoldItem)
    BY ListOfOne DEF GoldItem, IsRow, Classes
  <2>2. TablesInv' /\ Known \subseteq Known'
    BY <1>2, <2>1, PutKeepsTables, ItemsAssumption DEF SaveGoldItem, ClassesInv
  <2> QED BY <1>0, <1>2, <2>2 DEF SaveGoldItem, ClassesInv, BootInv, WorkerInv, ValuationsInv
<1>3. CASE \E i \in Items : FindForWorker(i)
  <2>1. PICK i \in Items : FindForWorker(i)
    BY <1>3
  <2>2. worker' = [step |-> "save", item |-> i, classes |-> Flagged(i, IF i \in Known THEN itemsTable[i] ELSE NULL)]
        /\ UNCHANGED itemsTable
    BY <2>1 DEF FindForWorker
  <2>3. IsRow(IF i \in Known THEN itemsTable[i] ELSE NULL)
    BY DEF ClassesInv, TablesInv, IsRow
  <2>4. IsRow(Flagged(i, IF i \in Known THEN itemsTable[i] ELSE NULL))
    <3>1. "VSP" \in Classes
      BY DEF Classes
    <3> QED BY <2>3, <3>1, WithIsList DEF Flagged, IsRow
  <2>5. WorkerInv'
    BY <2>2, <2>4 DEF WorkerInv
  <2> QED BY <1>0, <2>2, <2>5 DEF ClassesInv, BootInv, TablesInv, ValuationsInv, Known
<1> QED BY <1>1, <1>2, <1>3

LEMMA PushesAre ==
  ASSUME NEW n \in 1 .. 4, ValuationStages[n] # "tags", NEW a \in ClassesToPush(ValuationStages[n])
  PROVE  a[2] \in Seq(Classes)
<1>1. ValuationStages[n] \in {"pricing", "auctions", "currency", "tags"}
  BY DEF ValuationStages
<1>2. a[2] \in {<<"DERIVATIVE">>, <<"REAGENT">>, <<"MARKET", "COMMDTY">>, <<"WOWTOKEN">>, <<"GOLD">>}
  <2>1. CASE ValuationStages[n] = "pricing"
    <3> DEFINE ds == UNION {Derivatives[m] \X {<<"DERIVATIVE">>} : m \in There}
               rs == UNION {Reagents[m] \X {<<"REAGENT">>} : m \in There}
    <3>1. ClassesToPush("pricing") = ds \cup rs
      BY DEF ClassesToPush
    <3>2. ASSUME a \in ds PROVE a[2] = <<"DERIVATIVE">>
      <4>1. PICK m \in There : a \in Derivatives[m] \X {<<"DERIVATIVE">>}
        BY <3>2
      <4> QED BY <4>1
    <3>3. ASSUME a \in rs PROVE a[2] = <<"REAGENT">>
      <4>1. PICK m \in There : a \in Reagents[m] \X {<<"REAGENT">>}
        BY <3>3
      <4> QED BY <4>1
    <3> HIDE DEF ds, rs
    <3>4. a \in ds \/ a \in rs
      BY <2>1, <3>1
    <3> QED BY <3>2, <3>3, <3>4
  <2>2. CASE ValuationStages[n] = "auctions"
    BY <2>2 DEF ClassesToPush
  <2>3. CASE ValuationStages[n] = "currency"
    BY <2>3 DEF ClassesToPush
  <2> QED BY <1>1, <2>1, <2>2, <2>3
<1>3. {"DERIVATIVE", "REAGENT", "MARKET", "COMMDTY", "WOWTOKEN", "GOLD"} \subseteq Classes
  BY DEF Classes
<1>4. \A c, d \in Classes : <<c>> \in Seq(Classes) /\ <<c, d>> \in Seq(Classes)
  OBVIOUS
<1> QED BY <1>2, <1>3, <1>4

(* What is pushed to a row of the table gives a list.                      *)
LEMMA PushedIsList ==
  ASSUME TablesInv, NEW i \in Known, NEW cs \in Seq(Classes)
  PROVE  IsList(Pushed(i, cs))
<1>1. IsList(IF itemsTable[i] = NULL THEN <<>> ELSE itemsTable[i])
  BY EmptyList DEF TablesInv, IsRow
<1> QED BY <1>1, PushIsList DEF Pushed

(* A step of apps/valuations that leaves the table alone.                  *)
LEMMA ValuationsStepKeeps ==
  ASSUME ClassesInv, UNCHANGED <<boot, itemsTable, worker>>, ValuationsInv'
  PROVE  ClassesInv'
BY DEF ClassesInv, BootInv, TablesInv, WorkerInv, Known

LEMMA BeginStageKeeps == ASSUME ClassesInv, BeginStage PROVE ClassesInv'
<1>1. UNCHANGED <<boot, worker, itemsTable>>
  BY DEF BeginStage, pricingVars
<1>2. valuations.step = "stage" /\ valuations.at \in 1 .. 5 /\ {"step", "at", "left"} \subseteq DOMAIN valuations
      /\ ValuationsInv /\ TablesInv
  BY DEF BeginStage, ValuationsInv, ClassesInv
<1> DEFINE at == valuations.at
           rows == {<<i, Pushed(i, IF i \in VendorPriced THEN <<"VSP">> ELSE <<>>)>> : i \in Known}
<1>3. CASE at > Len(ValuationStages)
  <2>1. valuations' = [valuations EXCEPT !.step = "off"]
    <3> HIDE DEF rows
    <3> QED BY <1>2, <1>3 DEF BeginStage, ValuationStages
  <2> QED BY <1>1, <1>2, <2>1, ValuationsStepKeeps DEF ValuationsInv
<1>4. CASE at \in 1 .. 4 /\ ValuationStages[at] = "tags"
  <2>1. valuations' = [step |-> "tags", at |-> at, left |-> rows]
    BY <1>4 DEF BeginStage, ValuationStages
  <2>2. ASSUME NEW a \in rows PROVE a[1] \in Items /\ IsList(a[2])
    <3>1. PICK i \in Known : a = <<i, Pushed(i, IF i \in VendorPriced THEN <<"VSP">> ELSE <<>>)>>
      OBVIOUS
    <3>2. <<"VSP">> \in Seq(Classes) /\ <<>> \in Seq(Classes)
      BY DEF Classes
    <3>3. IsList(Pushed(i, IF i \in VendorPriced THEN <<"VSP">> ELSE <<>>))
      BY <1>2, <3>2, PushedIsList
    <3> QED BY <1>2, <3>1, <3>3 DEF TablesInv
  <2> HIDE DEF rows
  <2>3. ValuationsInv'
    BY <1>4, <2>1, <2>2 DEF ValuationsInv
  <2> QED BY <1>1, <2>3, ValuationsStepKeeps
<1>5. CASE at \in 1 .. 4 /\ ValuationStages[at] # "tags"
  <2>1. valuations' = [step |-> "find", at |-> at, left |-> ClassesToPush(ValuationStages[at])]
    BY <1>5 DEF BeginStage, ValuationStages
  <2>2. \A a \in ClassesToPush(ValuationStages[at]) : a[2] \in Seq(Classes)
    BY <1>5, PushesAre
  <2>3. ValuationsInv'
    BY <1>5, <2>1, <2>2 DEF ValuationsInv
  <2> QED BY <1>1, <2>3, ValuationsStepKeeps
<1>6. at > Len(ValuationStages) \/ at \in 1 .. 4
  BY <1>2 DEF ValuationStages
<1> QED BY <1>3, <1>4, <1>5, <1>6

LEMMA FindToPushKeeps == ASSUME ClassesInv, FindToPush PROVE ClassesInv'
<1>1. UNCHANGED <<boot, worker, itemsTable>> /\ Known' = Known
  BY DEF FindToPush, pricingVars, Known
<1>2. /\ valuations.step = "find" /\ valuations.at \in 1 .. 4
      /\ {"step", "at", "left"} \subseteq DOMAIN valuations /\ ValuationsInv /\ TablesInv
  BY DEF FindToPush, ValuationsInv, ClassesInv
<1>3. PICK push \in valuations.left :
        LET rest == valuations.left \ {push} IN
          \/ valuations' = [valuations EXCEPT !.left = rest]
          \/ \E i \in Known :
               valuations' = [step |-> "save", at |-> valuations.at, left |-> rest,
                              item |-> i, classes |-> Pushed(i, push[2])]
  BY DEF FindToPush, Found
<1> DEFINE rest == valuations.left \ {push}
<1>4. push[2] \in Seq(Classes) /\ \A a \in rest : a[2] \in Seq(Classes)
  BY <1>2 DEF ValuationsInv
<1>5. CASE valuations' = [valuations EXCEPT !.left = rest]
  <2>1. /\ {"step", "at", "left"} \subseteq DOMAIN valuations'
        /\ valuations'.step = "find" /\ valuations'.at = valuations.at /\ valuations'.left = rest
    BY <1>2, <1>5
  <2>2. ValuationsInv'
    BY <1>2, <1>4, <2>1 DEF ValuationsInv
  <2> QED BY <1>1, <2>2, ValuationsStepKeeps
<1>6. CASE \E i \in Known :
             valuations' = [step |-> "save", at |-> valuations.at, left |-> rest,
                            item |-> i, classes |-> Pushed(i, push[2])]
  <2>1. PICK i \in Known :
          valuations' = [step |-> "save", at |-> valuations.at, left |-> rest,
                         item |-> i, classes |-> Pushed(i, push[2])]
    BY <1>6
  <2>2. IsList(Pushed(i, push[2]))
    BY <1>2, <1>4, PushedIsList
  <2> HIDE DEF rest
  <2>3. ValuationsInv'
    BY <1>1, <1>2, <1>4, <2>1, <2>2 DEF ValuationsInv
  <2> QED BY <1>1, <2>3, ValuationsStepKeeps
<1> QED BY <1>3, <1>5, <1>6

LEMMA ValuationsSavesKeep == ASSUME ClassesInv, SavePushed \/ SaveTagged PROVE ClassesInv'
<1>1. UNCHANGED <<boot, worker>> /\ ValuationsInv /\ TablesInv
  BY DEF SavePushed, SaveTagged, pricingVars, ClassesInv
<1>2. CASE SavePushed
  <2>1. valuations.step = "save" /\ valuations.at \in 1 .. 4 /\ valuations.item \in Items /\ IsRow(valuations.classes)
    BY <1>1, <1>2 DEF SavePushed, ValuationsInv, TablesInv, IsRow
  <2>2. TablesInv' /\ Known \subseteq Known'
    BY <1>1, <1>2, <2>1, PutKeepsTables DEF SavePushed
  <2>3. ValuationsInv'
    BY <1>1, <1>2, <2>1 DEF SavePushed, ValuationsInv
  <2> QED BY <1>1, <2>2, <2>3 DEF ClassesInv, BootInv, WorkerInv
<1>3. CASE SaveTagged
  <2>1. PICK row \in valuations.left :
          Put(row[1], row[2]) /\ valuations' = [valuations EXCEPT !.left = valuations.left \ {row}]
    BY <1>3 DEF SaveTagged
  <2>2. valuations.step = "tags" /\ valuations.at \in 1 .. 4 /\ {"step", "at", "left"} \subseteq DOMAIN valuations
        /\ \A a \in valuations.left : a[1] \in Items /\ IsList(a[2])
    BY <1>1, <1>3 DEF SaveTagged, ValuationsInv
  <2>3. TablesInv' /\ Known \subseteq Known'
    BY <1>1, <2>1, <2>2, PutKeepsTables DEF IsRow
  <2>4. /\ {"step", "at", "left"} \subseteq DOMAIN valuations' /\ valuations'.step = "tags"
        /\ valuations'.at = valuations.at /\ valuations'.left \subseteq valuations.left
    BY <2>1, <2>2
  <2>5. ValuationsInv'
    BY <2>2, <2>4 DEF ValuationsInv
  <2> QED BY <1>1, <2>3, <2>5 DEF ClassesInv, BootInv, WorkerInv
<1> QED BY <1>2, <1>3

LEMMA StageEndsKeeps == ASSUME ClassesInv, StageEnds PROVE ClassesInv'
<1>1. UNCHANGED <<boot, worker, itemsTable>>
  BY DEF StageEnds, pricingVars
<1>2. valuations.at \in 1 .. 4 /\ valuations' = [step |-> "stage", at |-> valuations.at + 1, left |-> {}]
  BY DEF StageEnds, ClassesInv, ValuationsInv
<1>3. ValuationsInv'
  BY <1>2 DEF ValuationsInv
<1> QED BY <1>1, <1>3, ValuationsStepKeeps

LEMMA FailureKeepsClasses == ASSUME ClassesInv, BuildFails PROVE ClassesInv'
<1>1. UNCHANGED <<itemsTable, worker>> /\ Known' = Known
  BY DEF BuildFails, Known
<1>2. CASE UNCHANGED valuations /\ boot' = [step |-> "done", at |-> 1]
  <2>1. BootInv'
    BY <1>2 DEF BootInv, StageSteps
  <2> QED BY <1>1, <1>2, <2>1, BootStepKeeps
<1>3. CASE UNCHANGED boot /\ valuations' = [step |-> "off", at |-> 1, left |-> {}]
  <2>1. ValuationsInv'
    BY <1>3 DEF ValuationsInv
  <2> QED BY <1>1, <1>3, <2>1, ValuationsStepKeeps
<1> QED BY <1>2, <1>3 DEF BuildFails

LEMMA ValuationsKeepClasses ==
  ASSUME ClassesInv, BeginStage \/ FindToPush \/ SavePushed \/ SaveTagged \/ StageEnds \/ BuildFails
  PROVE  ClassesInv'
BY BeginStageKeeps, FindToPushKeeps, ValuationsSavesKeep, StageEndsKeeps, FailureKeepsClasses

LEMMA ClassesInitInv == ASSUME ClassesInit PROVE ClassesInv
<1>1. BootInv
  <2>1. boot = PhaseAfter(0) \/ boot = [step |-> "off", at |-> 1]
    BY DEF ClassesInit, PricingInit, Booting
  <2> QED BY <2>1, NextPhase, PhaseSteps DEF BootInv, StageSteps
<1>2. TablesInv
  BY ItemsAssumption DEF ClassesInit, AssetClassesInit, TablesInv, IsRow, Known
<1>3. WorkerInv /\ ValuationsInv
  BY DEF ClassesInit, AssetClassesInit, WorkerInv, ValuationsInv
<1> QED BY <1>1, <1>2, <1>3 DEF ClassesInv

LEMMA NextKeepsClasses == ASSUME ClassesInv, [ClassesNext]_<<pricingVars, classVars>> PROVE ClassesInv'
<1>1. CASE PricingNext /\ UNCHANGED classVars
  BY <1>1, PricingKeepsClasses
<1>2. CASE AssetClassesNext
  BY <1>2, ProcessedKeepsClasses, AuctionsKeepClasses, FindKeepsClasses, UpdateKeepsClasses, WorkerKeepsClasses,
     ValuationsKeepClasses DEF AssetClassesNext
<1>3. CASE UNCHANGED <<pricingVars, classVars>>
  <2>1. UNCHANGED <<boot, itemsTable, worker, valuations>>
    BY <1>3 DEF pricingVars, classVars
  <2> QED BY <2>1, BootStepKeeps DEF ClassesInv, BootInv, Known
<1> QED BY <1>1, <1>2, <1>3 DEF ClassesNext

-----------------------------------------------------------------------------
(* The stages that are marked are built.                                   *)

Alone == running \cap {"items", "valuations"} = {} /\ ~labFailed

(* Who does not run has nothing to save.                                   *)
IdleInv == running \cap {"items", "valuations"} = {} => worker = NoItem /\ valuations.step = "off"

(* Only the laboratory at hand saves methods.                              *)
SavingInv ==
  ~labFailed => /\ boot.step = "saves" => saving \subseteq LabMethods[Labs[boot.at]]
                /\ boot.step # "saves" => saving = {}

(* No row was touched, and no state marked, later than the last write.     *)
ClockInv ==
  /\ written \in Nat
  /\ {"recipes", "methods"} \subseteq DOMAIN touched
  /\ touched.recipes \in 0 .. written /\ touched.methods \in 0 .. written
  /\ \A k \in staged : k[1] = "pricing" => k[2][2] \in 0 .. written

Has(p) == p[1] \in Known => p[2] \in ClassesOf(p[1])
ToAdd(p) == \E n \in 1 .. Len(boot.adds) : boot.adds[n] = p
Held(p) == p[1] = boot.item /\ p[2] \in ClassesIn(boot.classes)

(* While the boot is the only writer, what it holds of a row has all the   *)
(* row has, and each class that is named is in its row or still to come.   *)
(* A state with the table's last change was marked when all were there.    *)
StagesInv ==
  Alone =>
    /\ boot.step = "find" /\ boot.at = 1 => \A p \in Named : Has(p) \/ ToAdd(p)
    /\ boot.step = "update" /\ boot.at = 1 => \A p \in Named : Has(p) \/ ToAdd(p) \/ Held(p)
    /\ boot.step = "update" => ClassesOf(boot.item) \subseteq ClassesIn(boot.classes)
    /\ boot.step = "mark" /\ boot.at = 1 => \A p \in Named : Has(p)
    /\ \A k \in staged : k[1] = "pricing" /\ k[2][2] = LastTouch => \A p \in Named : Has(p)

LEMMA MaxOfTwo ==
  ASSUME NEW a \in Nat, NEW b \in Nat
  PROVE  Max({a, b}) = IF a >= b THEN a ELSE b
<1>1. CASE a >= b
  <2>1. a \in {a, b} /\ \A y \in {a, b} : a >= y
    BY <1>1
  <2>2. \A x \in {a, b} : (\A y \in {a, b} : x >= y) => x = a
    BY <1>1
  <2> QED BY <1>1, <2>1, <2>2 DEF Max
<1>2. CASE ~(a >= b)
  <2>1. b \in {a, b} /\ \A y \in {a, b} : b >= y
    BY <1>2
  <2>2. \A x \in {a, b} : (\A y \in {a, b} : x >= y) => x = b
    BY <1>2
  <2> QED BY <1>2, <2>1, <2>2 DEF Max
<1> QED BY <1>1, <1>2

(* A step that leaves the tables alone and is in no stage.                 *)
LEMMA BesideStages ==
  ASSUME StagesInv, Alone' => Alone,
         UNCHANGED <<methods, touched, itemsTable>>, staged' \subseteq staged,
         boot' = boot \/ boot'.step \notin {"find", "update", "mark"}
  PROVE  StagesInv'
<1> SUFFICES ASSUME Alone, Alone' PROVE StagesInv'
  BY DEF StagesInv
<1>1. Named' = Named /\ LastTouch' = LastTouch /\ Known' = Known
  BY DEF Named, There, LastTouch, Known
<1>2. CASE boot' = boot
  BY <1>1, <1>2 DEF StagesInv, Has, ToAdd, Held, ClassesOf
<1>3. CASE boot'.step \notin {"find", "update", "mark"}
  BY <1>1, <1>3 DEF StagesInv, Has, ClassesOf
<1> QED BY <1>2, <1>3

(* A write to the pricing table makes every marked state an old one.       *)
LEMMA WriteAges ==
  ASSUME StagesInv, ClockInv, Alone' => Alone,
         UNCHANGED <<boot, itemsTable, staged>>,
         LastTouch' = written + 1,
         UNCHANGED methods \/ boot.step \notin {"find", "update", "mark"}
  PROVE  StagesInv'
<1> SUFFICES ASSUME Alone, Alone' PROVE StagesInv'
  BY DEF StagesInv
<1>1. \A k \in staged : k[1] = "pricing" => k[2][2] # LastTouch'
  BY DEF ClockInv
<1>2. Known' = Known
  BY DEF Known
<1>3. CASE UNCHANGED methods
  <2>1. Named' = Named
    BY <1>3 DEF Named, There
  <2> QED BY <1>1, <1>2, <2>1 DEF StagesInv, Has, ToAdd, Held, ClassesOf
<1>4. CASE boot.step \notin {"find", "update", "mark"}
  BY <1>1, <1>4 DEF StagesInv
<1> QED BY <1>3, <1>4

(* The valuations phase goes from stage to stage.                          *)
LEMMA StageMoves ==
  ASSUME ClassesInv, AssetClassesNext
  PROVE  /\ {"step", "at"} \subseteq DOMAIN boot'
         /\ boot' = boot \/ (boot.step \in StageSteps /\ boot'.step \in StageSteps \cup {"done"})
<1>1. {"step", "at"} \subseteq DOMAIN boot
  BY DEF ClassesInv, BootInv
<1>2. CASE UNCHANGED boot
  BY <1>1, <1>2
<1>3. CASE IsStageProcessed \/ MarkStageAsProcessed
  <2>1. boot.step \in {"stage", "mark"}
    BY <1>3 DEF IsStageProcessed, MarkStageAsProcessed, At
  <2>2. boot.at \in 1 .. 5
    BY <2>1 DEF ClassesInv, BootInv, StageSteps
  <2>3. \/ boot' = NextStage
        \/ boot' = [step |-> "append", at |-> boot.at, class |-> "MARKET"]
        \/ boot' = [step |-> "find", at |-> boot.at, adds |-> Adds(Stage)]
    BY <1>3 DEF IsStageProcessed, MarkStageAsProcessed
  <2> QED BY <2>1, <2>2, <2>3, NextStageIs DEF StageSteps
<1>4. CASE AddAuctionClasses
  BY <1>4, AuctionsAppend DEF StageSteps
<1>5. CASE FindItem
  <2>1. boot.step = "find"
    BY <1>5 DEF FindItem, At
  <2>2. PICK tail, found :
          /\ found.step = "update" /\ {"step", "at"} \subseteq DOMAIN found
          /\ boot' \in {[step |-> "mark", at |-> boot.at], [boot EXCEPT !.adds = tail], found}
    <3> DEFINE i == Head(boot.adds)[1]
               c == Head(boot.adds)[2]
               found == [step |-> "update", at |-> boot.at, adds |-> Tail(boot.adds),
                         item |-> i, classes |-> With(itemsTable[i], c)]
    <3>1. boot' \in {[step |-> "mark", at |-> boot.at], [boot EXCEPT !.adds = Tail(boot.adds)], found}
      BY <1>5 DEF FindItem
    <3>2. found.step = "update" /\ {"step", "at"} \subseteq DOMAIN found
      OBVIOUS
    <3> HIDE DEF found
    <3> QED BY <3>1, <3>2
  <2> QED BY <1>1, <2>1, <2>2 DEF StageSteps
<1>6. CASE UpdateItem
  BY <1>6 DEF UpdateItem, At, StageSteps
<1>7. CASE BuildFails
  <2>1. boot' = boot \/ (boot.step \in StageSteps /\ boot' = [step |-> "done", at |-> 1])
    BY <1>7 DEF BuildFails, StageSteps
  <2> QED BY <1>1, <2>1
<1> QED BY <1>2, <1>3, <1>4, <1>5, <1>6, <1>7 DEF AssetClassesNext, SaveByWorker, SaveGoldItem, BeginStage, FindToPush,
       SavePushed, SaveTagged, StageEnds, FindForWorker, pricingVars

-----------------------------------------------------------------------------
(* The clock.                                                              *)

LEMMA ClockStays ==
  ASSUME ClockInv, UNCHANGED <<written, touched>>, staged' \subseteq staged
  PROVE  ClockInv'
BY DEF ClockInv

LEMMA WriteIs ==
  ASSUME ClockInv, UNCHANGED staged, written' = written + 1,
         \/ touched' = [touched EXCEPT !.recipes = written + 1]
         \/ touched' = [touched EXCEPT !.methods = written + 1]
  PROVE  ClockInv' /\ LastTouch' = written + 1
<1>1. written \in Nat /\ {"recipes", "methods"} \subseteq DOMAIN touched
      /\ touched.recipes \in 0 .. written /\ touched.methods \in 0 .. written
  BY DEF ClockInv
<1>2. /\ {"recipes", "methods"} \subseteq DOMAIN touched'
      /\ \/ touched'.recipes = written + 1 /\ touched'.methods = touched.methods
         \/ touched'.methods = written + 1 /\ touched'.recipes = touched.recipes
  BY <1>1
<1>3. touched'.recipes \in 0 .. written' /\ touched'.methods \in 0 .. written' /\ written' \in Nat
  BY <1>1, <1>2
<1>4. ClockInv'
  BY <1>1, <1>2, <1>3 DEF ClockInv
<1>5. LastTouch' = IF touched'.recipes >= touched'.methods THEN touched'.recipes ELSE touched'.methods
  BY <1>3, MaxOfTwo DEF LastTouch
<1> QED BY <1>1, <1>2, <1>4, <1>5

LEMMA PricingKeepsClock ==
  ASSUME ClockInv, PricingNext, UNCHANGED classVars
  PROVE  ClockInv'
<1>1. UNCHANGED staged
  BY DEF classVars
<1>2. CASE UNCHANGED <<written, touched>>
  BY <1>1, <1>2, ClockStays
<1>3. CASE ClearLab
  BY <1>1, <1>3 DEF ClearLab, ClockInv
<1>4. CASE (\E p \in Threads : SavePricing(p)) \/ \E m \in Methods : SaveMethod(m)
  BY <1>1, <1>4, WriteIs DEF SavePricing, SaveMethod
<1>5. CASE \/ IndexAtBoot \/ IndexByCron \/ IndexingEnds \/ ClearFails \/ ProcessLabPricingMethod \/ LabEnds
           \/ ReadCsvFile \/ SaveRows \/ MarkFileAsProcessed \/ CsvFails \/ ExpireFile \/ Crash
           \/ (\E p \in Threads : PricingExists(p) \/ IndexingFails(p))
           \/ (\E m \in Methods : SaveMethodFails(m))
           \/ (\E f \in Range(CsvFiles), v \in CsvVersions : UploadFile(f, v))
  <2>1. UNCHANGED <<written, touched>>
    BY <1>5 DEF IndexAtBoot, IndexByCron, IndexingEnds, ClearFails, ProcessLabPricingMethod, LabEnds, ReadCsvFile, SaveRows,
                MarkFileAsProcessed, CsvFails, ExpireFile, Crash, PricingExists, IndexingFails, SaveMethodFails,
                UploadFile, labVars
  <2> QED BY <1>2, <2>1
<1> QED BY <1>3, <1>4, <1>5 DEF PricingNext

(* The key of the pricing stage has the table's last change in it.         *)
LEMMA StateIs == StateOf("pricing")[2] = LastTouch
BY DEF StateOf

LEMMA StageKeepsClock ==
  ASSUME ClockInv, AssetClassesNext
  PROVE  ClockInv'
<1>1. UNCHANGED <<written, touched>>
  BY DEF AssetClassesNext, IsStageProcessed, AddAuctionClasses, FindItem, UpdateItem, MarkStageAsProcessed,
         SaveByWorker, SaveGoldItem, BuildFails, BeginStage, FindToPush, SavePushed, SaveTagged, StageEnds,
         FindForWorker, pricingVars, labVars
<1>2. CASE MarkStageAsProcessed
  <2>1. staged' = staged \cup {<<Stage, StateOf(Stage)>>}
    BY <1>2 DEF MarkStageAsProcessed
  <2>2. LastTouch \in 0 .. written
    BY MaxOfTwo DEF ClockInv, LastTouch
  <2>3. ASSUME NEW k \in staged', k[1] = "pricing" PROVE k[2][2] \in 0 .. written
    <3>1. CASE k \in staged
      BY <2>3, <3>1 DEF ClockInv
    <3>2. CASE k = <<Stage, StateOf(Stage)>>
      <4>1. k[2] = StateOf("pricing")
        BY <2>3, <3>2
      <4> QED BY <2>2, <4>1, StateIs
    <3> QED BY <2>1, <3>1, <3>2
  <2> QED BY <1>1, <2>3 DEF ClockInv
<1>3. CASE ~MarkStageAsProcessed
  <2>1. UNCHANGED staged
    BY <1>3 DEF AssetClassesNext, IsStageProcessed, AddAuctionClasses, FindItem, UpdateItem,
           SaveByWorker, SaveGoldItem, BuildFails, BeginStage, FindToPush, SavePushed, SaveTagged, StageEnds,
         FindForWorker, classVars
  <2> QED BY <1>1, <2>1, ClockStays
<1> QED BY <1>2, <1>3

-----------------------------------------------------------------------------
(* The saves of the laboratories.                                          *)

LEMMA SavingStays ==
  ASSUME SavingInv, UNCHANGED saving, labFailed => labFailed',
         boot' = boot \/ (boot.step # "saves" /\ boot'.step # "saves")
  PROVE  SavingInv'
BY DEF SavingInv

LEMMA PricingKeepsSaving ==
  ASSUME SavingInv, BeforeLab, {"step", "at"} \subseteq DOMAIN boot, PricingNext
  PROVE  SavingInv'
<1>1. CASE Crash
  BY <1>1 DEF Crash, SavingInv
<1>2. CASE ProcessLabPricingMethod
  <2>1. boot.step = "lab" /\ UNCHANGED labFailed
    BY <1>2 DEF ProcessLabPricingMethod, At
  <2>2. ~labFailed => saving = {}
    BY <2>1 DEF SavingInv
  <2>3. CASE Labs[boot.at] \in EnabledLabs
    <3>1. saving' = saving \cup LabMethods[Labs[boot.at]] /\ boot' = [boot EXCEPT !.step = "saves"]
      BY <1>2, <2>3 DEF ProcessLabPricingMethod
    <3>2. boot'.step = "saves" /\ boot'.at = boot.at
      BY <3>1
    <3> QED BY <2>1, <2>2, <3>1, <3>2 DEF SavingInv
  <2>4. CASE Labs[boot.at] \notin EnabledLabs
    <3>1. saving' = saving /\ boot' = [boot EXCEPT !.at = boot.at + 1]
      BY <1>2, <2>4 DEF ProcessLabPricingMethod
    <3>2. boot'.step = "lab"
      BY <2>1, <3>1
    <3> QED BY <2>1, <3>1, <3>2, SavingStays
  <2> QED BY <2>3, <2>4
<1>3. CASE \E m \in Methods : SaveMethod(m) \/ SaveMethodFails(m)
  BY <1>3 DEF SaveMethod, SaveMethodFails, SavingInv
<1>4. CASE LabEnds
  <2>1. UNCHANGED <<saving, labFailed>>
    BY <1>4 DEF LabEnds, labVars
  <2>2. CASE boot.step = "saves" /\ saving \cap LabMethods[Labs[boot.at]] = {}
    BY <2>1, <2>2 DEF SavingInv
  <2>3. CASE boot.step = "lab" /\ boot' = PhaseAfter(2)
    <3>1. boot'.step # "saves"
      BY <2>3, PhaseSteps
    <3> QED BY <2>1, <2>3, <3>1, SavingStays
  <2> QED BY <1>4, <2>2, <2>3 DEF LabEnds, At
<1>5. CASE \/ IndexByCron \/ SaveRows \/ ExpireFile
           \/ \E p \in Threads : PricingExists(p) \/ SavePricing(p) \/ IndexingFails(p)
           \/ \E f \in Range(CsvFiles), v \in CsvVersions : UploadFile(f, v)
  <2>1. UNCHANGED <<boot, saving, labFailed>>
    BY <1>5 DEF IndexByCron, SaveRows, ExpireFile, PricingExists, SavePricing, IndexingFails, UploadFile, labVars
  <2> QED BY <2>1, SavingStays
<1>6. CASE IndexAtBoot
  <2>1. UNCHANGED <<saving, labFailed>> /\ boot.step # "saves"
    BY <1>6 DEF IndexAtBoot, At, labVars
  <2>2. boot'.step # "saves"
    BY <1>6 DEF IndexAtBoot
  <2> QED BY <2>1, <2>2, SavingStays
<1>8. CASE ClearLab
  <2>1. boot.step = "clear" /\ UNCHANGED saving /\ boot'.step = "lab"
    BY <1>8 DEF ClearLab, At
  <2> QED BY <2>1 DEF SavingInv, BeforeLab
<1>9. CASE ClearFails
  BY <1>9 DEF ClearFails, SavingInv
<1>7. CASE IndexingEnds \/ ReadCsvFile \/ MarkFileAsProcessed \/ CsvFails
  <2>1. UNCHANGED <<saving, labFailed>> /\ boot.step # "saves"
    BY <1>7 DEF IndexingEnds, ReadCsvFile, MarkFileAsProcessed, CsvFails, At, labVars
  <2>2. \/ boot' \in {PhaseAfter(1), PhaseAfter(3), [step |-> "csv", at |-> boot.at + 1]}
        \/ boot' = [step |-> "rows", at |-> boot.at, content |-> bucket[File]]
    BY <1>7 DEF IndexingEnds, ReadCsvFile, MarkFileAsProcessed, CsvFails, NextFile
  <2>3. boot'.step # "saves"
    BY <2>2, PhaseSteps
  <2> QED BY <2>1, <2>3, SavingStays
<1> QED BY <1>1, <1>2, <1>3, <1>4, <1>5, <1>6, <1>7, <1>8, <1>9 DEF PricingNext

LEMMA StageKeepsSaving ==
  ASSUME SavingInv, ClassesInv, AssetClassesNext
  PROVE  SavingInv'
<1>1. UNCHANGED <<saving, labFailed>>
  BY DEF AssetClassesNext, IsStageProcessed, AddAuctionClasses, FindItem, UpdateItem, MarkStageAsProcessed,
         SaveByWorker, SaveGoldItem, BuildFails, BeginStage, FindToPush, SavePushed, SaveTagged, StageEnds,
         FindForWorker, pricingVars, labVars
<1>2. boot' = boot \/ (boot.step \in StageSteps /\ boot'.step \in StageSteps \cup {"done"})
  BY StageMoves
<1> QED BY <1>1, <1>2, SavingStays DEF StageSteps

-----------------------------------------------------------------------------
(* The stages.                                                             *)

LEMMA PricingKeepsStages ==
  ASSUME StagesInv, ClockInv, SavingInv, ClassesInv, PricingNext, UNCHANGED classVars
  PROVE  StagesInv'
<1>1. UNCHANGED <<itemsTable, staged, worker, valuations>>
  BY DEF classVars
<1>2. boot' = boot \/ boot'.step \notin {"find", "update", "mark"}
  BY PricingMoves DEF ClassesInv, BootInv
<1>4. CASE ClearLab
  <2>1. Named' = {} /\ boot'.step = "lab"
    BY <1>4 DEF ClearLab, Named, There
  <2> QED BY <2>1 DEF StagesInv
<1>5. CASE \E p \in Threads : SavePricing(p)
  <2>1. LastTouch' = written + 1
    BY <1>1, <1>5, WriteIs DEF SavePricing
  <2>2. Alone' => Alone
    BY <1>5 DEF SavePricing, Alone
  <2> QED BY <1>1, <1>5, <2>1, <2>2, WriteAges DEF SavePricing
<1>6. CASE \E m \in Methods : SaveMethod(m)
  <2>1. LastTouch' = written + 1 /\ UNCHANGED <<boot, running, labFailed>>
    BY <1>1, <1>6, WriteIs DEF SaveMethod
  <2>4. Alone' => Alone
    BY <2>1 DEF Alone
  <2>2. CASE ~labFailed
    <3>1. boot.step = "saves"
      BY <1>6, <2>2 DEF SaveMethod, SavingInv
    <3> QED BY <1>1, <2>1, <2>4, <3>1, WriteAges
  <2>3. CASE labFailed
    BY <2>1, <2>3 DEF StagesInv, Alone
  <2> QED BY <2>2, <2>3
<1>7. CASE \/ IndexAtBoot \/ IndexByCron \/ IndexingEnds \/ ClearFails \/ ProcessLabPricingMethod \/ LabEnds
           \/ ReadCsvFile \/ SaveRows \/ MarkFileAsProcessed \/ CsvFails \/ ExpireFile \/ Crash
           \/ (\E p \in Threads : PricingExists(p) \/ IndexingFails(p))
           \/ (\E m \in Methods : SaveMethodFails(m))
           \/ (\E f \in Range(CsvFiles), v \in CsvVersions : UploadFile(f, v))
  <2>1. UNCHANGED <<methods, touched>> /\ (Alone' => Alone)
    <3>1. CASE ClearFails \/ \E m \in Methods : SaveMethodFails(m)
      BY <3>1 DEF ClearFails, SaveMethodFails, Alone
    <3>2. CASE \/ IndexAtBoot \/ IndexByCron \/ IndexingEnds \/ LabEnds \/ ReadCsvFile
               \/ SaveRows \/ MarkFileAsProcessed \/ ExpireFile
               \/ (\E p \in Threads : PricingExists(p))
               \/ (\E f \in Range(CsvFiles), v \in CsvVersions : UploadFile(f, v))
      <4>1. UNCHANGED <<running, methods, touched, labFailed>>
        BY <3>2 DEF IndexAtBoot, IndexByCron, IndexingEnds, LabEnds, ReadCsvFile, SaveRows, MarkFileAsProcessed,
                    ExpireFile, PricingExists, UploadFile, labVars
      <4> QED BY <4>1 DEF Alone
    <3>3. CASE \/ ProcessLabPricingMethod \/ CsvFails \/ Crash \/ \E p \in Threads : IndexingFails(p)
      <4>1. UNCHANGED <<running, methods, touched, labFailed>>
        BY <3>3 DEF ProcessLabPricingMethod, CsvFails, Crash, IndexingFails
      <4> QED BY <4>1 DEF Alone
    <3> QED BY <1>7, <3>1, <3>2, <3>3
  <2> QED BY <1>1, <1>2, <2>1, BesideStages
<1> QED BY <1>4, <1>5, <1>6, <1>7 DEF PricingNext

LEMMA StageStepIs ==
  ASSUME AssetClassesNext
  PROVE  UNCHANGED <<running, methods, touched, written, labFailed>> /\ (Alone' <=> Alone)
BY DEF AssetClassesNext, IsStageProcessed, AddAuctionClasses, FindItem, UpdateItem, MarkStageAsProcessed,
       SaveByWorker, SaveGoldItem, BuildFails, BeginStage, FindToPush, SavePushed, SaveTagged, StageEnds,
         FindForWorker, pricingVars, labVars,
       Alone

(* The items worker, the gold item and apps/valuations have nothing to do. *)
LEMMA OthersKeepStages ==
  ASSUME StagesInv, IdleInv, AssetClassesNext,
         \/ SaveByWorker \/ SaveGoldItem \/ BeginStage \/ FindToPush \/ SavePushed \/ SaveTagged \/ StageEnds
         \/ \E i \in Items : FindForWorker(i)
  PROVE  StagesInv'
<1> SUFFICES ASSUME Alone PROVE FALSE
  BY StageStepIs DEF StagesInv
<1>1. worker = NoItem /\ valuations.step = "off"
  BY DEF IdleInv, Alone
<1> QED BY <1>1 DEF SaveByWorker, SaveGoldItem, BeginStage, FindToPush, SavePushed, SaveTagged, StageEnds,
                    FindForWorker, Alone

LEMMA FailureKeepsStages ==
  ASSUME StagesInv, AssetClassesNext, BuildFails
  PROVE  StagesInv'
<1>1. UNCHANGED <<methods, touched, itemsTable, staged>> /\ (Alone' => Alone)
  BY StageStepIs DEF BuildFails
<1>2. boot' = boot \/ boot' = [step |-> "done", at |-> 1]
  BY DEF BuildFails
<1> QED BY <1>1, <1>2, BesideStages

LEMMA IdleStays ==
  ASSUME IdleInv, \/ [PricingNext]_pricingVars /\ UNCHANGED classVars
                  \/ AssetClassesNext
  PROVE  IdleInv'
<1>1. CASE [PricingNext]_pricingVars /\ UNCHANGED classVars
  <2>1. UNCHANGED <<running, worker, valuations>>
    BY <1>1 DEF classVars, pricingVars, PricingNext, IndexAtBoot, IndexByCron, IndexingEnds, ClearLab, ClearFails,
         ProcessLabPricingMethod, LabEnds, ReadCsvFile, SaveRows, MarkFileAsProcessed, CsvFails, ExpireFile, Crash,
         PricingExists, SavePricing, IndexingFails, SaveMethod, SaveMethodFails, UploadFile
  <2> QED BY <2>1 DEF IdleInv
<1>2. CASE AssetClassesNext
  <2>1. UNCHANGED running
    BY <1>2, StageStepIs
  <2> SUFFICES ASSUME running \cap {"items", "valuations"} = {} PROVE worker' = NoItem /\ valuations'.step = "off"
    BY <2>1 DEF IdleInv
  <2>2. worker = NoItem /\ valuations.step = "off"
    BY DEF IdleInv
  <2>3. UNCHANGED <<worker, valuations>>
    BY <1>2, <2>2 DEF AssetClassesNext, IsStageProcessed, AddAuctionClasses, FindItem, UpdateItem, MarkStageAsProcessed,
         SaveByWorker, SaveGoldItem, BuildFails, BeginStage, FindToPush, SavePushed, SaveTagged, StageEnds,
         FindForWorker, classVars
  <2> QED BY <2>2, <2>3
<1> QED BY <1>1, <1>2

LEMMA ProcessedKeepsStages ==
  ASSUME StagesInv, ClassesInv, AssetClassesNext, IsStageProcessed
  PROVE  StagesInv'
<1>1. UNCHANGED <<methods, touched, itemsTable, staged, worker, valuations>> /\ (Alone' => Alone)
  BY StageStepIs DEF IsStageProcessed, classVars
<1>2. boot.step = "stage" /\ boot.at \in 1 .. 5
  BY DEF IsStageProcessed, At, ClassesInv, BootInv, StageSteps
<1>3. CASE boot' = NextStage \/ boot' = [step |-> "append", at |-> boot.at, class |-> "MARKET"]
  <2>1. boot'.step \notin {"find", "update", "mark"}
    BY <1>2, <1>3, NextStageIs
  <2> QED BY <1>1, <2>1, BesideStages
<1>4. CASE boot' = [step |-> "find", at |-> boot.at, adds |-> Adds(Stage)]
  <2> SUFFICES ASSUME Alone PROVE StagesInv'
    BY <1>1 DEF StagesInv
  <2>1. boot'.step = "find" /\ boot'.at = boot.at /\ boot'.adds = Adds(Stage)
    BY <1>4
  <2>2. Named' = Named /\ LastTouch' = LastTouch /\ Known' = Known
    BY <1>1 DEF Named, There, LastTouch, Known
  <2>3. boot.at = 1 => \A p \in Named : \E n \in 1 .. Len(boot'.adds) : boot'.adds[n] = p
    BY <1>2, <2>1, AddsAre, StageIs DEF ClassesInv, TablesInv
  <2> QED BY <1>1, <2>1, <2>2, <2>3 DEF StagesInv, Has, ToAdd, Held, ClassesOf
<1> QED BY <1>3, <1>4 DEF IsStageProcessed

(* Rows only grow.                                                         *)
LEMMA RowsGrow ==
  ASSUME Known' = Known, \A i \in Known : ClassesOf(i) \subseteq ClassesIn(itemsTable'[i]),
         NEW p, Has(p)
  PROVE  Has(p)'
BY DEF Has, ClassesOf, ClassesIn

LEMMA AuctionsKeepStages ==
  ASSUME StagesInv, ClassesInv, AssetClassesNext, AddAuctionClasses
  PROVE  StagesInv'
<1> SUFFICES ASSUME Alone PROVE StagesInv'
  BY StageStepIs DEF StagesInv
<1>1. Known' = Known /\ \A i \in Known : ClassesOf(i) \subseteq ClassesIn(itemsTable'[i])
  BY AuctionsAppend, AppendIs DEF ClassesInv
<1>2. Named' = Named /\ LastTouch' = LastTouch
  BY StageStepIs DEF Named, There, LastTouch
<1>3. boot'.step \in {"append", "mark"} /\ boot'.at = 2 /\ UNCHANGED <<staged, worker, valuations>>
  BY AuctionsAppend
<1>4. \A p : Has(p) => Has(p)'
  BY <1>1, RowsGrow
<1> QED BY <1>2, <1>3, <1>4 DEF StagesInv

LEMMA FindKeepsStages ==
  ASSUME StagesInv, ClassesInv, AssetClassesNext, FindItem
  PROVE  StagesInv'
<1> SUFFICES ASSUME Alone PROVE StagesInv'
  BY StageStepIs DEF StagesInv
<1>1. UNCHANGED <<itemsTable, staged, worker, valuations>>
  BY DEF FindItem, classVars
<1>2. Named' = Named /\ LastTouch' = LastTouch /\ Known' = Known /\ \A p : Has(p)' <=> Has(p)
  BY <1>1, StageStepIs DEF Named, There, LastTouch, Known, Has, ClassesOf
<1>3. boot.step = "find" /\ boot.adds \in Seq(Add) /\ {"step", "at", "adds"} \subseteq DOMAIN boot
  BY DEF FindItem, At, ClassesInv, BootInv
<1>4. boot.at = 1 => \A p \in Named : Has(p) \/ ToAdd(p)
  BY <1>3 DEF StagesInv
<1>5. CASE boot.adds = <<>>
  <2>1. boot' = [step |-> "mark", at |-> boot.at]
    BY <1>5 DEF FindItem
  <2>2. boot'.step = "mark" /\ boot'.at = boot.at
    BY <2>1
  <2>3. \A p : ~ToAdd(p)
    BY <1>5 DEF ToAdd
  <2> QED BY <1>1, <1>2, <1>4, <2>2, <2>3 DEF StagesInv
<1>6. CASE boot.adds # <<>>
  <2> DEFINE i == Head(boot.adds)[1]
             c == Head(boot.adds)[2]
             found == [step |-> "update", at |-> boot.at, adds |-> Tail(boot.adds),
                       item |-> i, classes |-> With(itemsTable[i], c)]
  <2>1. /\ Head(boot.adds) \in Add /\ Tail(boot.adds) \in Seq(Add)
        /\ Len(Tail(boot.adds)) = Len(boot.adds) - 1
        /\ \A n \in 1 .. Len(Tail(boot.adds)) : Tail(boot.adds)[n] = boot.adds[n + 1]
        /\ Head(boot.adds) = boot.adds[1]
    BY <1>3, <1>6, HeadTailProperties
  <2>2. c \in Classes /\ Head(boot.adds) = <<i, c>>
    BY <2>1 DEF Add
  <2>3. boot' = IF i \notin Known \/ c \in ClassesOf(i) THEN [boot EXCEPT !.adds = Tail(boot.adds)] ELSE found
    BY <1>6 DEF FindItem
  <2>4. \A p : ToAdd(p) => p = <<i, c>> \/ \E n \in 1 .. Len(Tail(boot.adds)) : Tail(boot.adds)[n] = p
    <3> SUFFICES ASSUME NEW p, NEW n \in 1 .. Len(boot.adds), boot.adds[n] = p, p # <<i, c>>
                 PROVE  \E k \in 1 .. Len(Tail(boot.adds)) : Tail(boot.adds)[k] = p
      BY DEF ToAdd
    <3>1. n # 1
      BY <2>1, <2>2
    <3>2. Len(boot.adds) \in Nat
      BY <1>3
    <3>3. n - 1 \in 1 .. Len(Tail(boot.adds)) /\ (n - 1) + 1 = n
      BY <2>1, <3>1, <3>2
    <3> QED BY <2>1, <3>3
  <2> HIDE DEF i, c
  <2>5. CASE i \notin Known \/ c \in ClassesOf(i)
    <3>1. boot' = [boot EXCEPT !.adds = Tail(boot.adds)]
      BY <2>3, <2>5
    <3>2. boot'.step = "find" /\ boot'.at = boot.at /\ boot'.adds = Tail(boot.adds)
      BY <1>3, <3>1
    <3>3. Has(<<i, c>>)
      BY <2>5 DEF Has
    <3>4. boot.at = 1 => \A p \in Named : Has(p) \/ \E n \in 1 .. Len(boot'.adds) : boot'.adds[n] = p
      BY <1>4, <2>4, <3>2, <3>3
    <3>5. boot.at = 1 => \A p \in Named : Has(p)' \/ ToAdd(p)'
      BY <1>2, <3>4 DEF ToAdd
    <3> QED BY <1>1, <1>2, <3>2, <3>5 DEF StagesInv
  <2>6. CASE ~(i \notin Known \/ c \in ClassesOf(i))
    <3>1. boot' = found /\ i \in Known
      BY <2>3, <2>6
    <3>2. /\ boot'.step = "update" /\ boot'.at = boot.at /\ boot'.adds = Tail(boot.adds)
          /\ boot'.item = i /\ boot'.classes = With(itemsTable[i], c)
      BY <3>1
    <3>3. ClassesIn(itemsTable[i]) \cup {c} \subseteq ClassesIn(boot'.classes)
      BY <2>2, <3>1, <3>2, WithIsList DEF ClassesInv, TablesInv
    <3>4. boot.at = 1 => \A p \in Named : \/ Has(p) \/ p = <<i, c>>
                                          \/ \E n \in 1 .. Len(boot'.adds) : boot'.adds[n] = p
      BY <1>4, <2>4, <3>2
    <3>7. c \in ClassesIn(boot'.classes)
      BY ONLY <3>3
    <3>5. boot.at = 1 => \A p \in Named : Has(p)' \/ ToAdd(p)' \/ Held(p)'
      <4> SUFFICES ASSUME boot.at = 1, NEW p \in Named
                   PROVE  Has(p)' \/ ToAdd(p)' \/ Held(p)'
        OBVIOUS
      <4>1. CASE Has(p)
        BY <1>2, <4>1
      <4>2. CASE p = <<i, c>>
        <5>1. p[1] = i /\ p[2] = c
          BY ONLY <4>2
        <5>2. p[1] = boot'.item /\ p[2] \in ClassesIn(boot'.classes)
          BY ONLY <3>2, <3>7, <5>1
        <5> QED BY ONLY <5>2 DEF Held, ClassesIn
      <4>3. CASE \E n \in 1 .. Len(boot'.adds) : boot'.adds[n] = p
        BY ONLY <4>3 DEF ToAdd
      <4> QED BY <3>4, <4>1, <4>2, <4>3
    <3>6. (ClassesOf(boot.item) \subseteq ClassesIn(boot.classes))'
      BY <1>1, <3>2, <3>3 DEF ClassesOf, ClassesIn
    <3> QED BY <1>1, <1>2, <3>2, <3>5, <3>6 DEF StagesInv
  <2> QED BY <2>5, <2>6
<1> QED BY <1>5, <1>6

LEMMA UpdateKeepsStages ==
  ASSUME StagesInv, ClassesInv, AssetClassesNext, UpdateItem
  PROVE  StagesInv'
<1> SUFFICES ASSUME Alone PROVE StagesInv'
  BY StageStepIs DEF StagesInv
<1>1. boot.step = "update" /\ boot.item \in Known /\ UNCHANGED <<staged, worker, valuations>>
  BY DEF UpdateItem, At, ClassesInv, BootInv
<1>2. Named' = Named /\ LastTouch' = LastTouch
  BY StageStepIs DEF Named, There, LastTouch
<1>3. Known' = Known /\ \A j \in Known : itemsTable'[j] = IF j = boot.item THEN boot.classes ELSE itemsTable[j]
  BY <1>1, PutIs DEF UpdateItem
<1>4. ClassesOf(boot.item) \subseteq ClassesIn(boot.classes)
  BY <1>1 DEF StagesInv
<1>5. \A i \in Known : ClassesOf(i) \subseteq ClassesIn(itemsTable'[i])
  BY <1>3, <1>4 DEF ClassesOf, ClassesIn
<1>6. \A p : Has(p) => Has(p)'
  BY <1>3, <1>5, RowsGrow
<1>7. \A p : Held(p) => Has(p)'
  BY <1>3 DEF Held, Has, ClassesOf, ClassesIn
<1>8. boot'.step = "find" /\ boot'.at = boot.at /\ boot'.adds = boot.adds
  BY DEF UpdateItem
<1>9. \A p : ToAdd(p)' <=> ToAdd(p)
  BY <1>8 DEF ToAdd
<1>10. boot.at = 1 => \A p \in Named : Has(p)' \/ ToAdd(p)'
  BY <1>1, <1>6, <1>7, <1>9 DEF StagesInv
<1> QED BY <1>1, <1>2, <1>6, <1>8, <1>10 DEF StagesInv

LEMMA MarkKeepsStages ==
  ASSUME StagesInv, ClassesInv, AssetClassesNext, MarkStageAsProcessed
  PROVE  StagesInv'
<1> SUFFICES ASSUME Alone PROVE StagesInv'
  BY StageStepIs DEF StagesInv
<1>1. boot.step = "mark" /\ boot.at \in 1 .. 5 /\ UNCHANGED <<itemsTable, worker, valuations>>
  BY DEF MarkStageAsProcessed, At, ClassesInv, BootInv, StageSteps
<1>2. Named' = Named /\ LastTouch' = LastTouch /\ \A p : Has(p)' <=> Has(p)
  BY <1>1, StageStepIs DEF Named, There, LastTouch, Known, Has, ClassesOf
<1>3. staged' = staged \cup {<<Stage, StateOf(Stage)>>} /\ boot'.step \in {"stage", "done"}
  BY <1>1, NextStageIs DEF MarkStageAsProcessed
<1>4. Stage = "pricing" => \A p \in Named : Has(p)
  BY <1>1, StageIs DEF StagesInv
<1>5. \A k \in staged' : k[1] = "pricing" /\ k[2][2] = LastTouch => \A p \in Named : Has(p)
  <2> SUFFICES ASSUME NEW k \in staged', k[1] = "pricing", k[2][2] = LastTouch
               PROVE  \A p \in Named : Has(p)
    OBVIOUS
  <2>1. CASE k \in staged
    BY <2>1 DEF StagesInv
  <2>2. CASE k = <<Stage, StateOf(Stage)>>
    BY <1>4, <2>2
  <2> QED BY <1>3, <2>1, <2>2
<1> QED BY <1>1, <1>2, <1>3, <1>5 DEF StagesInv

LEMMA StagesInitInv == ASSUME ClassesInit PROVE StagesInv /\ ClockInv /\ SavingInv /\ BeforeLab /\ IdleInv
<1>1. boot.step \notin {"find", "update", "mark", "saves"}
  <2>1. boot = PhaseAfter(0) \/ boot = [step |-> "off", at |-> 1]
    BY DEF ClassesInit, PricingInit, Booting
  <2> QED BY <2>1, PhaseSteps
<1>2. SavingInv
  BY <1>1 DEF ClassesInit, PricingInit, SavingInv
<1>3. ClockInv
  BY DEF ClassesInit, PricingInit, AssetClassesInit, ClockInv
<1>4. StagesInv
  BY <1>1 DEF ClassesInit, AssetClassesInit, StagesInv, Alone
<1>5. BeforeLab /\ IdleInv
  BY DEF ClassesInit, PricingInit, AssetClassesInit, BeforeLab, IdleInv
<1> QED BY <1>2, <1>3, <1>4, <1>5

-----------------------------------------------------------------------------
(* The files and the laboratories under the whole specification.           *)

LEMMA StageKeepsFiles == ASSUME FilesInv, ClassesInv, AssetClassesNext PROVE FilesInv'
<1>1. UNCHANGED <<imported, filed>>
  BY DEF AssetClassesNext, IsStageProcessed, AddAuctionClasses, FindItem, UpdateItem, MarkStageAsProcessed,
         SaveByWorker, SaveGoldItem, BuildFails, BeginStage, FindToPush, SavePushed, SaveTagged, StageEnds,
         FindForWorker, pricingVars, fileVars
<1>2. BootAtFile'
  BY StageMoves DEF FilesInv, BootAtFile, StageSteps
<1> QED BY <1>1, <1>2, BootGoesOn

LEMMA StageKeepsLab == ASSUME LabInv, ClassesInv, AssetClassesNext PROVE LabInv'
<1>1. UNCHANGED <<running, methods, saving, labFailed>>
  BY DEF AssetClassesNext, IsStageProcessed, AddAuctionClasses, FindItem, UpdateItem, MarkStageAsProcessed,
         SaveByWorker, SaveGoldItem, BuildFails, BeginStage, FindToPush, SavePushed, SaveTagged, StageEnds,
         FindForWorker, pricingVars, labVars
<1> QED BY <1>1, StageMoves, BesideLab DEF StageSteps, AfterLab

LEMMA StageKeepsBefore == ASSUME BeforeLab, ClassesInv, AssetClassesNext PROVE BeforeLab'
<1>1. UNCHANGED saving
  BY DEF AssetClassesNext, IsStageProcessed, AddAuctionClasses, FindItem, UpdateItem, MarkStageAsProcessed,
         SaveByWorker, SaveGoldItem, BuildFails, BeginStage, FindToPush, SavePushed, SaveTagged, StageEnds,
         FindForWorker, pricingVars, labVars
<1> QED BY <1>1, StageMoves, BeforeStays DEF StageSteps

(* All of it together.                                                     *)
CatalogueInv == ClassesInv /\ FilesInv /\ BeforeLab /\ LabInv /\ SavingInv /\ ClockInv /\ IdleInv /\ StagesInv

LEMMA CatalogueInitInv == ASSUME ClassesInit PROVE CatalogueInv
BY ClassesInitInv, PricingInitInv, LabInit, StagesInitInv DEF CatalogueInv, ClassesInit

LEMMA NextKeepsCatalogue ==
  ASSUME CatalogueInv, [ClassesNext]_<<pricingVars, classVars>>
  PROVE  CatalogueInv'
<1>1. ClassesInv'
  BY NextKeepsClasses DEF CatalogueInv
<1>2. {"step", "at"} \subseteq DOMAIN boot
  BY DEF CatalogueInv, ClassesInv, BootInv
<1>3. CASE PricingNext /\ UNCHANGED classVars
  BY <1>1, <1>2, <1>3, PricingKeepsFiles, PricingKeepsBefore, PricingKeepsLab, PricingKeepsSaving, PricingKeepsClock,
     PricingKeepsStages, IdleStays DEF CatalogueInv
<1>4. CASE AssetClassesNext
  <2>1. StagesInv'
    BY <1>4, OthersKeepStages, FailureKeepsStages, ProcessedKeepsStages, AuctionsKeepStages, FindKeepsStages,
       UpdateKeepsStages, MarkKeepsStages DEF AssetClassesNext, CatalogueInv
  <2> QED BY <1>1, <1>4, <2>1, StageKeepsFiles, StageKeepsBefore, StageKeepsLab, StageKeepsSaving, StageKeepsClock,
             IdleStays DEF CatalogueInv
<1>5. CASE UNCHANGED <<pricingVars, classVars>>
  <2>1. /\ UNCHANGED pricingVars
        /\ UNCHANGED <<running, boot, methods, touched, written, saving, labFailed>>
        /\ UNCHANGED <<itemsTable, staged, worker, valuations>>
    BY <1>5 DEF pricingVars, labVars, classVars
  <2>2. FilesInv' /\ LabInv'
    BY <2>1, PricingKeepsFiles, PricingKeepsLab DEF CatalogueInv
  <2>3. SavingInv' /\ ClockInv' /\ StagesInv' /\ BeforeLab' /\ IdleInv'
    BY <2>1, SavingStays, ClockStays, BesideStages, BeforeStays DEF CatalogueInv, Alone, IdleInv
  <2> QED BY <1>1, <2>2, <2>3 DEF CatalogueInv
<1> QED BY <1>3, <1>4, <1>5 DEF ClassesNext

LEMMA CatalogueHolds == ClassesSpec => []CatalogueInv
BY CatalogueInitInv, NextKeepsCatalogue, PTL DEF ClassesSpec

-----------------------------------------------------------------------------
(* A content of a CSV file that is marked as processed has every ID in its *)
(* table (xva.service.ts:140-174): its own rows were there when the marker *)
(* was set, and no step takes any away.                                    *)
THEOREM FilesAreImported == ClassesSpec => []MarkedFilesAreImported
<1>1. CatalogueInv => MarkedFilesAreImported
  BY DEF CatalogueInv, FilesInv
<1> QED BY <1>1, CatalogueHolds, PTL

(* When the laboratories' phase of a boot is over and neither its delete   *)
(* nor a save of it failed, each method of an enabled laboratory is in the *)
(* table once and no other one's is (xva.service.ts:180-265): the boot     *)
(* deleted what others had left, and nothing but its own saves added to    *)
(* the table since.                                                        *)
THEOREM LabsAreRebuilt == ClassesSpec => []LabIsRebuilt
<1>1. CatalogueInv => LabIsRebuilt
  BY LabInvRebuilt DEF CatalogueInv
<1> QED BY <1>1, CatalogueHolds, PTL

(* No row has a class twice (xva.service.ts:830-866, 1100-1158;            *)
(* valuations.service.ts:105-184, 246-297): what a writer holds, one row   *)
(* or the whole table, was read without a repetition and is written whole, *)
(* however old it is by then, and an appended class was missing in the row *)
(* itself.                                                                 *)
THEOREM ClassesAreOnce == ClassesSpec => []NoClassTwice
<1>1. CatalogueInv => NoClassTwice
  BY ListCounts DEF CatalogueInv, ClassesInv, TablesInv, IsRow, NoClassTwice
<1> QED BY <1>1, CatalogueHolds, PTL

(* Where the boot is the only writer and neither the delete nor a save of  *)
(* the last laboratory failed, a key of the pricing stage for the table's  *)
(* present state means that all classes the methods call for are there     *)
(* (xva.service.ts:638-703, 752-800): a state with the table's last change *)
(* was marked after it, and every later write to the table makes that key  *)
(* an old one.                                                             *)
THEOREM StagesAreBuilt == ClassesSpec => []MarkedStagesAreBuilt
<1>1. CatalogueInv => MarkedStagesAreBuilt
  <2> SUFFICES ASSUME CatalogueInv, Alone, <<"pricing", StateOf("pricing")>> \in staged,
                      NEW m \in Methods, methods[m] > 0
               PROVE  /\ \A i \in Known \cap Derivatives[m] : "DERIVATIVE" \in ClassesOf(i)
                      /\ \A i \in Known \cap Reagents[m] : "REAGENT" \in ClassesOf(i)
    BY DEF MarkedStagesAreBuilt, Alone
  <2>1. PICK k \in staged : k = <<"pricing", StateOf("pricing")>>
    OBVIOUS
  <2>2. k[1] = "pricing" /\ k[2][2] = LastTouch
    BY <2>1, StateIs
  <2>3. \A p \in Named : Has(p)
    BY <2>2 DEF CatalogueInv, StagesInv
  <2>4. m \in There
    BY DEF There
  <2>5. \A i \in Derivatives[m] : <<i, "DERIVATIVE">> \in Named
    BY <2>4 DEF Named
  <2>6. \A i \in Reagents[m] : <<i, "REAGENT">> \in Named
    BY <2>4 DEF Named
  <2> QED BY <2>3, <2>5, <2>6 DEF Has
<1> QED BY <1>1, CatalogueHolds, PTL

-----------------------------------------------------------------------------
(***************************************************************************)
(* Induction without an operator for the property: what holds is given as  *)
(* the set of the numbers, or of the subsets, it holds of.                 *)
(***************************************************************************)
LEMMA LeastNumber ==
  ASSUME NEW T \in SUBSET Nat, T # {}
  PROVE  \E n \in T : \A m \in T : n <= m
<1>1. IsWellFoundedOn(OpToRel(<, Nat), Nat)
  BY NatLessThanWellFounded
<1>2. PICK n \in T : \A m \in T : ~ (<<m, n>> \in OpToRel(<, Nat))
  BY <1>1, WFMin
<1>3. \A m \in T : ~ (m < n)
  BY <1>2 DEF OpToRel
<1> QED BY <1>3

(* Induction: a set of naturals with 0 that is closed under successors     *)
(* has all.                                                                *)
LEMMA NumbersFromZero ==
  ASSUME NEW T \in SUBSET Nat, 0 \in T, \A n \in T : n + 1 \in T
  PROVE  T = Nat
<1>1. SUFFICES ASSUME Nat \ T # {} PROVE FALSE
  OBVIOUS
<1>2. PICK n \in Nat \ T : \A m \in Nat \ T : n <= m
  <2> DEFINE R == Nat \ T
  <2>1. R \in SUBSET Nat /\ R # {}
    BY <1>1
  <2> HIDE DEF R
  <2>2. \E k \in R : \A m \in R : k <= m
    BY <2>1, LeastNumber
  <2> QED BY <2>2 DEF R
<1>3. n # 0 /\ n - 1 \in Nat
  BY <1>2
<1>4. n - 1 \in T
  BY <1>2, <1>3
<1>5. (n - 1) + 1 \in T
  BY <1>4
<1> QED BY <1>2, <1>3, <1>5

(* The same for the subsets of a finite set.                               *)
LEMMA SubsetsFromEmpty ==
  ASSUME NEW S, IsFiniteSet(S), NEW U, {} \in U,
         \A T \in SUBSET S : \A x \in S : T \in U => T \cup {x} \in U
  PROVE  S \in U
<1> DEFINE N == {n \in Nat : \A T \in SUBSET S : Cardinality(T) = n => T \in U}
<1>1. \A T \in SUBSET S : IsFiniteSet(T) /\ Cardinality(T) \in Nat
  BY FS_Subset, FS_CardinalityType
<1>2. 0 \in N
  BY <1>1, FS_EmptySet
<1>3. ASSUME NEW n \in N PROVE n + 1 \in N
  <2> SUFFICES ASSUME NEW T \in SUBSET S, Cardinality(T) = n + 1 PROVE T \in U
    OBVIOUS
  <2>1. T # {}
    BY <1>1, FS_EmptySet
  <2>2. PICK x \in T : TRUE
    BY <2>1
  <2>3. Cardinality(T \ {x}) = n
    <3>1. n \in Nat /\ IsFiniteSet(T) /\ x \in T
      BY <1>1, <2>2
    <3>2. Cardinality(T \ {x}) = Cardinality(T) - 1
      BY ONLY <3>1, FS_RemoveElement
    <3> QED BY ONLY <3>1, <3>2, Cardinality(T) = n + 1
  <2>4. T \ {x} \in U
    BY <2>3
  <2>5. (T \ {x}) \cup {x} \in U
    BY <2>4, <2>2
  <2>6. (T \ {x}) \cup {x} = T
    BY <2>2
  <2> QED BY <2>5, <2>6
<1>4. N = Nat
  <2>1. N \in SUBSET Nat
    OBVIOUS
  <2> HIDE DEF N
  <2> QED BY <1>2, <1>3, <2>1, NumbersFromZero
<1> QED BY <1>1, <1>4

(* A strict order on a finite set has a minimal element.                   *)
LEMMA MinimalElement ==
  ASSUME NEW S, IsFiniteSet(S), S # {}, NEW R,
         \A a \in S : <<a, a>> \notin R,
         \A a, b, c \in S : <<a, b>> \in R /\ <<b, c>> \in R => <<a, c>> \in R
  PROVE  \E m \in S : \A a \in S : <<a, m>> \notin R
<1> DEFINE U == {T \in SUBSET S : T # {} => \E m \in T : \A a \in T : <<a, m>> \notin R}
<1>1. {} \in U
  OBVIOUS
<1>2. ASSUME NEW T \in SUBSET S, NEW x \in S, T \in U PROVE T \cup {x} \in U
  <2>1. CASE T = {}
    BY <2>1
  <2>2. CASE T # {}
    <3>1. PICK m \in T : \A a \in T : <<a, m>> \notin R
      BY <2>2, <1>2
    <3>2. CASE <<x, m>> \in R
      <4>1. \A a \in T : <<a, x>> \notin R
        BY <3>1, <3>2
      <4>2. \A a \in T \cup {x} : <<a, x>> \notin R
        BY <4>1
      <4> QED BY <4>2
    <3>3. CASE <<x, m>> \notin R
      <4>1. \A a \in T \cup {x} : <<a, m>> \notin R
        BY <3>1, <3>3
      <4> QED BY <4>1
    <3> QED BY <3>2, <3>3
  <2> QED BY <2>1, <2>2
<1>3. S \in U
  <2> HIDE DEF U
  <2> QED BY <1>1, <1>2, SubsetsFromEmpty
<1> QED BY <1>3

(***************************************************************************)
(* A fold over a finite set: the recursive function exists, and what every *)
(* step keeps holds of the result.                                         *)
(***************************************************************************)
IsFold(g, S, base, pick, F) ==
  g = [s \in SUBSET S |-> IF s = {} THEN base ELSE F[<<pick[s], g[s \ {pick[s]}]>>]]
Picks(pick, S) == \A s \in SUBSET S : s # {} => pick[s] \in s

(* A fold over a finite set is a function on its subsets.                  *)
LEMMA FoldExists ==
  ASSUME NEW S, IsFiniteSet(S), NEW base, NEW pick, NEW F,
         Picks(pick, S)
  PROVE  \E g : IsFold(g, S, base, pick, F)
<1>0. \A s \in SUBSET S : s # {} => pick[s] \in s
  BY DEF Picks
<1> DEFINE Body(g, s) == IF s = {} THEN base ELSE F[<<pick[s], g[s \ {pick[s]}]>>]
           Upto(g, n) == \A s \in SUBSET S : Cardinality(s) <= n => g[s] = Body(g, s)
           N == {n \in Nat : \E g : Upto(g, n)}
<1>1. \A s \in SUBSET S : IsFiniteSet(s) /\ Cardinality(s) \in Nat /\ Cardinality(s) <= Cardinality(S)
  BY FS_Subset, FS_CardinalityType
<1>2. \A s \in SUBSET S : s # {} => Cardinality(s \ {pick[s]}) = Cardinality(s) - 1
  BY <1>0, <1>1, FS_RemoveElement
<1>3. 0 \in N
  <2> DEFINE g == [s \in SUBSET S |-> base]
  <2>1. \A s \in SUBSET S : Cardinality(s) <= 0 => s = {}
    BY <1>1, FS_EmptySet
  <2>2. Upto(g, 0)
    BY <2>1
  <2> QED BY <2>2
<1>4. ASSUME NEW n \in N PROVE n + 1 \in N
  <2>1. PICK g : Upto(g, n)
    OBVIOUS
  <2> DEFINE h == [s \in SUBSET S |-> IF Cardinality(s) <= n THEN g[s] ELSE Body(g, s)]
  <2>2. ASSUME NEW s \in SUBSET S PROVE h[s] = Body(g, s)
    BY <2>1
  <2>3. ASSUME NEW s \in SUBSET S, Cardinality(s) <= n + 1 PROVE Body(g, s) = Body(h, s)
    <3>1. CASE s = {}
      BY <3>1
    <3>2. CASE s # {}
      <4>1. s \ {pick[s]} \in SUBSET S /\ Cardinality(s \ {pick[s]}) <= n
        BY <1>1, <1>2, <2>3, <3>2
      <4>2. h[s \ {pick[s]}] = g[s \ {pick[s]}]
        BY <4>1
      <4> QED BY <4>2
    <3> QED BY <3>1, <3>2
  <2>4. Upto(h, n + 1)
    BY <2>2, <2>3
  <2>5. n + 1 \in Nat
    OBVIOUS
  <2> HIDE DEF h, Upto
  <2> QED BY <2>4, <2>5
<1>5. Cardinality(S) \in N
  <2>1. N \in SUBSET Nat
    OBVIOUS
  <2>2. Cardinality(S) \in Nat
    BY <1>1
  <2> HIDE DEF N
  <2> QED BY <1>3, <1>4, <2>1, <2>2, NumbersFromZero
<1>6. PICK g : Upto(g, Cardinality(S))
  BY <1>5
<1>7. \A s \in SUBSET S : g[s] = Body(g, s)
  BY <1>6, <1>1
<1> DEFINE h == [s \in SUBSET S |-> g[s]]
<1>8. \A s \in SUBSET S : Body(g, s) = Body(h, s)
  OBVIOUS
<1>9. h = [s \in SUBSET S |-> Body(h, s)]
  BY <1>7, <1>8
<1> HIDE DEF h
<1> QED BY <1>9 DEF IsFold

(* Folding keeps what its operation keeps.                                 *)
LEMMA FoldType ==
  ASSUME NEW S, IsFiniteSet(S), NEW base, NEW pick, NEW F, NEW Typ, NEW g,
         Picks(pick, S), IsFold(g, S, base, pick, F),
         base \in Typ, \A x \in S : \A t \in Typ : F[<<x, t>>] \in Typ
  PROVE  \A s \in SUBSET S : g[s] \in Typ
<1>0. \A s \in SUBSET S : s # {} => pick[s] \in s
  BY DEF Picks
<1> DEFINE Typed(n) == \A s \in SUBSET S : Cardinality(s) = n => g[s] \in Typ
           N == {n \in Nat : Typed(n)}
<1>1. \A s \in SUBSET S : IsFiniteSet(s) /\ Cardinality(s) \in Nat
  BY FS_Subset, FS_CardinalityType
<1>2. \A s \in SUBSET S : g[s] = IF s = {} THEN base ELSE F[<<pick[s], g[s \ {pick[s]}]>>]
  BY DEF IsFold
<1>3. 0 \in N
  BY <1>1, <1>2, FS_EmptySet
<1>4. ASSUME NEW n \in N PROVE n + 1 \in N
  <2>0. n \in Nat /\ n + 1 \in Nat /\ Typed(n)
    <3> HIDE DEF Typed
    <3> QED OBVIOUS
  <2> SUFFICES Typed(n + 1)
    <3> HIDE DEF Typed
    <3> QED BY <2>0
  <2> TAKE s \in SUBSET S
  <2> HAVE Cardinality(s) = n + 1
  <2>1. s # {}
    BY <1>1, FS_EmptySet
  <2>2. Cardinality(s \ {pick[s]}) = n /\ pick[s] \in S
    BY <1>0, <1>1, <2>0, <2>1, FS_RemoveElement
  <2>3. g[s \ {pick[s]}] \in Typ
    BY <2>0, <2>2
  <2>4. g[s] = F[<<pick[s], g[s \ {pick[s]}]>>]
    BY <1>2, <2>1
  <2> QED BY <2>2, <2>3, <2>4
<1>5. N = Nat
  <2>1. N \in SUBSET Nat
    OBVIOUS
  <2> HIDE DEF N
  <2> QED BY <1>3, <1>4, <2>1, NumbersFromZero
<1> QED BY <1>1, <1>5

-----------------------------------------------------------------------------
(* EvaluationService: while no price has changed since a run began, a row  *)
(* that says a craft pays advises to craft.                                *)

LEMMA SumIsNatural ==
  ASSUME NEW S, IsFiniteSet(S), NEW v \in [S -> Nat]
  PROVE  /\ SumFunction(v) \in Nat
         /\ S # {} /\ (\A x \in S : v[x] > 0) => SumFunction(v) > 0
<1> DEFINE Pick(s) == CHOOSE x \in s : TRUE
           pick == [s \in SUBSET S |-> Pick(s)]
           F(T) == [z \in S \X T |-> v[z[1]] + z[2]]
           Sums(g) == g = [s \in SUBSET S |-> IF s = {} THEN 0 ELSE v[Pick(s)] + g[s \ {Pick(s)}]]
           Folds(f, g) == IsFold(g, S, 0, pick, f)
<1>1. SumFunction(v) = (CHOOSE g : Sums(g))[S]
  BY DEF SumFunction, SumFunctionOnSet, FoldFunctionOnSet, MapThenFoldSet
<1>2. Picks(pick, S)
  BY DEF Picks
<1>3. \A s \in SUBSET S : s # {} => Pick(s) \in S /\ pick[s] = Pick(s)
  OBVIOUS
<1>4. ASSUME NEW T, Nat \subseteq T
      PROVE  /\ \A x \in S : \A t \in T : F(T)[<<x, t>>] = v[x] + t
             /\ \A x \in S : \A t \in Nat : F(T)[<<x, t>>] \in Nat
  BY <1>4
<1>5. ASSUME NEW T, Nat \subseteq T, NEW g, \A s \in SUBSET S : g[s] \in T
      PROVE  Sums(g) <=> Folds(F(T), g)
  <2> DEFINE f == F(T)
  <2> SUFFICES Sums(g) <=> Folds(f, g)
    OBVIOUS
  <2>1. ASSUME NEW s \in SUBSET S, s # {}
        PROVE  f[<<pick[s], g[s \ {pick[s]}]>>] = v[Pick(s)] + g[s \ {Pick(s)}]
    <3>1. pick[s] = Pick(s) /\ pick[s] \in S
      BY <1>3, <2>1
    <3>2. g[s \ {pick[s]}] \in T
      BY <1>5
    <3>3. \A x \in S : \A t \in T : f[<<x, t>>] = v[x] + t
      BY <1>4, <1>5
    <3> HIDE DEF pick, f, Pick
    <3> QED BY <3>1, <3>2, <3>3
  <2> HIDE DEF pick, f, Pick
  <2>2. \A s \in SUBSET S : (IF s = {} THEN 0 ELSE f[<<pick[s], g[s \ {pick[s]}]>>])
                          = (IF s = {} THEN 0 ELSE v[Pick(s)] + g[s \ {Pick(s)}])
    BY <2>1
  <2> QED BY <2>2 DEF IsFold
<1>6. ASSUME NEW T, Nat \subseteq T, NEW g, Folds(F(T), g)
      PROVE  \A s \in SUBSET S : g[s] \in Nat
  <2> DEFINE f == F(T)
  <2>1. \A x \in S : \A t \in Nat : f[<<x, t>>] \in Nat
    BY <1>4, <1>6
  <2>2. Folds(f, g) /\ 0 \in Nat
    BY <1>6
  <2> HIDE DEF pick, f
  <2> QED BY <1>2, <2>1, <2>2, FoldType
<1>7. \E g : Sums(g)
  <2> DEFINE f == F(Nat)
  <2>1. \E g : Folds(f, g)
    <3> HIDE DEF pick, f
    <3> QED BY <1>2, FoldExists
  <2>2. PICK g : Folds(F(Nat), g)
    BY <2>1
  <2>3. \A s \in SUBSET S : g[s] \in Nat
    <3> HIDE DEF Folds, Sums
    <3> QED BY <1>6, <2>2, Nat \subseteq Nat
  <2>4. Sums(g)
    <3> HIDE DEF Folds, Sums
    <3> QED BY <1>5, <2>2, <2>3, Nat \subseteq Nat
  <2> HIDE DEF Sums
  <2> QED BY <2>4
<1> DEFINE g == CHOOSE g : Sums(g)
<1>8. Sums(g)
  <2> HIDE DEF Sums
  <2> QED BY <1>7
<1> HIDE DEF g
<1>9. \A s \in SUBSET S : g[s] \in Nat
  <2> DEFINE T == Nat \cup {g[s] : s \in SUBSET S}
  <2>1. Nat \subseteq T /\ \A s \in SUBSET S : g[s] \in T
    OBVIOUS
  <2> HIDE DEF T, Sums, Folds
  <2>2. Folds(F(T), g)
    BY <1>5, <1>8, <2>1
  <2> QED BY <1>6, <2>1, <2>2
<1>10. SumFunction(v) = g[S]
  BY <1>1 DEF g
<1>11. S # {} => g[S] = v[Pick(S)] + g[S \ {Pick(S)}]
  BY <1>8
<1>12. S # {} => Pick(S) \in S
  OBVIOUS
<1>13. S # {} => v[Pick(S)] \in Nat /\ g[S \ {Pick(S)}] \in Nat /\ g[S] \in Nat
  BY <1>9, <1>12
<1>14. S # {} /\ (\A x \in S : v[x] > 0) => v[Pick(S)] > 0
  BY <1>12
<1> HIDE DEF Pick, Sums
<1>15. g[S] \in Nat
  BY <1>9
<1> QED BY ONLY <1>10, <1>11, <1>13, <1>14, <1>15

(* Prices are naturals: an average divides by at least one. *)
LEMMA PricesAreNatural ==
  ASSUME offer \in [Goods -> Offers], NEW i \in Goods
  PROVE  MarketPrice(i) \in Nat
<1> DEFINE orders == offer[i].orders
           values == [o \in orders |-> o[1] * Amount(o)]
           amounts == [o \in orders |-> Amount(o)]
<1>1. offer[i].market \in Nat /\ orders \subseteq Nat \X Nat /\ IsFiniteSet(orders)
  BY OffersAssumption
<1>2. \A o \in orders : Amount(o) \in Nat /\ Amount(o) > 0 /\ o[1] * Amount(o) \in Nat
  <2> SUFFICES ASSUME NEW o \in orders PROVE Amount(o) \in Nat /\ Amount(o) > 0 /\ o[1] * Amount(o) \in Nat
    OBVIOUS
  <2>1. o[1] \in Nat /\ o[2] \in Nat
    BY <1>1
  <2>2. Amount(o) \in Nat /\ Amount(o) > 0
    BY <2>1 DEF Amount
  <2> QED BY <2>1, <2>2
<1>3. values \in [orders -> Nat] /\ amounts \in [orders -> Nat] /\ \A o \in orders : amounts[o] > 0
  BY <1>2
<1>4. SumFunction(values) \in Nat /\ SumFunction(amounts) \in Nat /\ (orders # {} => SumFunction(amounts) > 0)
  <2> HIDE DEF values, amounts, orders
  <2> QED BY <1>1, <1>3, SumIsNatural
<1>5. WeightedAverage(orders) = SumFunction(values) \div SumFunction(amounts)
  BY DEF WeightedAverage
<1>6. orders # {} => WeightedAverage(orders) \in Nat
  <2> DEFINE a == SumFunction(values)
             b == SumFunction(amounts)
  <2>1. a \in Nat /\ b \in Nat /\ (orders # {} => b > 0)
    BY <1>4
  <2>2. WeightedAverage(orders) = a \div b
    BY <1>5
  <2> HIDE DEF a, b, orders
  <2> QED BY <2>1, <2>2
<1> QED BY <1>1, <1>6 DEF MarketPrice

(* What was read of the prices: of those that were lost, 0. *)
PricesRead == [Goods -> Nat]
Read(read) == \A r \in DOMAIN read : r \in PrimaryRecipes /\ read[r] \in PricesRead

LEMMA AllPricesAreNatural ==
  ASSUME offer \in [Goods -> Offers]
  PROVE  /\ Prices \in PricesRead /\ Read(AllRead)
         /\ \A i \in Goods : Prices[i] = MarketPrice(i)
<1>1. \A i \in Goods : MarketPrice(i) \in Nat
  BY PricesAreNatural
<1>2. Prices = [i \in Goods |-> MarketPrice(i)]
  BY DEF Prices, Without
<1>3. Prices \in PricesRead
  BY <1>1, <1>2 DEF PricesRead
<1> QED BY <1>2, <1>3 DEF Read, AllRead

LEMMA CostsAreNatural ==
  ASSUME NEW p \in PricesRead, NEW r \in PrimaryRecipes
  PROVE  TotalCost(r, p) \in Nat
<1> DEFINE costs == [e \in Priced(r, p) |-> e[2] * p[e[1]]]
<1>1. Priced(r, p) \subseteq Goods \X Nat /\ IsFiniteSet(Priced(r, p))
  BY RecipesAssumption, FS_Subset DEF Priced
<1>2. ASSUME NEW e \in Priced(r, p) PROVE e[2] * p[e[1]] \in Nat
  <2>1. e[1] \in Goods /\ e[2] \in Nat
    BY <1>1
  <2>2. p[e[1]] \in Nat
    BY <2>1 DEF PricesRead
  <2> QED BY <2>1, <2>2
<1>3. costs \in [Priced(r, p) -> Nat]
  BY <1>2
<1> HIDE DEF costs
<1>4. SumFunction(costs) \in Nat
  BY <1>1, <1>3, SumIsNatural
<1> QED BY <1>4 DEF TotalCost, costs

(* A cost per unit is a fraction with a denominator that is not 0.         *)
LEMMA UnitCosts ==
  ASSUME NEW read, Read(read), NEW i \in Goods, NEW r \in CraftingMethods(i, read)
  PROVE  CostPerUnit(r, i, read[r]) \in (Nat \ {0}) \X (Nat \ {0})
<1>1. r \in PrimaryRecipes /\ read[r] \in PricesRead /\ TotalCost(r, read[r]) > 0
      /\ \E e \in r.derivatives : e[1] = i /\ e[2] > 0
  BY DEF CraftingMethods, Makes, Read
<1>2. r.derivatives \subseteq Goods \X Nat
  BY <1>1, RecipesAssumption
<1> DEFINE e == CHOOSE e \in r.derivatives : e[1] = i /\ e[2] > 0
<1>3. e \in r.derivatives /\ e[2] > 0
  BY <1>1
<1> HIDE DEF e
<1>4. e[2] \in Nat \ {0}
  BY <1>2, <1>3
<1>5. Quantity(r, i) \in Nat \ {0}
  BY <1>4 DEF Quantity, e
<1>6. TotalCost(r, read[r]) \in Nat \ {0}
  BY <1>1, CostsAreNatural
<1> QED BY <1>5, <1>6 DEF CostPerUnit

LEMMA TimesKeepsLess ==
  ASSUME NEW x \in Nat, NEW y \in Nat, NEW z \in Nat \ {0}
  PROVE  x < y <=> x * z < y * z
OBVIOUS

LEMMA TimesKeepsAtMost ==
  ASSUME NEW x \in Nat, NEW y \in Nat, NEW z \in Nat \ {0}
  PROVE  x <= y <=> x * z <= y * z
OBVIOUS

(* Costs per unit are compared by cross products: an order, as the         *)
(* denominators are positive.                                              *)
LEMMA CheaperIsAnOrder ==
  ASSUME NEW a \in Nat \X (Nat \ {0}), NEW b \in Nat \X (Nat \ {0}), NEW c \in Nat \X (Nat \ {0})
  PROVE  /\ ~Cheaper(a, a)
         /\ Cheaper(a, b) /\ Cheaper(b, c) => Cheaper(a, c)
<1>1. PICK a1 \in Nat, a2 \in Nat \ {0} : a = <<a1, a2>>
  OBVIOUS
<1>2. PICK b1 \in Nat, b2 \in Nat \ {0} : b = <<b1, b2>>
  OBVIOUS
<1>3. PICK c1 \in Nat, c2 \in Nat \ {0} : c = <<c1, c2>>
  OBVIOUS
<1>4. ASSUME a1 * b2 < b1 * a2, b1 * c2 < c1 * b2 PROVE a1 * c2 < c1 * a2
  <2>0. a1 * b2 \in Nat /\ b1 * a2 \in Nat /\ b1 * c2 \in Nat /\ c1 * b2 \in Nat /\ a1 * c2 \in Nat /\ c1 * a2 \in Nat
    OBVIOUS
  <2>1. (a1 * b2) * c2 < (b1 * a2) * c2
    BY <1>4, <2>0, TimesKeepsLess
  <2>2. (b1 * c2) * a2 < (c1 * b2) * a2
    BY <1>4, <2>0, TimesKeepsLess
  <2>3. (b1 * a2) * c2 = (b1 * c2) * a2 /\ (a1 * b2) * c2 = (a1 * c2) * b2 /\ (c1 * b2) * a2 = (c1 * a2) * b2
    OBVIOUS
  <2>4. (a1 * c2) * b2 < (c1 * a2) * b2
    <3>1. (a1 * b2) * c2 \in Nat /\ (b1 * a2) * c2 \in Nat /\ (c1 * b2) * a2 \in Nat
      OBVIOUS
    <3> QED BY ONLY <2>1, <2>2, <2>3, <3>1
  <2> QED BY <2>0, <2>4, TimesKeepsLess
<1>5. ~(a1 * a2 < a1 * a2)
  OBVIOUS
<1> QED BY <1>1, <1>2, <1>3, <1>4, <1>5 DEF Cheaper

(* What reduce finds: no method is cheaper than the cheapest.              *)
LEMMA CheapestExists ==
  ASSUME NEW read, Read(read), NEW i \in Goods, CraftingMethods(i, read) # {}
  PROVE  /\ CheapestCrafting(i, read) \in CraftingMethods(i, read)
         /\ \A q \in CraftingMethods(i, read) : ~Cheaper(CostPerUnit(q, i, read[q]), CheapestCost(i, read))
<1> DEFINE S == CraftingMethods(i, read)
           Better(a, b) == Cheaper(CostPerUnit(a, i, read[a]), CostPerUnit(b, i, read[b]))
           R == {z \in S \X S : Better(z[1], z[2])}
<1>1. IsFiniteSet(S)
  <2>1. S \subseteq PrimaryRecipes
    BY DEF CraftingMethods, Read
  <2> QED BY <2>1, RecipesAssumption, FS_Subset
<1>2. \A a \in S : CostPerUnit(a, i, read[a]) \in Nat \X (Nat \ {0})
  BY UnitCosts
<1>3. \A a, b, c \in S : ~Better(a, a) /\ (Better(a, b) /\ Better(b, c) => Better(a, c))
  BY <1>2, CheaperIsAnOrder
<1>4. \A a, b \in S : <<a, b>> \in R <=> Better(a, b)
  OBVIOUS
<1>5. S # {}
  OBVIOUS
<1>6. \E m \in S : \A a \in S : ~Better(a, m)
  <2> HIDE DEF S, R, Better
  <2>1. (\A a \in S : <<a, a>> \notin R) /\ \A a, b, c \in S : <<a, b>> \in R /\ <<b, c>> \in R => <<a, c>> \in R
    BY <1>3, <1>4
  <2>2. \E m \in S : \A a \in S : <<a, m>> \notin R
    BY <1>1, <1>5, <2>1, MinimalElement
  <2> QED BY <1>4, <2>2
<1> QED BY <1>6 DEF CheapestCrafting, CheapestCost

(* A craft that pays from the recipe's side is advised from the item's,    *)
(* where both sides read every price: the cheapest method costs no more    *)
(* than the recipe that was found.                                         *)
LEMMA CraftsAreAdvised ==
  ASSUME offer \in [Goods -> Offers], NEW r \in PrimaryRecipes, NEW i \in Goods,
         <<r, i>> \in ProfitableCrafts(r, Prices, Prices)
  PROVE  LET advice == Recommendations(i, AllRead, MarketPrice(i)) IN "craft" \in advice /\ "buy" \notin advice
<1> DEFINE price == MarketPrice(i)
           read == AllRead
<1>0. Read(read) /\ Prices[i] = price /\ price \in Nat /\ r \in DOMAIN read /\ read[r] = Prices
  BY AllPricesAreNatural, PricesAreNatural DEF AllRead
<1>1. Makes(r, i, Prices) /\ price # 0 /\ Profit(price, CostPerUnit(r, i, Prices)) > 0
  BY <1>0 DEF ProfitableCrafts
<1> HIDE DEF price, read
<1>2. r \in CraftingMethods(i, read)
  BY <1>0, <1>1 DEF CraftingMethods
<1> DEFINE m == CheapestCrafting(i, read)
           cost == CheapestCost(i, read)
<1>3. m \in CraftingMethods(i, read) /\ ~Cheaper(CostPerUnit(r, i, read[r]), cost) /\ cost = CostPerUnit(m, i, read[m])
  BY <1>0, <1>2, CheapestExists DEF CheapestCost
<1> HIDE DEF m, cost
<1>4. Profit(price, cost) > 0
  <2>1. PICK a1 \in Nat, a2 \in Nat \ {0} : CostPerUnit(r, i, read[r]) = <<a1, a2>>
    BY <1>0, <1>2, UnitCosts
  <2>2. PICK b1 \in Nat, b2 \in Nat \ {0} : cost = <<b1, b2>>
    BY <1>0, <1>3, UnitCosts
  <2>3. PICK p \in Nat : price = p
    BY <1>0
  <2>4. ~(a1 * b2 < b1 * a2) /\ p * a2 - a1 > 0
    BY <1>0, <1>1, <1>3, <2>1, <2>2, <2>3 DEF Cheaper, Profit
  <2>5. p * b2 - b1 > 0
    <3>0. p * a2 \in Nat /\ a1 * b2 \in Nat /\ b1 * a2 \in Nat /\ p * b2 \in Nat
      OBVIOUS
    <3>1. a1 < p * a2
      BY <2>4, <3>0
    <3>2. a1 * b2 < (p * a2) * b2
      BY <3>0, <3>1, TimesKeepsLess
    <3>3. (p * a2) * b2 = (p * b2) * a2 /\ (p * a2) * b2 \in Nat
      OBVIOUS
    <3>4. b1 * a2 < (p * b2) * a2
      BY ONLY <2>4, <3>0, <3>2, <3>3
    <3>5. b1 < p * b2
      BY <3>0, <3>4, TimesKeepsLess
    <3> QED BY ONLY <3>0, <3>5, b1 \in Nat
  <2> QED BY <2>2, <2>3, <2>5 DEF Profit
<1>5. CraftingMethods(i, read) # {}
  BY <1>2
<1>6. Recommendations(i, read, price) = {"craft"} \cup
        (IF VendorPrice[i] # 0 /\ price # 0 /\ 10 * price < 8 * VendorPrice[i] THEN {"vendor"} ELSE {})
  BY <1>1, <1>4, <1>5 DEF Recommendations, cost
<1> QED BY <1>6 DEF price, read

(* While no price changes, every craft a run holds still pays, and the     *)
(* rows that were made of steady prices carry the right advice.            *)
RowAgrees(row) == row.steady => "craft" \in row.advice /\ "buy" \notin row.advice
Row == [recipe : PrimaryRecipes, item : Goods, run : Runs, advice : SUBSET {"craft", "buy", "vendor"}, steady : BOOLEAN]
Run == [step : {"find", "delete", "evaluate", "save"}, left : SUBSET PrimaryRecipes,
        crafts : SUBSET (PrimaryRecipes \X Goods), doubted : SUBSET PrimaryRecipes, began : Nat, rows : SUBSET Row]

(* The crafts that were found with all their prices still pay.             *)
StillPay(crafts, doubted) == \A c \in crafts : c[1] \notin doubted => c \in ProfitableCrafts(c[1], Prices, Prices)

RunAgrees(run) ==
  \/ run = NoRun
  \/ /\ run \in Run /\ run.began <= changes
     /\ run.step = "find" => run.left # {}
     /\ run.step = "evaluate" => run.crafts # {}
     /\ run.step = "delete" => run.crafts # {}
     /\ run.began = changes => StillPay(run.crafts, run.doubted)
     /\ \A row \in run.rows : RowAgrees(row)

EvaluationsInv ==
  /\ offer \in [Goods -> Offers] /\ changes \in Nat
  /\ evaluation \in [Runs -> Run \cup {NoRun}] /\ \A x \in Runs : RunAgrees(evaluation[x])
  /\ \A row \in evaluations : row \in Row /\ RowAgrees(row)

LEMMA EvaluationsStart == EvaluationsInit => EvaluationsInv
BY DEF EvaluationsInit, EvaluationsInv, RunAgrees, NoRun

LEMMA NoRunHasNoStep == ASSUME NEW run \in Run PROVE run # NoRun /\ NoRun.step = "none" /\ run.step # "none"
BY DEF NoRun, Run

LEMMA CraftsAreRecipesAndGoods ==
  ASSUME NEW r \in PrimaryRecipes
  PROVE  \A p, q : /\ ProfitableCrafts(r, p, q) \subseteq PrimaryRecipes \X Goods
                    /\ \A c \in ProfitableCrafts(r, p, q) : c[1] = r
BY DEF ProfitableCrafts

LEMMA AdviceTypes == \A i, read, price : Recommendations(i, read, price) \in SUBSET {"craft", "buy", "vendor"}
BY DEF Recommendations

(* The prices of the offers decide what pays.                              *)
LEMMA SameOffersSamePrices ==
  ASSUME UNCHANGED offer
  PROVE  /\ Prices' = Prices
         /\ \A crafts, doubted : StillPay(crafts, doubted)' <=> StillPay(crafts, doubted)
<1>1. \A i : MarketPrice(i)' = MarketPrice(i)
  BY DEF MarketPrice
<1>2. Prices' = Prices
  BY <1>1 DEF Prices, Without
<1> QED BY <1>2 DEF StillPay

(* What one run does leaves the others as they are. *)
LEMMA OneRunSteps ==
  ASSUME EvaluationsInv, NEW x \in Runs, NEW run \in Run \cup {NoRun}, RunAgrees(run),
         evaluation' = [evaluation EXCEPT ![x] = run], UNCHANGED <<offer, changes>>
  PROVE  /\ (offer \in [Goods -> Offers] /\ changes \in Nat)'
         /\ (evaluation \in [Runs -> Run \cup {NoRun}])'
         /\ (\A y \in Runs : RunAgrees(evaluation[y]))'
<1>1. \A y \in Runs : evaluation'[y] = IF y = x THEN run ELSE evaluation[y]
  BY DEF EvaluationsInv
<1>2. \A q : RunAgrees(q)' <=> RunAgrees(q)
  BY SameOffersSamePrices DEF RunAgrees
<1> QED BY <1>1, <1>2 DEF EvaluationsInv

LEMMA RunFields ==
  ASSUME NEW run \in Run, NEW a, NEW b, NEW c, NEW d
  PROVE  /\ [run EXCEPT !.left = a, !.crafts = b, !.step = c, !.doubted = d]
              \in [step : {c}, left : {a}, crafts : {b}, doubted : {d}, began : {run.began}, rows : {run.rows}]
         /\ [run EXCEPT !.crafts = a, !.step = b, !.rows = c]
              \in [step : {b}, left : {run.left}, crafts : {a}, doubted : {run.doubted}, began : {run.began}, rows : {c}]
<1>1. [run EXCEPT !.left = a, !.crafts = b, !.step = c, !.doubted = d]
              \in [step : {c}, left : {a}, crafts : {b}, doubted : {d}, began : {run.began}, rows : {run.rows}]
  BY DEF Run
<1>2. [run EXCEPT !.crafts = a, !.step = b, !.rows = c]
              \in [step : {b}, left : {run.left}, crafts : {a}, doubted : {run.doubted}, began : {run.began}, rows : {c}]
  BY DEF Run
<1> QED BY <1>1, <1>2

LEMMA ChangeOfferAgrees ==
  ASSUME EvaluationsInv, NEW i \in Goods, ChangeOffer(i)
  PROVE  EvaluationsInv'
<1>1. PICK o \in Offers : offer' = [offer EXCEPT ![i] = o]
  BY DEF ChangeOffer
<1>2. changes \in Nat /\ changes' = changes + 1 /\ evaluation' = evaluation /\ evaluations' = evaluations
  BY DEF ChangeOffer, EvaluationsInv
<1>3. offer' \in [Goods -> Offers] /\ changes' \in Nat
  BY <1>1, <1>2 DEF EvaluationsInv
<1>4. ASSUME NEW y \in Runs PROVE RunAgrees(evaluation[y])'
  <2>1. RunAgrees(evaluation[y])
    BY DEF EvaluationsInv
  <2>2. CASE evaluation[y] = NoRun
    BY <1>2, <2>2 DEF RunAgrees
  <2>3. CASE evaluation[y] # NoRun
    <3>1. evaluation[y].began \in Nat /\ evaluation[y].began <= changes
      BY <2>1, <2>3 DEF RunAgrees, Run
    <3>2. evaluation[y].began <= changes' /\ evaluation[y].began # changes'
      BY <1>2, <3>1
    <3> QED BY <1>2, <2>1, <2>3, <3>2 DEF RunAgrees
  <2> QED BY <2>2, <2>3
<1>5. evaluation' \in [Runs -> Run \cup {NoRun}]
  BY <1>2 DEF EvaluationsInv
<1>6. \A row \in evaluations' : row \in Row /\ RowAgrees(row)
  BY <1>2 DEF EvaluationsInv
<1> QED BY <1>3, <1>4, <1>5, <1>6 DEF EvaluationsInv

LEMMA ScheduledAgrees ==
  ASSUME EvaluationsInv, NEW x \in Runs, ScheduledEvaluationJob(x)
  PROVE  EvaluationsInv'
<1> DEFINE run == [step |-> "find", left |-> PrimaryRecipes, crafts |-> {}, doubted |-> {}, began |-> changes, rows |-> {}]
<1>1. run \in Run /\ RunAgrees(run)
  BY DEF EvaluationsInv, ScheduledEvaluationJob, Run, RunAgrees, StillPay
<1>2. evaluation' = [evaluation EXCEPT ![x] = run] /\ UNCHANGED <<offer, changes, evaluations>>
  BY DEF ScheduledEvaluationJob
<1> HIDE DEF run
<1>3. /\ (offer \in [Goods -> Offers] /\ changes \in Nat)'
      /\ (evaluation \in [Runs -> Run \cup {NoRun}])'
      /\ (\A y \in Runs : RunAgrees(evaluation[y]))'
  BY <1>1, <1>2, OneRunSteps
<1>4. (\A row \in evaluations : row \in Row /\ RowAgrees(row))'
  BY <1>2 DEF EvaluationsInv
<1> QED BY <1>3, <1>4 DEF EvaluationsInv

LEMMA FindAgrees ==
  ASSUME EvaluationsInv, NEW x \in Runs, FindProfitableCrafts(x)
  PROVE  EvaluationsInv'
<1>a. PICK p \in BatchGetMarketPrices(NextRecipe(evaluation[x])), q \in MarketPricesOf(NextRecipe(evaluation[x])) :
        evaluation' = [evaluation EXCEPT ![x] = AfterRecipe(evaluation[x], p, q)]
  BY Zenon DEF FindProfitableCrafts
<1> DEFINE run == evaluation[x]
           r == NextRecipe(run)
           left == run.left \ {r}
           crafts == run.crafts \cup ProfitableCrafts(r, p, q)
           doubted == IF p = Prices /\ q = Prices THEN run.doubted ELSE run.doubted \cup {r}
           step == IF left = {} THEN "delete" ELSE "find"
           found == [run EXCEPT !.left = left, !.crafts = crafts, !.step = step, !.doubted = doubted]
           next == IF left = {} /\ crafts = {} THEN NoRun ELSE found
<1>0. AfterRecipe(run, p, q) = next
  BY DEF AfterRecipe
<1>1. run.step = "find" /\ RunAgrees(run) /\ run \in Run \cup {NoRun}
  BY DEF FindProfitableCrafts, EvaluationsInv
<1>2. run \in Run /\ run.left # {} /\ run.began <= changes
      /\ (run.began = changes => StillPay(run.crafts, run.doubted))
      /\ \A row \in run.rows : RowAgrees(row)
  BY <1>1 DEF RunAgrees, NoRun
<1>3. r \in PrimaryRecipes
  <2>1. run.left \subseteq PrimaryRecipes /\ run.left # {}
    BY <1>2 DEF Run
  <2> HIDE DEF run
  <2> QED BY <2>1 DEF NextRecipe
<1>4. /\ run.step \in {"find", "delete", "evaluate", "save"} /\ run.left \in SUBSET PrimaryRecipes
      /\ run.crafts \in SUBSET (PrimaryRecipes \X Goods) /\ run.doubted \in SUBSET PrimaryRecipes
      /\ run.began \in Nat /\ run.rows \in SUBSET Row
  BY <1>2 DEF Run
<1>5. crafts \in SUBSET (PrimaryRecipes \X Goods) /\ doubted \in SUBSET PrimaryRecipes
  <2> HIDE DEF run, r
  <2> QED BY <1>3, <1>4, CraftsAreRecipesAndGoods
<1>6. found \in [step : {step}, left : {left}, crafts : {crafts}, doubted : {doubted}, began : {run.began}, rows : {run.rows}]
  <2> HIDE DEF run, left, crafts, step, doubted
  <2> QED BY <1>2, RunFields
<1>7. found \in Run
  <2>1. left \in SUBSET PrimaryRecipes /\ step \in {"find", "delete", "evaluate", "save"}
    BY <1>4
  <2> HIDE DEF run, left, crafts, found, step, doubted
  <2> QED BY <1>4, <1>5, <1>6, <2>1 DEF Run
<1>8. run.began = changes => StillPay(crafts, doubted)
  <2> HIDE DEF run, r
  <2> SUFFICES ASSUME run.began = changes, NEW c \in crafts, c[1] \notin doubted
               PROVE  c \in ProfitableCrafts(c[1], Prices, Prices)
    BY DEF StillPay
  <2>1. CASE c \in run.crafts
    BY <1>2, <2>1 DEF StillPay
  <2>2. CASE c \in ProfitableCrafts(r, p, q)
    <3>1. c[1] = r
      BY <1>3, <2>2, CraftsAreRecipesAndGoods
    <3>2. p = Prices /\ q = Prices
      BY <3>1
    <3> QED BY <2>2, <3>1, <3>2
  <2> QED BY <2>1, <2>2
<1>9. next \in Run \cup {NoRun} /\ RunAgrees(next)
  <2>1. CASE left = {} /\ crafts = {}
    BY <2>1 DEF RunAgrees
  <2>2. CASE ~(left = {} /\ crafts = {})
    <3>1. next = found
      BY <2>2
    <3>2. /\ found.step = (IF left = {} THEN "delete" ELSE "find") /\ found.left = left /\ found.doubted = doubted
          /\ found.crafts = crafts /\ found.began = run.began /\ found.rows = run.rows
      BY <1>6
    <3>3. RunAgrees(found)
      <4> HIDE DEF run, r, left, crafts, found, step, doubted
      <4> QED BY <1>2, <1>7, <1>8, <2>2, <3>2 DEF RunAgrees
    <3> HIDE DEF run, r, left, crafts, found, next
    <3> QED BY <1>7, <3>1, <3>3
  <2> QED BY <2>1, <2>2
<1>10. evaluation' = [evaluation EXCEPT ![x] = next] /\ UNCHANGED <<offer, changes, evaluations>>
  BY <1>0, <1>a DEF FindProfitableCrafts, EvaluationsInv
<1> HIDE DEF next
<1>11. /\ (offer \in [Goods -> Offers] /\ changes \in Nat)'
       /\ (evaluation \in [Runs -> Run \cup {NoRun}])'
       /\ (\A y \in Runs : RunAgrees(evaluation[y]))'
  BY <1>9, <1>10, OneRunSteps
<1>12. (\A row \in evaluations : row \in Row /\ RowAgrees(row))'
  BY <1>10 DEF EvaluationsInv
<1> QED BY <1>11, <1>12 DEF EvaluationsInv

LEMMA DeleteAgrees ==
  ASSUME EvaluationsInv, NEW x \in Runs, DeleteEvaluations(x)
  PROVE  EvaluationsInv'
<1> DEFINE run == evaluation[x]
           next == [run EXCEPT !.step = "evaluate"]
<1>1. run.step = "delete" /\ RunAgrees(run) /\ run \in Run \cup {NoRun}
  BY DEF DeleteEvaluations, EvaluationsInv
<1>2. run \in Run
  BY <1>1 DEF RunAgrees, NoRun
<1>3. next \in Run /\ RunAgrees(next)
  BY <1>1, <1>2 DEF RunAgrees, Run, NoRun
<1>4. evaluation' = [evaluation EXCEPT ![x] = next] /\ UNCHANGED <<offer, changes>> /\ evaluations' = {}
  BY DEF DeleteEvaluations, EvaluationsInv
<1> HIDE DEF next
<1>5. /\ (offer \in [Goods -> Offers] /\ changes \in Nat)'
      /\ (evaluation \in [Runs -> Run \cup {NoRun}])'
      /\ (\A y \in Runs : RunAgrees(evaluation[y]))'
  BY <1>3, <1>4, OneRunSteps
<1> QED BY <1>4, <1>5 DEF EvaluationsInv

LEMMA EvaluateAgrees ==
  ASSUME EvaluationsInv, NEW x \in Runs, EvaluateItem(x)
  PROVE  EvaluationsInv'
<1> DEFINE run == evaluation[x]
           c == CHOOSE c \in run.crafts : TRUE
           left == run.crafts \ {c}
           step == IF run.crafts = {c} THEN "save" ELSE "evaluate"
           RowOf(read, price) ==
             [recipe |-> c[1], item |-> c[2], run |-> x, advice |-> Recommendations(c[2], read, price),
              steady |-> /\ changes = run.began /\ c[1] \notin run.doubted
                         /\ read = AllRead /\ price = MarketPrice(c[2])]
<1>0. PICK read, price :
        evaluation' = [evaluation EXCEPT ![x] =
          [run EXCEPT !.crafts = left, !.step = step, !.rows = run.rows \cup {RowOf(read, price)}]]
  BY DEF EvaluateItem, EvaluationsInv
<1> DEFINE row == RowOf(read, price)
           next == [run EXCEPT !.crafts = left, !.step = step, !.rows = run.rows \cup {row}]
<1>1. run.step = "evaluate" /\ RunAgrees(run) /\ run \in Run \cup {NoRun}
  BY DEF EvaluateItem, EvaluationsInv
<1>2. run \in Run /\ run.crafts # {} /\ run.began <= changes
      /\ (run.began = changes => StillPay(run.crafts, run.doubted))
      /\ \A q \in run.rows : RowAgrees(q)
  BY <1>1 DEF RunAgrees, NoRun
<1>3. /\ run.step \in {"find", "delete", "evaluate", "save"} /\ run.left \in SUBSET PrimaryRecipes
      /\ run.crafts \in SUBSET (PrimaryRecipes \X Goods) /\ run.doubted \in SUBSET PrimaryRecipes
      /\ run.began \in Nat /\ run.rows \in SUBSET Row
  BY <1>2 DEF Run
<1>4. c \in run.crafts /\ c \in PrimaryRecipes \X Goods
  BY <1>2, <1>3
<1>5. row \in Row
  <2>1. c[1] \in PrimaryRecipes /\ c[2] \in Goods /\ Recommendations(c[2], read, price) \in SUBSET {"craft", "buy", "vendor"}
    BY <1>4, AdviceTypes
  <2>2. row.steady \in BOOLEAN
    OBVIOUS
  <2> HIDE DEF c, run
  <2> QED BY <2>1, <2>2 DEF Row
<1>6. RowAgrees(row)
  <2> SUFFICES ASSUME changes = run.began, c[1] \notin run.doubted, read = AllRead, price = MarketPrice(c[2])
               PROVE  LET advice == Recommendations(c[2], AllRead, MarketPrice(c[2]))
                      IN  "craft" \in advice /\ "buy" \notin advice
    BY DEF RowAgrees
  <2>1. c \in ProfitableCrafts(c[1], Prices, Prices)
    BY <1>2, <1>4 DEF StillPay
  <2>2. c[1] \in PrimaryRecipes /\ c[2] \in Goods /\ c = <<c[1], c[2]>>
    <3> HIDE DEF c
    <3> QED BY <1>4
  <2>3. offer \in [Goods -> Offers]
    BY DEF EvaluationsInv
  <2> HIDE DEF c, run
  <2> QED BY <2>1, <2>2, <2>3, CraftsAreAdvised
<1>7. next \in [step : {step}, left : {run.left}, crafts : {left}, doubted : {run.doubted}, began : {run.began},
                rows : {run.rows \cup {row}}]
  <2> HIDE DEF run, row, c, step, left
  <2> QED BY <1>2, RunFields
<1>8. step \in {"find", "delete", "evaluate", "save"} /\ (step = "evaluate" => left # {}) /\ step # "find" /\ step # "delete"
  BY <1>4
<1>9. next \in Run /\ RunAgrees(next)
  <2>1. next \in Run
    <3>1. left \in SUBSET (PrimaryRecipes \X Goods)
      <4> HIDE DEF row, c, step, run
      <4> QED BY <1>3
    <3>2. run.rows \cup {row} \in SUBSET Row
      <4> HIDE DEF row, c, step, run
      <4> QED BY <1>3, <1>5
    <3> HIDE DEF run, row, c, left, step, next
    <3> QED BY <3>2, <1>3, <1>7, <1>8, <3>1 DEF Run
  <2>2. next.step = step /\ next.left = run.left /\ next.crafts = left /\ next.doubted = run.doubted
        /\ next.began = run.began /\ next.rows = run.rows \cup {row}
    BY <1>7
  <2>3. \A d \in left : d \in run.crafts
    OBVIOUS
  <2>4. \A q \in run.rows \cup {row} : RowAgrees(q)
    <3> HIDE DEF row
    <3> QED BY <1>2, <1>6
  <2>5. run.began = changes => StillPay(left, run.doubted)
    BY <1>2, <2>3 DEF StillPay
  <2> HIDE DEF run, row, c, left, step, next
  <2> QED BY <1>2, <1>8, <2>1, <2>2, <2>4, <2>5 DEF RunAgrees
<1>10. evaluation' = [evaluation EXCEPT ![x] = next] /\ UNCHANGED <<offer, changes, evaluations>>
  BY <1>0 DEF EvaluateItem, EvaluationsInv
<1> HIDE DEF next
<1>11. /\ (offer \in [Goods -> Offers] /\ changes \in Nat)'
       /\ (evaluation \in [Runs -> Run \cup {NoRun}])'
       /\ (\A y \in Runs : RunAgrees(evaluation[y]))'
  BY <1>9, <1>10, OneRunSteps
<1>12. (\A q \in evaluations : q \in Row /\ RowAgrees(q))'
  BY <1>10 DEF EvaluationsInv
<1> QED BY <1>11, <1>12 DEF EvaluationsInv

LEMMA SaveAgrees ==
  ASSUME EvaluationsInv, NEW x \in Runs, SaveEvaluations(x) \/ EvaluationFails(x)
  PROVE  EvaluationsInv'
<1>1. evaluation' = [evaluation EXCEPT ![x] = NoRun] /\ UNCHANGED <<offer, changes>>
  BY DEF SaveEvaluations, EvaluationFails
<1>2. NoRun \in Run \cup {NoRun} /\ RunAgrees(NoRun)
  BY DEF RunAgrees
<1>3. /\ (offer \in [Goods -> Offers] /\ changes \in Nat)'
      /\ (evaluation \in [Runs -> Run \cup {NoRun}])'
      /\ (\A y \in Runs : RunAgrees(evaluation[y]))'
  BY <1>1, <1>2, OneRunSteps
<1>4. ASSUME NEW row \in evaluations' PROVE row \in Row /\ RowAgrees(row)
  <2>1. CASE EvaluationFails(x) \/ row \in evaluations
    BY <2>1 DEF EvaluationFails, EvaluationsInv
  <2>2. CASE SaveEvaluations(x) /\ row \notin evaluations
    <3>1. row \in evaluation[x].rows /\ evaluation[x].step = "save" /\ RunAgrees(evaluation[x])
      BY <1>4, <2>2 DEF SaveEvaluations, EvaluationsInv
    <3>2. evaluation[x] \in Run
      BY <3>1 DEF RunAgrees, NoRun
    <3> QED BY <3>1, <3>2 DEF RunAgrees, Run, NoRun
  <2> QED BY <2>1, <2>2
<1> QED BY <1>3, <1>4 DEF EvaluationsInv

LEMMA EvaluationsStep == EvaluationsInv /\ [EvaluationsNext]_evaluationVars => EvaluationsInv'
<1> SUFFICES ASSUME EvaluationsInv, [EvaluationsNext]_evaluationVars PROVE EvaluationsInv'
  OBVIOUS
<1>1. CASE UNCHANGED evaluationVars
  <2>1. \A q : RunAgrees(q)' <=> RunAgrees(q)
    BY <1>1, SameOffersSamePrices DEF RunAgrees, evaluationVars
  <2> QED BY <1>1, <2>1 DEF EvaluationsInv, evaluationVars
<1>2. CASE EvaluationsNext
  BY <1>2, ChangeOfferAgrees, ScheduledAgrees, FindAgrees, DeleteAgrees, EvaluateAgrees, SaveAgrees DEF EvaluationsNext
<1> QED BY <1>1, <1>2

(* Rows agree with the costs of their moment in the table and in every     *)
(* run that holds some (evaluation.service.ts:941-1006), and while no      *)
(* price changed since a run began, the crafts it found by prices that it  *)
(* could read still pay.                                                   *)
THEOREM EvaluationsHold == EvaluationsSpec => []EvaluationsInv
<1>1. EvaluationsInit => EvaluationsInv
  BY EvaluationsStart
<1> QED BY <1>1, EvaluationsStep, PTL DEF EvaluationsSpec

(* A stored row says to craft and does not say to buy, unless a price      *)
(* changed since its run began or one of the row's own queries failed      *)
(* (evaluation.service.ts:442-566, 824-868): a craft pays by its own       *)
(* recipe, and the cheapest recipe of the item costs no more.  A query     *)
(* that fails for another recipe, in this run or in another, is no excuse. *)
THEOREM AdviceIsRight == EvaluationsSpec => []AdviceAgrees
<1>1. EvaluationsInv => AdviceAgrees
  BY DEF EvaluationsInv, AdviceAgrees, RowAgrees
<1> QED BY <1>1, EvaluationsHold, PTL

-----------------------------------------------------------------------------
(* price-binning.ts: the axis ascends strictly, and the binary search ends *)
(* at the row that holds the price.                                        *)

LEMMA MinIs ==
  ASSUME NEW S \in SUBSET Nat, S # {}
  PROVE  Min(S) \in S /\ \A y \in S : Min(S) <= y
BY LeastNumber DEF Min

LEMMA MaxIs ==
  ASSUME NEW S \in SUBSET Nat, S # {}, IsFiniteSet(S)
  PROVE  Max(S) \in S /\ \A y \in S : y <= Max(S)
<1> DEFINE R == {z \in S \X S : z[1] > z[2]}
<1>1. \A a, b \in S : <<a, b>> \in R <=> a > b
  OBVIOUS
<1>2. (\A a \in S : <<a, a>> \notin R) /\ \A a, b, c \in S : <<a, b>> \in R /\ <<b, c>> \in R => <<a, c>> \in R
  BY <1>1
<1>3. \E m \in S : \A a \in S : <<a, m>> \notin R
  <2> HIDE DEF R
  <2> QED BY <1>2, MinimalElement
<1>4. \E m \in S : \A a \in S : m >= a
  <2> HIDE DEF R
  <2>1. PICK m \in S : \A a \in S : <<a, m>> \notin R
    BY <1>3
  <2>2. \A a \in S : ~(a > m)
    BY <1>1, <2>1
  <2>3. \A a \in S : m >= a
    BY <2>2
  <2> QED BY <2>3
<1>5. Max(S) \in S /\ \A y \in S : Max(S) >= y
  BY <1>4 DEF Max
<1> DEFINE m == Max(S)
<1>6. m \in S /\ \A y \in S : m >= y
  BY <1>5
<1> HIDE DEF m
<1>7. \A y \in S : y <= m
  BY <1>6
<1> QED BY <1>6, <1>7 DEF m

(* Every rank below the number of elements has its element.                *)
LEMMA RanksExist ==
  ASSUME NEW S \in SUBSET Nat, IsFiniteSet(S)
  PROVE  \A n \in Nat : n < Cardinality(S) => \E v \in S : Cardinality({u \in S : u < v}) = n
<1> DEFINE Below(v) == {u \in S : u < v}
           Ranked(n) == n < Cardinality(S) => \E v \in S : Cardinality(Below(v)) = n
           N == {n \in Nat : Ranked(n)}
<1>0. \A T \in SUBSET S : IsFiniteSet(T) /\ Cardinality(T) \in Nat /\ (Cardinality(T) = 0 <=> T = {})
  BY FS_Subset, FS_CardinalityType, FS_EmptySet
<1>1. Ranked(0)
  <2> SUFFICES ASSUME 0 < Cardinality(S) PROVE \E v \in S : Cardinality(Below(v)) = 0
    OBVIOUS
  <2>1. S # {}
    BY <1>0
  <2>2. PICK v \in S : \A y \in S : v <= y
    BY <2>1, LeastNumber
  <2>3. Below(v) = {}
    <3>1. ASSUME NEW u \in S PROVE ~(u < v)
      <4>1. u \in Nat /\ v \in Nat /\ v <= u
        BY <2>2
      <4> QED BY ONLY <4>1
    <3> QED BY <3>1
  <2> QED BY <1>0, <2>3
<1>2. ASSUME NEW n \in Nat, Ranked(n) PROVE Ranked(n + 1)
  <2> SUFFICES ASSUME n + 1 < Cardinality(S) PROVE \E v \in S : Cardinality(Below(v)) = n + 1
    OBVIOUS
  <2>1. Cardinality(S) \in Nat
    BY <1>0
  <2>2. PICK v \in S : Cardinality(Below(v)) = n
    <3>1. n < Cardinality(S)
      BY <2>1
    <3> HIDE DEF Below
    <3> QED BY <1>2, <3>1
  <2>3. Cardinality(Below(v) \cup {v}) = n + 1
    <3>1. v \notin Below(v) /\ IsFiniteSet(Below(v))
      BY <1>0
    <3> HIDE DEF Below
    <3> QED BY <2>2, <3>1, FS_AddElement
  <2> DEFINE Above == {u \in S : v < u}
  <2>4. Above # {}
    <3> SUFFICES ASSUME Above = {} PROVE FALSE
      OBVIOUS
    <3>0. ASSUME NEW u \in S PROVE u < v \/ u = v
      <4>1. ~(v < u)
        OBVIOUS
      <4> QED BY <4>1
    <3>1. S = Below(v) \cup {v}
      BY <3>0
    <3>2. Cardinality(S) = n + 1
      <4> HIDE DEF Below
      <4> QED BY <2>3, <3>1
    <3> QED BY <2>1, <3>2
  <2>5. PICK w \in Above : \A y \in Above : w <= y
    <3>1. Above \in SUBSET Nat
      OBVIOUS
    <3> HIDE DEF Above
    <3> QED BY <2>4, <3>1, LeastNumber
  <2>6. w \in S /\ v < w /\ \A y \in S : v < y => w <= y
    BY <2>5
  <2>7. Below(w) = Below(v) \cup {v}
    <3>1. ASSUME NEW u \in S PROVE u < w <=> u < v \/ u = v
      <4>1. w \in S /\ v < w /\ (v < u => w <= u)
        BY <2>6
      <4> QED BY ONLY <4>1, u \in S, v \in S, S \in SUBSET Nat
    <3> QED BY <3>1
  <2> HIDE DEF Below
  <2> QED BY <2>3, <2>6, <2>7
<1>3. N = Nat
  <2>1. 0 \in N /\ \A n \in N : n + 1 \in N
    <3> HIDE DEF Ranked
    <3> QED BY <1>1, <1>2
  <2>2. N \in SUBSET Nat
    OBVIOUS
  <2> HIDE DEF N
  <2> QED BY <2>1, <2>2, NumbersFromZero
<1>4. \A n \in Nat : Ranked(n)
  <2> HIDE DEF Ranked
  <2> QED BY <1>3
<1> QED BY <1>4

Strict(s) == \A i \in 1 .. Len(s) - 1 : s[i] < s[i + 1]

(* The elements in the order of their ranks ascend.                        *)
LEMMA AscendingAscends ==
  ASSUME NEW S \in SUBSET Nat, IsFiniteSet(S)
  PROVE  /\ Ascending(S) \in Seq(Nat) /\ Len(Ascending(S)) = Cardinality(S)
         /\ Strict(Ascending(S))
<1> DEFINE Below(v) == {u \in S : u < v}
           Nth(n) == CHOOSE v \in S : Cardinality(Below(v)) = n - 1
           a == [n \in 1 .. Cardinality(S) |-> Nth(n)]
<1>0. Ascending(S) = a
  BY DEF Ascending
<1>1. Cardinality(S) \in Nat
  BY FS_CardinalityType
<1>2. \A n \in 1 .. Cardinality(S) : \E v \in S : Cardinality(Below(v)) = n - 1
  <2> TAKE n \in 1 .. Cardinality(S)
  <2>1. n - 1 \in Nat /\ n - 1 < Cardinality(S)
    BY <1>1
  <2> QED BY <2>1, RanksExist
<1>3. \A n \in 1 .. Cardinality(S) : Nth(n) \in S /\ Cardinality(Below(Nth(n))) = n - 1
  <2> TAKE n \in 1 .. Cardinality(S)
  <2>1. \E v \in S : Cardinality(Below(v)) = n - 1
    BY <1>2
  <2> HIDE DEF Below
  <2> QED BY <2>1
<1> HIDE DEF Nth
<1>4. a \in Seq(Nat) /\ Len(a) = Cardinality(S)
  <2>1. a \in [1 .. Cardinality(S) -> Nat]
    BY <1>3
  <2> HIDE DEF a
  <2> QED BY <1>1, <2>1
<1>5. ASSUME NEW n \in 1 .. Cardinality(S) - 1 PROVE Nth(n) < Nth(n + 1)
  <2>1. n \in 1 .. Cardinality(S) /\ n + 1 \in 1 .. Cardinality(S)
    BY <1>1
  <2>2. Nth(n) \in S /\ Nth(n + 1) \in S /\ Cardinality(Below(Nth(n))) = n - 1 /\ Cardinality(Below(Nth(n + 1))) = (n + 1) - 1
    BY <1>3, <2>1
  <2>0. Nth(n) \in Nat /\ Nth(n + 1) \in Nat
    BY <2>2
  <2> SUFFICES ASSUME Nth(n + 1) <= Nth(n) PROVE FALSE
    BY <2>0
  <2>3. Below(Nth(n + 1)) \subseteq Below(Nth(n))
    <3> DEFINE x == Nth(n)
               y == Nth(n + 1)
    <3>1. x \in Nat /\ y \in Nat /\ y <= x
      BY ONLY <2>0, Nth(n + 1) <= Nth(n)
    <3>2. Below(y) \subseteq Below(x)
      <4> HIDE DEF x, y
      <4>1. ASSUME NEW u \in S, u < y PROVE u < x
        BY <3>1, <4>1
      <4> QED BY <4>1
    <3> QED BY <3>2
  <2>4. IsFiniteSet(Below(Nth(n)))
    BY FS_Subset
  <2>5. Cardinality(Below(Nth(n + 1))) <= Cardinality(Below(Nth(n)))
    <3> HIDE DEF Below
    <3> QED BY <2>3, <2>4, FS_Subset
  <2> HIDE DEF Below
  <2> QED BY ONLY <2>2, <2>5, n \in 1 .. Cardinality(S) - 1, <1>1
<1>6. \A n \in 1 .. Cardinality(S) - 1 : a[n] < a[n + 1]
  <2> TAKE n \in 1 .. Cardinality(S) - 1
  <2>1. n \in 1 .. Cardinality(S) /\ n + 1 \in 1 .. Cardinality(S)
    BY <1>1
  <2>2. a[n] = Nth(n)
    BY <2>1
  <2>3. a[n + 1] = Nth(n + 1)
    BY <2>1
  <2> HIDE DEF a
  <2> QED BY <1>5, <2>2, <2>3
<1> HIDE DEF a
<1> QED BY <1>0, <1>4, <1>6 DEF Strict

(* A recursion that follows next until it stops: the function exists, and  *)
(* where the start is good, next stays good and a good end has the type,   *)
(* so has the result.                                                      *)
IsDescent(g, D, stop, value, next) ==
  g = [x \in D |-> IF stop[x] THEN value[x] ELSE g[next[x]]]
Descends(D, rank, bound, stop, next) ==
  /\ rank \in [D -> 0 .. bound]
  /\ \A x \in D : ~stop[x] => next[x] \in D /\ rank[next[x]] < rank[x]
KeepsGood(Good, Typ, stop, value, next) ==
  \A x \in Good : IF stop[x] THEN value[x] \in Typ ELSE next[x] \in Good

(* A recursive function whose calls get smaller is defined by its          *)
(* equation.                                                               *)
LEMMA DescentExists ==
  ASSUME NEW D, NEW rank, NEW bound \in Nat, NEW stop, NEW value, NEW next,
         Descends(D, rank, bound, stop, next)
  PROVE  \E g : IsDescent(g, D, stop, value, next)
<1> DEFINE Body(g, x) == IF stop[x] THEN value[x] ELSE g[next[x]]
           Upto(g, n) == \A x \in D : rank[x] < n => g[x] = Body(g, x)
           N == {n \in Nat : \E g : Upto(g, n)}
<1>1. \A x \in D : rank[x] \in Nat /\ rank[x] < bound + 1
  BY DEF Descends
<1>2. \A x \in D : ~stop[x] => next[x] \in D /\ rank[next[x]] < rank[x]
  BY DEF Descends
<1>3. 0 \in N
  <2>1. Upto([x \in D |-> 0], 0)
    <3>1. \A x \in D : ~(rank[x] < 0)
      BY <1>1
    <3> QED BY <3>1
  <2> HIDE DEF Upto
  <2> QED BY <2>1
<1>4. ASSUME NEW n \in N PROVE n + 1 \in N
  <2>1. PICK g : Upto(g, n)
    OBVIOUS
  <2> DEFINE h == [x \in D |-> IF rank[x] < n THEN g[x] ELSE Body(g, x)]
  <2>2. ASSUME NEW x \in D PROVE h[x] = Body(g, x)
    BY <2>1
  <2>3. ASSUME NEW x \in D, rank[x] < n + 1 PROVE Body(g, x) = Body(h, x)
    <3>1. CASE stop[x]
      BY <3>1
    <3>2. CASE ~stop[x]
      <4>1. next[x] \in D /\ rank[next[x]] < n
        <5>1. next[x] \in D /\ rank[next[x]] < rank[x] /\ rank[x] \in Nat /\ rank[next[x]] \in Nat /\ n \in Nat
          BY <1>1, <1>2, <3>2
        <5> QED BY ONLY <5>1, <2>3
      <4>2. h[next[x]] = g[next[x]]
        BY <4>1
      <4> QED BY <3>2, <4>2
    <3> QED BY <3>1, <3>2
  <2>4. Upto(h, n + 1)
    BY <2>2, <2>3
  <2>5. n + 1 \in Nat
    OBVIOUS
  <2> HIDE DEF h, Upto
  <2> QED BY <2>4, <2>5
<1>5. N = Nat
  <2>1. N \in SUBSET Nat
    OBVIOUS
  <2> HIDE DEF N
  <2> QED BY <1>3, <1>4, <2>1, NumbersFromZero
<1>6. PICK f : Upto(f, bound + 1)
  <2>1. bound + 1 \in N
    <3> HIDE DEF N
    <3> QED BY <1>5
  <2> HIDE DEF Upto
  <2> QED BY <2>1
<1> DEFINE g == [x \in D |-> f[x]]
<1>7. \A x \in D : f[x] = Body(f, x)
  BY <1>1, <1>6
<1>8. \A x \in D : Body(f, x) = Body(g, x)
  BY <1>2
<1>9. g = [x \in D |-> Body(g, x)]
  BY <1>7, <1>8
<1> HIDE DEF g
<1> QED BY <1>9 DEF IsDescent

(* It has whatever property its calls hand on.                             *)
LEMMA DescentKeeps ==
  ASSUME NEW D, NEW rank, NEW bound \in Nat, NEW stop, NEW value, NEW next,
         Descends(D, rank, bound, stop, next),
         NEW g, IsDescent(g, D, stop, value, next),
         NEW Good \in SUBSET D, NEW Typ,
         KeepsGood(Good, Typ, stop, value, next)
  PROVE  \A x \in Good : g[x] \in Typ
<1> DEFINE Bad == {x \in Good : g[x] \notin Typ}
           Ranks == {rank[x] : x \in Bad}
<1>1. SUFFICES ASSUME Bad # {} PROVE FALSE
  OBVIOUS
<1>2. \A x \in D : rank[x] \in Nat
  BY DEF Descends
<1>3. \A x \in D : ~stop[x] => next[x] \in D /\ rank[next[x]] < rank[x]
  BY DEF Descends
<1>4. \A x \in D : g[x] = IF stop[x] THEN value[x] ELSE g[next[x]]
  BY DEF IsDescent
<1>5. PICK x \in Bad : \A y \in Bad : rank[x] <= rank[y]
  <2>1. Ranks \in SUBSET Nat /\ Ranks # {}
    BY <1>1, <1>2
  <2>2. \E n \in Ranks : \A m \in Ranks : n <= m
    <3> HIDE DEF Ranks
    <3> QED BY <2>1, LeastNumber
  <2> QED BY <2>2
<1>6. ~stop[x] /\ next[x] \in Bad
  <2>1. ~stop[x] /\ next[x] \in Good
    BY <1>4, <1>5 DEF KeepsGood
  <2>2. g[next[x]] \notin Typ
    BY <1>4, <1>5, <2>1
  <2> QED BY <2>1, <2>2
<1>7. rank[next[x]] < rank[x] /\ rank[x] <= rank[next[x]] /\ rank[x] \in Nat /\ rank[next[x]] \in Nat
  BY <1>2, <1>3, <1>5, <1>6
<1> QED BY ONLY <1>7

(* The middle of two numbers lies between them.                            *)
LEMMA Halves ==
  ASSUME NEW lo \in Nat, NEW hi \in Nat, lo < hi
  PROVE  (lo + hi) \div 2 \in Nat /\ lo <= (lo + hi) \div 2 /\ (lo + hi) \div 2 < hi
OBVIOUS

(* The binary search ends at the interval that holds the price.            *)
LEMMA BucketHoldsPrice ==
  ASSUME edges \in Seq(Nat), edges # <<>>, NEW p \in Nat, edges[1] < p, p < Last(edges)
  PROVE  \E k \in Nat : /\ AssignPriceBucket(p) = k /\ k + 2 <= Len(edges)
                        /\ edges[k + 1] <= p /\ p < edges[k + 2]
<1> DEFINE L == Len(edges)
           D == Rows \X Rows
           Mid(r) == (r[1] + r[2]) \div 2
           stop == [r \in D |-> r[1] >= r[2]]
           value == [r \in D |-> r[1] - 1]
           next == [r \in D |-> IF p < edges[Mid(r) + 1] THEN <<r[1], Mid(r)>> ELSE <<Mid(r) + 1, r[2]>>]
           rank == [r \in D |-> IF r[1] < r[2] THEN r[2] - r[1] ELSE 0]
           Search(g) == g = [r \in D |->
             IF r[1] >= r[2] THEN r[1] - 1
             ELSE IF p < edges[Mid(r) + 1] THEN g[<<r[1], Mid(r)>>] ELSE g[<<Mid(r) + 1, r[2]>>]]
           g == CHOOSE g : Search(g)
           Good == {r \in D : /\ r[1] <= r[2] /\ r[2] < L
                              /\ r[1] = 0 \/ edges[r[1]] <= p
                              /\ p < edges[r[2] + 1]}
           Typ == {k \in Nat : k + 2 <= L /\ edges[k + 1] <= p /\ p < edges[k + 2]}
<1>1. L \in Nat /\ L > 0 /\ Last(edges) = edges[L] /\ \A i \in 1 .. L : edges[i] \in Nat
  BY DEF Last
<1>2. AssignPriceBucket(p) = g[<<0, L - 1>>]
  <2>1. ~(Len(edges) = 0 \/ p <= edges[1]) /\ ~(p >= Last(edges))
    BY <1>1
  <2>2. AssignPriceBucket(p) = IF Len(edges) = 0 \/ p <= edges[1] THEN 0
                               ELSE IF p >= Last(edges) THEN Len(edges) - 1 ELSE g[<<0, Len(edges) - 1>>]
    BY DEF AssignPriceBucket
  <2> HIDE DEF g
  <2> QED BY <2>1, <2>2
<1>3. ASSUME NEW r \in D
      PROVE  r[1] \in 0 .. L /\ r[2] \in 0 .. L /\ r = <<r[1], r[2]>>
  BY DEF Rows
<1>4. ASSUME NEW r \in D, ~stop[r]
      PROVE  /\ Mid(r) \in Nat /\ r[1] <= Mid(r) /\ Mid(r) < r[2]
             /\ next[r] \in D /\ rank[next[r]] < rank[r]
  <2>0. r[1] \in 0 .. L /\ r[2] \in 0 .. L /\ ~(r[1] >= r[2])
    BY <1>3, <1>4
  <2>1. r[1] \in Nat /\ r[2] \in Nat /\ r[1] < r[2] /\ r[2] <= L
    <3> HIDE DEF L
    <3> QED BY <1>1, <2>0
  <2>2. Mid(r) \in Nat /\ r[1] <= Mid(r) /\ Mid(r) < r[2]
    <3> DEFINE lo == r[1]
               hi == r[2]
    <3>1. lo \in Nat /\ hi \in Nat /\ lo < hi
      BY <2>1
    <3> HIDE DEF lo, hi
    <3>2. (lo + hi) \div 2 \in Nat /\ lo <= (lo + hi) \div 2 /\ (lo + hi) \div 2 < hi
      BY ONLY <3>1, Halves
    <3> QED BY <3>2 DEF lo, hi
  <2> DEFINE m == Mid(r)
  <2>3. m \in Nat /\ r[1] <= m /\ m < r[2]
    BY <2>2
  <2>4. next[r] = IF p < edges[m + 1] THEN <<r[1], m>> ELSE <<m + 1, r[2]>>
    OBVIOUS
  <2> HIDE DEF m
  <2>5. <<r[1], m>> \in D /\ <<m + 1, r[2]>> \in D
    BY <1>1, <2>1, <2>3 DEF Rows
  <2>6. rank[r] = r[2] - r[1]
    BY <2>1
  <2>7. rank[<<r[1], m>>] < r[2] - r[1]
    <3>1. rank[<<r[1], m>>] = IF r[1] < m THEN m - r[1] ELSE 0
      BY <2>5
    <3> HIDE DEF rank
    <3> QED BY <2>1, <2>3, <3>1
  <2>8. rank[<<m + 1, r[2]>>] < r[2] - r[1]
    <3>1. rank[<<m + 1, r[2]>>] = IF m + 1 < r[2] THEN r[2] - (m + 1) ELSE 0
      BY <2>5
    <3> HIDE DEF rank
    <3> QED BY <2>1, <2>3, <3>1
  <2> HIDE DEF next, rank
  <2> QED BY <2>2, <2>4, <2>5, <2>6, <2>7, <2>8
<1>5. Descends(D, rank, L, stop, next)
  <2>1. rank \in [D -> 0 .. L]
    <3>1. \A r \in D : rank[r] \in 0 .. L
      <4> TAKE r \in D
      <4>1. r[1] \in 0 .. L /\ r[2] \in 0 .. L
        BY <1>3
      <4>2. rank[r] = IF r[1] < r[2] THEN r[2] - r[1] ELSE 0
        OBVIOUS
      <4> HIDE DEF rank
      <4> QED BY <1>1, <4>1, <4>2
    <3> QED BY <3>1
  <2> HIDE DEF rank, next, stop
  <2> QED BY <1>4, <2>1 DEF Descends
<1>6. ASSUME NEW f PROVE Search(f) <=> IsDescent(f, D, stop, value, next)
  <2>1. ASSUME NEW r \in D
        PROVE  (IF r[1] >= r[2] THEN r[1] - 1
                ELSE IF p < edges[Mid(r) + 1] THEN f[<<r[1], Mid(r)>>] ELSE f[<<Mid(r) + 1, r[2]>>])
             = (IF stop[r] THEN value[r] ELSE f[next[r]])
    <3> DEFINE m == Mid(r)
    <3> HIDE DEF m
    <3>1. stop[r] = (r[1] >= r[2]) /\ value[r] = r[1] - 1
          /\ next[r] = IF p < edges[m + 1] THEN <<r[1], m>> ELSE <<m + 1, r[2]>>
      BY DEF m
    <3> HIDE DEF stop, value, next
    <3>2. (IF r[1] >= r[2] THEN r[1] - 1
                ELSE IF p < edges[m + 1] THEN f[<<r[1], m>>] ELSE f[<<m + 1, r[2]>>])
             = (IF stop[r] THEN value[r] ELSE f[next[r]])
      BY <3>1
    <3> QED BY <3>2 DEF m
  <2> HIDE DEF stop, value, next, D, Mid
  <2> QED BY <2>1 DEF IsDescent
<1>7. IsDescent(g, D, stop, value, next)
  <2>1. \E f : IsDescent(f, D, stop, value, next)
    <3> HIDE DEF stop, value, next, D, rank, L
    <3> QED BY <1>1, <1>5, DescentExists
  <2>2. \E f : Search(f)
    <3> HIDE DEF stop, value, next, D, rank, Search
    <3> QED BY <1>6, <2>1
  <2>3. Search(g)
    <3> HIDE DEF Search
    <3> QED BY <2>2
  <2> HIDE DEF stop, value, next, D, rank, Search, g
  <2> QED BY <1>6, <2>3
<1>8. ASSUME NEW r \in Good
      PROVE  IF stop[r] THEN value[r] \in Typ ELSE next[r] \in Good
  <2>1. r \in D /\ r[1] \in Nat /\ r[2] \in Nat /\ r[1] <= r[2] /\ r[2] < L
        /\ (r[1] = 0 \/ edges[r[1]] <= p) /\ p < edges[r[2] + 1]
    BY <1>3
  <2>2. CASE stop[r]
    <3>0. r[1] >= r[2] /\ value[r] = r[1] - 1
      BY <2>1, <2>2
    <3>1. r[1] = r[2] /\ value[r] = r[1] - 1
      BY ONLY <2>1, <3>0
    <3>2. r[1] # 0
      <4>1. edges[1] \in Nat
        BY <1>1
      <4> QED BY <2>1, <3>1, <4>1
    <3>3. r[1] - 1 \in Nat /\ (r[1] - 1) + 1 = r[1] /\ (r[1] - 1) + 2 = r[2] + 1 /\ r[2] + 1 <= L
      <4> DEFINE lo == r[1]
                 hi == r[2]
      <4>1. lo \in Nat /\ hi \in Nat /\ lo = hi /\ lo # 0 /\ hi < L /\ L \in Nat
        BY <1>1, <2>1, <3>1, <3>2
      <4> HIDE DEF lo, hi, L
      <4>2. lo - 1 \in Nat /\ (lo - 1) + 1 = lo /\ (lo - 1) + 2 = hi + 1 /\ hi + 1 <= L
        BY ONLY <4>1
      <4> QED BY <4>2 DEF lo, hi
    <3>4. value[r] \in Typ
      <4> DEFINE k == r[1] - 1
      <4>1. k \in Nat /\ k + 1 = r[1] /\ k + 2 = r[2] + 1 /\ k + 2 <= L /\ value[r] = k
        BY <3>1, <3>3
      <4>2. edges[k + 1] <= p /\ p < edges[k + 2]
        BY <2>1, <3>2, <4>1
      <4> HIDE DEF k, value
      <4> QED BY <4>1, <4>2
    <3> QED BY <2>2, <3>4
  <2>3. CASE ~stop[r]
    <3> DEFINE m == Mid(r)
    <3>1. m \in Nat /\ r[1] <= m /\ m < r[2] /\ next[r] \in D
      BY <1>4, <2>1, <2>3
    <3>2. next[r] = IF p < edges[m + 1] THEN <<r[1], m>> ELSE <<m + 1, r[2]>>
      BY <2>1
    <3> HIDE DEF m
    <3>3. edges[m + 1] \in Nat
      BY <1>1, <2>1, <3>1
    <3>4. CASE p < edges[m + 1]
      <4>1. next[r] = <<r[1], m>>
        BY <3>2, <3>4
      <4> HIDE DEF next, stop
      <4>2. m < L
        BY <1>1, <2>1, <3>1
      <4>3. <<r[1], m>> \in D
        BY <3>1, <4>1
      <4>4. <<r[1], m>> \in Good
        BY <2>1, <3>1, <3>4, <4>2, <4>3
      <4> QED BY <2>3, <4>1, <4>4
    <3>5. CASE ~(p < edges[m + 1])
      <4>1. next[r] = <<m + 1, r[2]>>
        BY <3>2, <3>5
      <4> HIDE DEF next, stop
      <4>2. m + 1 <= r[2] /\ edges[m + 1] <= p
        <5>1. m + 1 <= r[2]
          BY ONLY <2>1, <3>1
        <5>2. edges[m + 1] <= p
          BY ONLY <3>3, <3>5, p \in Nat
        <5> QED BY <5>1, <5>2
      <4>3. <<m + 1, r[2]>> \in D
        BY <3>1, <4>1
      <4>4. <<m + 1, r[2]>> \in Good
        BY <2>1, <4>2, <4>3
      <4> QED BY <2>3, <4>1, <4>4
    <3> QED BY <3>4, <3>5
  <2> QED BY <2>2, <2>3
<1>9. <<0, L - 1>> \in Good
  <2>1. <<0, L - 1>> \in D /\ L - 1 < L /\ (L - 1) + 1 = L /\ 0 <= L - 1
    BY <1>1 DEF Rows
  <2>2. p < edges[(L - 1) + 1]
    BY <1>1, <2>1
  <2> HIDE DEF D, L
  <2> QED BY <2>1, <2>2
<1>10. g[<<0, L - 1>>] \in Typ
  <2>1. Good \in SUBSET D
    OBVIOUS
  <2>2. L \in Nat
    BY <1>1
  <2> HIDE DEF stop, value, next, D, rank, L, Good, Typ, g
  <2>3. KeepsGood(Good, Typ, stop, value, next)
    BY <1>8 DEF KeepsGood
  <2>4. \A r \in Good : g[r] \in Typ
    BY ONLY <1>5, <1>7, <2>1, <2>2, <2>3, DescentKeeps, Zenon
  <2> QED BY ONLY <1>9, <2>4
<1> HIDE DEF g
<1> QED BY <1>2, <1>10

LEMMA NiceStepIsPositive ==
  ASSUME NEW v \in Nat
  PROVE  NiceStep(v) \in Nat \ {0}
<1> DEFINE half == {s \in NiceSteps : 2 * s <= v}
<1>1. half \in SUBSET Nat /\ IsFiniteSet(half) /\ half \subseteq NiceSteps
  BY StepsAssumption, FS_Subset
<1>2. NiceStep(v) = IF half = {} THEN Min(NiceSteps) ELSE Max(half)
  BY DEF NiceStep
<1> HIDE DEF half
<1>3. half # {} => Max(half) \in half
  BY <1>1, MaxIs
<1>4. Min(NiceSteps) \in NiceSteps
  BY StepsAssumption, MinIs
<1> QED BY <1>1, <1>2, <1>3, <1>4, StepsAssumption

LEMMA QuotientIsNatural ==
  ASSUME NEW a \in Nat, NEW b \in Nat \ {0}
  PROVE  a \div b \in Nat
OBVIOUS

LEMMA RoundingIsNatural ==
  ASSUME ties \in {0, 1}, NEW v \in Nat, NEW step \in Nat \ {0}
  PROVE  RoundToStep(v, step) \in Nat /\ ToFixed(v) \in Nat
<1>1. (2 * v + step) \div (2 * step) \in Nat
  <2>1. 2 * v + step \in Nat /\ 2 * step \in Nat \ {0}
    OBVIOUS
  <2> QED BY <2>1, QuotientIsNatural
<1>2. (v + 4 + ties) \div 10 \in Nat
  <2>1. v + 4 + ties \in Nat /\ 10 \in Nat \ {0}
    OBVIOUS
  <2> QED BY <2>1, QuotientIsNatural
<1>3. ((2 * v + step) \div (2 * step)) * step \in Nat
  <2> DEFINE q == (2 * v + step) \div (2 * step)
  <2>1. q \in Nat
    BY <1>1
  <2> HIDE DEF q
  <2>2. q * step \in Nat
    BY <2>1
  <2> QED BY <2>2 DEF q
<1>4. ((v + 4 + ties) \div 10) * 10 \in Nat
  <2> DEFINE q == (v + 4 + ties) \div 10
  <2>1. q \in Nat
    BY <1>2
  <2> HIDE DEF q
  <2>2. q * 10 \in Nat
    BY <2>1
  <2> QED BY <2>2 DEF q
<1> QED BY <1>3, <1>4 DEF RoundToStep, ToFixed

Axes == {s \in Seq(Nat) : s # <<>> /\ Strict(s)}

LEMMA OneEdgeIsAnAxis == ASSUME NEW v \in Nat PROVE <<v>> \in Axes
BY DEF Axes, Strict

(* What exceeds the last edge can be appended.                             *)
LEMMA AppendKeepsAxes ==
  ASSUME NEW s \in Axes, NEW v \in Nat
  PROVE  (IF v > Last(s) THEN Append(s, v) ELSE s) \in Axes
<1>1. CASE ~(v > Last(s))
  BY <1>1
<1>2. CASE v > Last(s)
  <2>1. s \in Seq(Nat) /\ s # <<>> /\ Len(s) \in Nat /\ Len(s) > 0 /\ Strict(s)
    BY DEF Axes
  <2> DEFINE t == Append(s, v)
  <2>2. t \in Seq(Nat) /\ Len(t) = Len(s) + 1 /\ (\A i \in 1 .. Len(s) : t[i] = s[i]) /\ t[Len(s) + 1] = v
    BY <2>1, AppendProperties
  <2>3. s[Len(s)] < v
    <3>1. s[Len(s)] \in Nat /\ s[Len(s)] = Last(s)
      BY <2>1 DEF Last
    <3> QED BY <3>1, <1>2
  <2> HIDE DEF t
  <2>4. ASSUME NEW i \in 1 .. Len(t) - 1 PROVE t[i] < t[i + 1]
    <3>1. CASE i = Len(s)
      BY <2>1, <2>2, <2>3, <3>1
    <3>2. CASE i # Len(s)
      <4>1. i \in 1 .. Len(s) - 1 /\ i \in 1 .. Len(s) /\ i + 1 \in 1 .. Len(s)
        BY <2>1, <2>2, <3>2
      <4>2. s[i] < s[i + 1]
        BY <2>1, <4>1 DEF Strict
      <4> QED BY <2>2, <4>1, <4>2
    <3> QED BY <3>1, <3>2
  <2>5. t # <<>>
    BY <2>1, <2>2
  <2>6. t \in Axes
    BY <2>2, <2>4, <2>5 DEF Axes, Strict
  <2> QED BY <1>2, <2>6 DEF t
<1> QED BY <1>1, <1>2

(* snapAndDedupe drops whatever would not ascend.                          *)
LEMMA SnapAndDedupeIsAnAxis ==
  ASSUME ties \in {0, 1}, NEW raw \in Seq(Nat), raw # <<>>
  PROVE  SnapAndDedupe(raw) \in Axes
<1> DEFINE Snap(i) == ToFixed(RoundToStep(raw[i], NiceStep(raw[i])))
           snapped == [i \in DOMAIN raw |-> Snap(i)]
           seq == Tail(snapped)
           S == DOMAIN seq
           base == <<snapped[1]>>
           Keep(kept, v) == IF v > Last(kept) THEN Append(kept, v) ELSE kept
           pick == [s \in SUBSET S |-> Max(s)]
           F(T) == [z \in S \X T |-> Keep(z[2], seq[z[1]])]
           Raw(g) == g = [s \in SUBSET S |-> IF s = {} THEN base ELSE Keep(g[s \ {Max(s)}], seq[Max(s)])]
           g == CHOOSE g : Raw(g)
<1>1. \A i \in DOMAIN raw : Snap(i) \in Nat
  <2> TAKE i \in DOMAIN raw
  <2>1. raw[i] \in Nat
    OBVIOUS
  <2>2. NiceStep(raw[i]) \in Nat \ {0}
    BY <2>1, NiceStepIsPositive
  <2>3. RoundToStep(raw[i], NiceStep(raw[i])) \in Nat
    BY <2>1, <2>2, RoundingIsNatural
  <2>4. 1 \in Nat \ {0}
    OBVIOUS
  <2> QED BY <2>3, <2>4, RoundingIsNatural
<1> HIDE DEF Snap
<1>2. snapped \in Seq(Nat) /\ snapped # <<>>
  <2>1. DOMAIN raw = 1 .. Len(raw) /\ Len(raw) \in Nat /\ Len(raw) > 0
    OBVIOUS
  <2>2. snapped \in [1 .. Len(raw) -> Nat]
    BY <1>1, <2>1
  <2> HIDE DEF snapped
  <2>3. snapped \in Seq(Nat) /\ Len(snapped) = Len(raw)
    BY <2>1, <2>2
  <2> QED BY <2>1, <2>3
<1>3. SnapAndDedupe(raw) = g[S]
  BY DEF SnapAndDedupe, FoldLeft, MapThenFoldSet, Snap
<1> HIDE DEF snapped
<1>4. seq \in Seq(Nat) /\ snapped[1] \in Nat
  BY <1>2
<1> HIDE DEF seq
<1>5. S \in SUBSET Nat /\ IsFiniteSet(S) /\ \A i \in S : seq[i] \in Nat
  <2>1. S = 1 .. Len(seq) /\ Len(seq) \in Nat /\ 1 \in Int
    BY <1>4
  <2>2. IsFiniteSet(1 .. Len(seq))
    BY <2>1, FS_Interval
  <2> QED BY <1>4, <2>1, <2>2
<1>6. base \in Axes
  BY <1>4, OneEdgeIsAnAxis
<1> HIDE DEF S, base
<1>7. \A s \in SUBSET S : s # {} => Max(s) \in s
  <2> TAKE s \in SUBSET S
  <2>1. s \in SUBSET Nat /\ IsFiniteSet(s)
    BY <1>5, FS_Subset
  <2> QED BY <2>1, MaxIs
<1>8. Picks(pick, S)
  BY <1>7 DEF Picks
<1>9. ASSUME NEW x \in S, NEW t \in Axes PROVE Keep(t, seq[x]) \in Axes
  BY <1>5, AppendKeepsAxes
<1> HIDE DEF Keep
<1>10. ASSUME NEW T, Axes \subseteq T
       PROVE  /\ \A x \in S : \A t \in T : F(T)[<<x, t>>] = Keep(t, seq[x])
              /\ \A x \in S : \A t \in Axes : F(T)[<<x, t>>] \in Axes
  BY <1>9, <1>10
<1>11. ASSUME NEW T, Axes \subseteq T, NEW h, \A s \in SUBSET S : h[s] \in T
       PROVE  Raw(h) <=> IsFold(h, S, base, pick, F(T))
  <2> DEFINE f == F(T)
  <2> SUFFICES Raw(h) <=> IsFold(h, S, base, pick, f)
    OBVIOUS
  <2>1. ASSUME NEW s \in SUBSET S, s # {}
        PROVE  f[<<pick[s], h[s \ {pick[s]}]>>] = Keep(h[s \ {Max(s)}], seq[Max(s)])
    <3>1. pick[s] = Max(s) /\ pick[s] \in S
      BY <1>7, <2>1
    <3>2. h[s \ {pick[s]}] \in T
      BY <1>11
    <3>3. \A x \in S : \A t \in T : f[<<x, t>>] = Keep(t, seq[x])
      BY <1>10, <1>11
    <3> HIDE DEF pick, f
    <3> QED BY <3>1, <3>2, <3>3
  <2> HIDE DEF pick, f
  <2>2. \A s \in SUBSET S : (IF s = {} THEN base ELSE f[<<pick[s], h[s \ {pick[s]}]>>])
                          = (IF s = {} THEN base ELSE Keep(h[s \ {Max(s)}], seq[Max(s)]))
    BY <2>1
  <2> QED BY <2>2 DEF IsFold
<1>12. ASSUME NEW T, Axes \subseteq T, NEW h, IsFold(h, S, base, pick, F(T))
       PROVE  \A s \in SUBSET S : h[s] \in Axes
  <2> DEFINE f == F(T)
  <2>1. \A x \in S : \A t \in Axes : f[<<x, t>>] \in Axes
    BY <1>10, <1>12
  <2>2. IsFold(h, S, base, pick, f)
    BY <1>12
  <2> HIDE DEF pick, f
  <2> QED BY <1>5, <1>6, <1>8, <2>1, <2>2, FoldType
<1>13. \E h : Raw(h)
  <2> DEFINE f == F(Axes)
  <2>1. \E h : IsFold(h, S, base, pick, f)
    <3> HIDE DEF pick, f
    <3> QED BY <1>5, <1>8, FoldExists
  <2>2. PICK h : IsFold(h, S, base, pick, F(Axes))
    BY <2>1
  <2>3. \A s \in SUBSET S : h[s] \in Axes
    <3> HIDE DEF pick, F
    <3> QED BY <1>12, <2>2, Axes \subseteq Axes
  <2>4. Raw(h)
    <3> HIDE DEF pick, F, Raw
    <3> QED BY <1>11, <2>2, <2>3, Axes \subseteq Axes
  <2> HIDE DEF Raw
  <2> QED BY <2>4
<1>14. Raw(g)
  <2> HIDE DEF Raw
  <2> QED BY <1>13
<1> HIDE DEF g
<1>15. \A s \in SUBSET S : g[s] \in Axes
  <2> DEFINE T == Axes \cup {g[s] : s \in SUBSET S}
  <2>1. Axes \subseteq T /\ \A s \in SUBSET S : g[s] \in T
    OBVIOUS
  <2> HIDE DEF T, Raw, pick, F
  <2>2. IsFold(g, S, base, pick, F(T))
    BY <1>11, <1>14, <2>1
  <2> QED BY <1>12, <2>1, <2>2
<1> QED BY <1>3, <1>15

LEMMA DistanceIsNatural == ASSUME NEW a \in Nat, NEW b \in Nat PROVE Distance(a, b) \in Nat
BY DEF Distance

(* Errors are compared as fractions, and of equal ones the lesser step is  *)
(* taken: a strict order, so there is a best step.                         *)
LEMMA BestStepIsPositive ==
  ASSUME NEW range \in Nat \ {0}
  PROVE  BestStep(range) \in Nat \ {0}
<1> DEFINE Steps == {s \in NiceSteps : s <= range}
           Err(s) == Distance(range, Blocks * s)
           Better(a, b) == Err(a) * b < Err(b) * a \/ (Err(a) * b = Err(b) * a /\ a < b)
           R == {z \in Steps \X Steps : Better(z[1], z[2])}
<1>1. Steps \subseteq Nat \ {0} /\ IsFiniteSet(Steps) /\ Steps \subseteq NiceSteps
  BY StepsAssumption, FS_Subset
<1>2. \A s \in Steps : s \in Nat \ {0} /\ Err(s) \in Nat
  <2> TAKE s \in Steps
  <2>1. s \in Nat \ {0} /\ Blocks * s \in Nat
    BY <1>1, BinsAssumption
  <2> QED BY <2>1, DistanceIsNatural
<1> HIDE DEF Err
<1>3. ASSUME NEW a \in Steps, NEW b \in Steps, NEW c \in Steps, Better(a, b), Better(b, c)
      PROVE  Better(a, c)
  <2> DEFINE p == Err(a)
             q == Err(b)
             r == Err(c)
  <2>0. a \in Nat \ {0} /\ b \in Nat \ {0} /\ c \in Nat \ {0} /\ p \in Nat /\ q \in Nat /\ r \in Nat
    BY <1>2
  <2>1. p * b < q * a \/ (p * b = q * a /\ a < b)
    BY <1>3
  <2>2. q * c < r * b \/ (q * c = r * b /\ b < c)
    BY <1>3
  <2> SUFFICES p * c < r * a \/ (p * c = r * a /\ a < c)
    OBVIOUS
  <2> HIDE DEF p, q, r, Steps
  <2>3. (p * b) * c <= (q * a) * c /\ (p * b < q * a => (p * b) * c < (q * a) * c)
    <3>1. p * b \in Nat /\ q * a \in Nat
      BY <2>0
    <3>2. p * b <= q * a
      BY <2>1, <3>1
    <3> QED BY <2>0, <3>1, <3>2, TimesKeepsLess, TimesKeepsAtMost
  <2>4. (q * c) * a <= (r * b) * a /\ (q * c < r * b => (q * c) * a < (r * b) * a)
    <3>1. q * c \in Nat /\ r * b \in Nat
      BY <2>0
    <3>2. q * c <= r * b
      BY <2>2, <3>1
    <3> QED BY <2>0, <3>1, <3>2, TimesKeepsLess, TimesKeepsAtMost
  <2>5. (q * a) * c = (q * c) * a /\ (p * b) * c = (p * c) * b /\ (r * b) * a = (r * a) * b
    BY <2>0
  <2>6. /\ (p * b) * c \in Nat /\ (q * a) * c \in Nat /\ (r * b) * a \in Nat
        /\ p * c \in Nat /\ r * a \in Nat /\ p * b \in Nat /\ q * a \in Nat /\ q * c \in Nat /\ r * b \in Nat
    BY <2>0
  <2>7. (p * c) * b <= (r * a) * b /\ (p * b < q * a \/ q * c < r * b => (p * c) * b < (r * a) * b)
    BY ONLY <2>3, <2>4, <2>5, <2>6
  <2>8. p * c <= r * a /\ (p * b < q * a \/ q * c < r * b => p * c < r * a)
    BY <2>0, <2>6, <2>7, TimesKeepsLess, TimesKeepsAtMost
  <2>9. CASE p * b < q * a \/ q * c < r * b
    BY <2>8, <2>9
  <2>10. CASE ~(p * b < q * a \/ q * c < r * b)
    <3>1. a < c
      BY <2>0, <2>1, <2>2, <2>10
    <3> QED BY ONLY <2>6, <2>8, <3>1
  <2> QED BY <2>9, <2>10
<1>4. \A a \in Steps : ~Better(a, a)
  <2> TAKE a \in Steps
  <2>1. a \in Nat /\ Err(a) * a \in Nat
    BY <1>2
  <2> QED BY <2>1
<1>5. Steps # {} => \E m \in Steps : \A a \in Steps : ~Better(a, m)
  <2>1. \A a, b \in Steps : <<a, b>> \in R <=> Better(a, b)
    OBVIOUS
  <2> HIDE DEF Steps, Better, R
  <2>2. (\A a \in Steps : <<a, a>> \notin R) /\ \A a, b, c \in Steps : <<a, b>> \in R /\ <<b, c>> \in R => <<a, c>> \in R
    BY <1>3, <1>4, <2>1
  <2>3. Steps # {} => \E m \in Steps : \A a \in Steps : <<a, m>> \notin R
    BY <1>1, <2>2, MinimalElement
  <2> QED BY <2>1, <2>3
<1> DEFINE Best(s) == \A t \in Steps : Err(s) * t < Err(t) * s \/ (Err(s) * t = Err(t) * s /\ s <= t)
<1>6. ASSUME NEW m \in Steps, \A a \in Steps : ~Better(a, m)
      PROVE  Best(m)
  <2> TAKE t \in Steps
  <2>1. m \in Nat /\ t \in Nat /\ Err(m) * t \in Nat /\ Err(t) * m \in Nat
    BY <1>2
  <2>2. ~(Err(t) * m < Err(m) * t \/ (Err(t) * m = Err(m) * t /\ t < m))
    BY <1>6
  <2> QED BY ONLY <2>1, <2>2
<1>7. BestStep(range) = IF Steps = {} THEN Min(NiceSteps) ELSE CHOOSE s \in Steps : Best(s)
  BY DEF BestStep, Err
<1>8. Steps # {} => \E s \in Steps : Best(s)
  <2> HIDE DEF Best, Steps, Better
  <2> QED BY <1>5, <1>6
<1>9. Steps # {} => BestStep(range) \in Steps
  <2> HIDE DEF Best, Steps
  <2> QED BY <1>7, <1>8
<1>10. Min(NiceSteps) \in Nat \ {0}
  BY StepsAssumption, MinIs
<1> HIDE DEF Steps, Best
<1> QED BY <1>1, <1>7, <1>9, <1>10

AxisInv ==
  /\ offered \subseteq PriceSamples /\ cleaned \subseteq offered /\ ties \in {0, 1}
  /\ edges = <<>> \/ edges \in Axes

LEMMA CleanedAreNatural ==
  ASSUME AxisInv
  PROVE  cleaned \in SUBSET Nat /\ IsFiniteSet(cleaned) /\ Cardinality(cleaned) \in Nat /\ (Cardinality(cleaned) = 0 <=> cleaned = {})
<1>1. cleaned \in SUBSET PriceSamples
  BY DEF AxisInv
<1>2. IsFiniteSet(cleaned)
  BY <1>1, SamplesAssumption, FS_Subset
<1> QED BY <1>1, <1>2, SamplesAssumption, FS_CardinalityType, FS_EmptySet

LEMMA BoundsAreNatural ==
  ASSUME AxisInv, cleaned # {}
  PROVE  Least \in Nat \ {0} /\ Greatest \in Nat
<1>1. Min(cleaned) \in cleaned /\ Min(cleaned) \in Nat
  BY CleanedAreNatural, MinIs
<1>2. Max(cleaned) \in Nat
  BY CleanedAreNatural, MaxIs
<1> DEFINE S == {Min(cleaned), MinPrice}
<1>3. S \in SUBSET Nat /\ S # {} /\ IsFiniteSet(S) /\ MinPrice \in S
  <2>1. IsFiniteSet({Min(cleaned)} \cup {MinPrice})
    BY FS_Singleton, FS_Union
  <2>2. S = {Min(cleaned)} \cup {MinPrice}
    OBVIOUS
  <2> QED BY <1>1, <2>1, <2>2 DEF MinPrice
<1>4. Max(S) \in S /\ MinPrice <= Max(S)
  <2> HIDE DEF S
  <2> QED BY <1>3, MaxIs
<1>5. Max(S) \in Nat \ {0}
  <2> DEFINE m == Max(S)
  <2>1. m \in Nat /\ 10 <= m
    BY <1>3, <1>4 DEF MinPrice
  <2> HIDE DEF m
  <2>2. m \in Nat \ {0}
    BY <2>1
  <2> QED BY <2>2 DEF m
<1> QED BY <1>2, <1>5 DEF Least, Greatest

LEMMA AscendingIsAnAxis ==
  ASSUME NEW S \in SUBSET Nat, IsFiniteSet(S), S # {}
  PROVE  Ascending(S) \in Axes
<1> DEFINE a == Ascending(S)
<1>1. a \in Seq(Nat) /\ Len(a) = Cardinality(S) /\ Strict(a)
  BY AscendingAscends
<1>2. Cardinality(S) # 0
  BY FS_EmptySet
<1> HIDE DEF a
<1>3. a # <<>>
  BY <1>1, <1>2
<1>4. a \in Axes
  BY <1>1, <1>3 DEF Axes
<1> QED BY <1>4 DEF a

LEMMA FilterKeepsAxis == ASSUME AxisInv, FilterOutlierPrices PROVE AxisInv'
<1>1. offered' \subseteq PriceSamples /\ ties' \in {0, 1} /\ edges' = edges
  BY DEF FilterOutlierPrices
<1>2. cleaned' \subseteq offered'
  BY DEF FilterOutlierPrices
<1> QED BY <1>1, <1>2 DEF AxisInv

LEMMA SingleEdgeIsAnAxis == ASSUME AxisInv, SingleEdge PROVE AxisInv'
<1>1. cleaned # {}
  BY CleanedAreNatural DEF SingleEdge
<1>2. edges' = <<Least>>
  BY DEF SingleEdge, Least
<1>3. edges' \in Axes
  BY <1>1, <1>2, BoundsAreNatural, OneEdgeIsAnAxis
<1> QED BY <1>3 DEF AxisInv, SingleEdge

LEMMA LogBinsAreAnAxis == ASSUME AxisInv, BuildLogBins PROVE AxisInv'
<1>1. PICK between \in SUBSET PriceSamples : edges' = SnapAndDedupe(Ascending(between \cup {Least, Greatest}))
  BY DEF BuildLogBins
<1>2. cleaned # {}
  BY CleanedAreNatural DEF BuildLogBins
<1>3. Least \in Nat /\ Greatest \in Nat
  BY <1>2, BoundsAreNatural
<1> DEFINE S == between \cup {Least, Greatest}
<1>4. S \in SUBSET Nat /\ S # {}
  BY <1>3, SamplesAssumption
<1>5. IsFiniteSet(S)
  <2>1. IsFiniteSet(between) /\ IsFiniteSet({Least}) /\ IsFiniteSet({Greatest})
    BY SamplesAssumption, FS_Subset, FS_Singleton
  <2>2. IsFiniteSet(between \cup {Least})
    BY <2>1, FS_Union
  <2>3. IsFiniteSet((between \cup {Least}) \cup {Greatest})
    BY <2>1, <2>2, FS_Union
  <2>4. S = (between \cup {Least}) \cup {Greatest}
    OBVIOUS
  <2> QED BY <2>3, <2>4
<1> HIDE DEF S
<1>6. Ascending(S) \in Seq(Nat) /\ Ascending(S) # <<>>
  BY <1>4, <1>5, AscendingIsAnAxis DEF Axes
<1>7. edges' = SnapAndDedupe(Ascending(S))
  BY <1>1 DEF S
<1>8. edges' \in Axes
  <2>1. ties \in {0, 1}
    BY DEF AxisInv
  <2> QED BY <1>6, <1>7, <2>1, SnapAndDedupeIsAnAxis
<1> QED BY <1>8 DEF AxisInv, BuildLogBins

LEMMA LinearBinsAreAnAxis == ASSUME AxisInv, BuildLinearBins PROVE AxisInv'
<1>0. ties \in {0, 1}
  BY DEF AxisInv
<1>1. cleaned # {}
  BY CleanedAreNatural DEF BuildLinearBins
<1>2. Least \in Nat \ {0} /\ Greatest \in Nat
  BY <1>1, BoundsAreNatural
<1>3. \A v \in Nat : ToFixed(v) \in Nat
  BY <1>0, RoundingIsNatural, 1 \in Nat \ {0}
<1>4. CASE Greatest <= Least
  <2>1. edges' = <<ToFixed(Least)>>
    BY <1>4 DEF BuildLinearBins
  <2>2. edges' \in Axes
    BY <1>2, <1>3, <2>1, OneEdgeIsAnAxis
  <2> QED BY <2>2 DEF AxisInv, BuildLinearBins
<1>5. CASE ~(Greatest <= Least)
  <2> DEFINE low == Least
             high == Greatest
             step == BestStep(high - low)
             start == (low \div step) * step
             count == (2 * (high - start) + step) \div (2 * step)
             raw == {start + n * step : n \in 0 .. count}
             S == {ToFixed(v) : v \in raw}
  <2>1. edges' = Ascending(S)
    BY <1>5 DEF BuildLinearBins
  <2>2. low \in Nat /\ high \in Nat /\ low < high /\ high - low \in Nat \ {0}
    BY <1>2, <1>5
  <2> HIDE DEF low, high
  <2>3. step \in Nat \ {0}
    BY <2>2, BestStepIsPositive
  <2> HIDE DEF step
  <2>4. start \in Nat /\ start <= low
    <3> DEFINE q == low \div step
    <3>1. q \in Nat /\ q * step <= low
      BY <2>2, <2>3
    <3> HIDE DEF q
    <3>2. q * step \in Nat
      BY <2>3, <3>1
    <3> QED BY <3>1, <3>2 DEF q
  <2> HIDE DEF start
  <2>5. count \in Nat
    <3>1. 2 * (high - start) + step \in Nat /\ 2 * step \in Nat \ {0}
      BY <2>2, <2>3, <2>4
    <3> QED BY <3>1, QuotientIsNatural
  <2> HIDE DEF count
  <2>6. \A n \in 0 .. count : start + n * step \in Nat
    <3> TAKE n \in 0 .. count
    <3>1. n \in Nat /\ n * step \in Nat
      BY <2>3, <2>5
    <3> QED BY <2>4, <3>1
  <2> DEFINE at == [n \in 0 .. count |-> ToFixed(start + n * step)]
  <2>7. S = {at[n] : n \in 0 .. count}
    OBVIOUS
  <2>8. S \in SUBSET Nat
    BY <1>3, <2>6
  <2>9. at[0] \in S /\ 0 \in 0 .. count
    BY <2>5, <2>7
  <2>10. IsFiniteSet(S)
    <3>1. IsFiniteSet(0 .. count)
      BY <2>5, FS_Interval, 0 \in Int
    <3>2. at \in [0 .. count -> S]
      BY <2>7
    <3>3. \A s \in S : \E n \in 0 .. count : at[n] = s
      BY <2>7
    <3>4. at \in Surjection(0 .. count, S)
      BY <3>2, <3>3 DEF Surjection
    <3> HIDE DEF at, S
    <3> QED BY <3>1, <3>4, FS_Surjection
  <2> HIDE DEF S
  <2>11. edges' \in Axes
    BY <2>1, <2>8, <2>9, <2>10, AscendingIsAnAxis
  <2> QED BY <2>11 DEF AxisInv, BuildLinearBins
<1> QED BY <1>4, <1>5

LEMMA AxisStep == AxisInv /\ [PriceAxisNext]_axisVars => AxisInv'
<1> SUFFICES ASSUME AxisInv, [PriceAxisNext]_axisVars PROVE AxisInv'
  OBVIOUS
<1>1. CASE UNCHANGED axisVars
  BY <1>1 DEF AxisInv, axisVars
<1>2. CASE PriceAxisNext
  BY <1>2, FilterKeepsAxis, SingleEdgeIsAnAxis, LogBinsAreAnAxis, LinearBinsAreAnAxis DEF PriceAxisNext
<1> QED BY <1>1, <1>2

(* An axis that was built ascends strictly (price-binning.ts:122-218),     *)
(* whether its edges were snapped one by one or rounded and made unique    *)
(* as a set.                                                               *)
THEOREM AxisHolds == PriceAxisSpec => []AxisInv
<1>1. PriceAxisInit => AxisInv
  BY DEF PriceAxisInit, AxisInv
<1> QED BY <1>1, AxisStep, PTL DEF PriceAxisSpec

LEMMA RowsHoldTheirOrders == AxisInv => OrdersLandInTheirRow
<1> SUFFICES ASSUME AxisInv, edges # <<>>
             PROVE  /\ \A i \in 1 .. Len(edges) - 1 : edges[i] < edges[i + 1]
                    /\ \A p \in offered :
                         LET row == AssignPriceBucket(p) + 1 IN
                           /\ row \in DOMAIN edges
                           /\ p >= edges[1] => edges[row] <= p
                           /\ row < Len(edges) => p < edges[row + 1]
  BY DEF OrdersLandInTheirRow
<1>1. edges \in Seq(Nat) /\ Strict(edges)
  BY DEF AxisInv, Axes
<1>2. Len(edges) \in Nat /\ Len(edges) > 0 /\ DOMAIN edges = 1 .. Len(edges) /\ (\A i \in 1 .. Len(edges) : edges[i] \in Nat)
      /\ Last(edges) = edges[Len(edges)]
  BY <1>1 DEF Last
<1>3. \A i \in 1 .. Len(edges) - 1 : edges[i] < edges[i + 1]
  BY <1>1 DEF Strict
<1>4. ASSUME NEW p \in offered
      PROVE  LET row == AssignPriceBucket(p) + 1 IN
               /\ row \in DOMAIN edges
               /\ p >= edges[1] => edges[row] <= p
               /\ row < Len(edges) => p < edges[row + 1]
  <2>0. p \in Nat
    BY SamplesAssumption DEF AxisInv
  <2>1. CASE p <= edges[1]
    <3>1. AssignPriceBucket(p) = 0
      BY <2>1 DEF AssignPriceBucket
    <3>2. 1 < Len(edges) => edges[1] < edges[2]
      BY <1>2, <1>3
    <3>3. edges[1] \in Nat /\ (1 < Len(edges) => edges[2] \in Nat)
      BY <1>2
    <3> QED BY <1>2, <2>0, <2>1, <3>1, <3>2, <3>3
  <2>2. CASE ~(p <= edges[1]) /\ p >= Last(edges)
    <3>1. AssignPriceBucket(p) = Len(edges) - 1
      BY <1>2, <2>2 DEF AssignPriceBucket
    <3>2. AssignPriceBucket(p) + 1 = Len(edges)
      BY <1>2, <3>1
    <3>3. edges[Len(edges)] \in Nat /\ edges[Len(edges)] <= p
      BY <1>2, <2>0, <2>2
    <3> QED BY <1>2, <3>2, <3>3
  <2>3. CASE ~(p <= edges[1]) /\ ~(p >= Last(edges))
    <3>1. edges[1] < p /\ p < Last(edges)
      <4>1. edges[1] \in Nat /\ Last(edges) \in Nat
        BY <1>2
      <4> QED BY <2>0, <2>3, <4>1
    <3>2. PICK k \in Nat : /\ AssignPriceBucket(p) = k /\ k + 2 <= Len(edges)
                           /\ edges[k + 1] <= p /\ p < edges[k + 2]
      BY <1>1, <2>0, <3>1, BucketHoldsPrice
    <3>3. k + 1 \in 1 .. Len(edges) /\ (k + 1) + 1 = k + 2
      BY <1>2, <3>2
    <3> QED BY <1>2, <3>2, <3>3
  <2> QED BY <2>1, <2>2, <2>3
<1> QED BY <1>3, <1>4

(* An order lands in the row whose half-open interval holds its price      *)
(* (price-binning.ts:234-256): of two edges that lie apart, the search     *)
(* keeps one at most the price and one above it.                           *)
THEOREM OrdersStayInTheirRow == PriceAxisSpec => []OrdersLandInTheirRow
BY AxisHolds, RowsHoldTheirOrders, PTL
=============================================================================
