-------------------------- MODULE HashBlocks_proofs --------------------------
(***************************************************************************)
(* Proofs about HashBlocks: types, and the properties of memberships that  *)
(* hold for any number of characters, hashes, workers, attempts, faults    *)
(* and refreshes; then, with the history of Overlaps, what holds of        *)
(* counters, confirmations and accurate blocks however jobs overlap.       *)
(***************************************************************************)
EXTENDS Overlaps, FiniteSetTheorems, TLAPS

-----------------------------------------------------------------------------
(* The operators on transactions                                           *)

LEMMA NoTxType == NoTx \in Transaction
BY ConstantsAssumption DEF NoTx, Transaction

LEMMA MembersSeenType ==
  ASSUME NEW t \in Transaction, members \in [Char -> MemberRow \cup {NoRow}]
  PROVE  MembersSeen(t) \in [Char -> MemberRow \cup {NoRow}]
BY DEF MembersSeen, Overlay, Transaction

LEMMA RowsOfType ==
  ASSUME NEW h, NEW rows \in [Char -> MemberRow \cup {NoRow}]
  PROVE  /\ RowsOf(h, rows) \in SUBSET Char
         /\ Corroborated(h, rows) \in SUBSET Char
BY DEF RowsOf, Corroborated

LEMMA StatsType ==
  ASSUME NEW S \in SUBSET Char, NEW T \in SUBSET Char
  PROVE  Stats(Cardinality(S), Cardinality(T)) \in BlockRow
<1>1. Cardinality(S) \in Nat /\ Cardinality(T) \in Nat
  BY ConstantsAssumption, FS_Subset, FS_CardinalityType
<1> QED BY <1>1, ConstantsAssumption DEF Stats, BlockRow

\* Reading the members of a block changes what the transaction has read only.
LEMMA RecomputingType ==
  ASSUME NEW t \in Transaction, NEW h \in HashB, NEW next \in {"place", "commit"},
         members \in [Char -> MemberRow \cup {NoRow}]
  PROVE  /\ Recomputing(t, h, next) \in Transaction
         /\ Recomputing(t, h, next).members = t.members
         /\ Recomputing(t, h, next).blocks = t.blocks
         /\ Recomputing(t, h, next).logs = t.logs
         /\ Recomputing(t, h, next).target = h
<1>1. /\ RowsOf(h, MembersSeen(t)) \in SUBSET Char
      /\ Corroborated(h, MembersSeen(t)) \in SUBSET Char
  BY MembersSeenType, RowsOfType
<1> QED BY <1>1 DEF Recomputing, Transaction

LEMMA ConfirmedRow ==
  ASSUME NEW row \in MemberRow, NEW isConfirmed \in BOOLEAN
  PROVE  LET updated == [row EXCEPT !.isConfirmed = isConfirmed]
         IN /\ updated \in MemberRow
            /\ updated.block = row.block
            /\ updated.hashA = row.hashA
            /\ updated.hashB = row.hashB
BY DEF MemberRow

\* Writing the result back writes one block row, and of a member row only isConfirmed.
LEMMA RecomputedType ==
  ASSUME NEW t \in Transaction, members \in [Char -> MemberRow \cup {NoRow}]
  PROVE  /\ Recomputed(t) \in Transaction
         /\ Recomputed(t).logs = t.logs
         /\ \A h \in HashB : t.blocks[h] # Unwritten => Recomputed(t).blocks[h] # Unwritten
         /\ \A c \in Char :
              LET row == Recomputed(t).members[c]
              IN \/ row = t.members[c]
                 \/ c \in t.rows /\ row \in MemberRow /\ SameMember(row, MembersSeen(t)[c])
<1> DEFINE seen == MembersSeen(t)
           rows == t.rows \cap RowsOf(t.target, seen)
           confirmed(c) == [seen[c] EXCEPT !.isConfirmed = c \in t.confirmed]
           written == [c \in Char |-> IF c \in rows THEN confirmed(c) ELSE t.members[c]]
           stats == Stats(Cardinality(t.rows), Cardinality(t.confirmed))
<1>1. seen \in [Char -> MemberRow \cup {NoRow}]
  BY MembersSeenType
<1>2. t.rows \in SUBSET Char /\ t.confirmed \in SUBSET Char
  BY DEF Transaction
<1>3. ASSUME NEW c \in rows
      PROVE  /\ c \in Char /\ seen[c] \in MemberRow /\ confirmed(c) \in MemberRow
             /\ confirmed(c).block = seen[c].block
             /\ confirmed(c).hashA = seen[c].hashA
             /\ confirmed(c).hashB = seen[c].hashB
  <2> HIDE DEF seen
  <2>1. c \in Char /\ seen[c] \in MemberRow
    BY <1>1, <1>2 DEF RowsOf
  <2>2. (c \in t.confirmed) \in BOOLEAN
    OBVIOUS
  <2> QED BY <2>1, <2>2, ConfirmedRow
<1>4. written \in [Char -> MemberRow \cup {NoRow, Unwritten}]
  BY <1>3 DEF Transaction
<1>5. stats \in BlockRow
  BY <1>2, StatsType
<1>6. [t.blocks EXCEPT ![t.target] = stats] \in [HashB -> BlockRow \cup {Unwritten}]
  BY <1>5 DEF Transaction
<1>7. Recomputed(t) = [t EXCEPT !.members = written,
                                !.blocks = [t.blocks EXCEPT ![t.target] = stats]]
  BY DEF Recomputed, Transaction
<1>8. /\ Recomputed(t) \in Transaction
      /\ Recomputed(t).logs = t.logs
      /\ Recomputed(t).members = written
      /\ Recomputed(t).blocks = [t.blocks EXCEPT ![t.target] = stats]
  BY <1>4, <1>6, <1>7 DEF Transaction
<1>9. \A h \in HashB : t.blocks[h] # Unwritten => Recomputed(t).blocks[h] # Unwritten
  BY <1>5, <1>8, ConstantsAssumption DEF Transaction
<1>10. ASSUME NEW c \in Char
       PROVE  \/ Recomputed(t).members[c] = t.members[c]
              \/ /\ c \in t.rows
                 /\ Recomputed(t).members[c] \in MemberRow
                 /\ SameMember(Recomputed(t).members[c], seen[c])
  <2>1. CASE c \in rows
    <3>1. Recomputed(t).members[c] = confirmed(c)
      BY <1>8, <2>1
    <3>2. /\ seen[c] \in MemberRow /\ confirmed(c) \in MemberRow
          /\ confirmed(c).block = seen[c].block
          /\ confirmed(c).hashA = seen[c].hashA
          /\ confirmed(c).hashB = seen[c].hashB
      BY <1>3, <2>1
    <3>3. c \in t.rows
      BY <2>1
    <3> HIDE DEF seen, confirmed
    <3> QED BY <3>1, <3>2, <3>3, ConstantsAssumption DEF SameMember
  <2>2. CASE c \notin rows
    BY <1>8, <2>2
  <2> QED BY <2>1, <2>2
<1> QED BY <1>8, <1>9, <1>10

\* What a transaction wrote about its own character is a transaction again.
LEMMA WrittenType ==
  ASSUME NEW w \in Worker, tx[w] \in Transaction, task[w] \in Char,
         NEW row \in MemberRow \cup {NoRow, Unwritten}, NEW block \in HashB,
         NEW actions \in SUBSET {"JOIN", "MIGRATE", "HASH_A_CHANGE", "HASH_B_CHANGE"}
  PROVE  /\ Written(w, row, block, actions) \in Transaction
         /\ Written(w, row, block, actions).members = [tx[w].members EXCEPT ![task[w]] = row]
         /\ Written(w, row, block, actions).blocks = tx[w].blocks
         /\ Written(w, row, block, actions).logs = tx[w].logs \cup
              {[action |-> a, block |-> block, chars |-> {task[w]}] : a \in actions}
<1>1. {[action |-> a, block |-> block, chars |-> {task[w]}] : a \in actions} \in SUBSET LogRow
  BY DEF LogRow
<1>2. [tx[w].members EXCEPT ![task[w]] = row] \in [Char -> MemberRow \cup {NoRow, Unwritten}]
  BY DEF Transaction
<1> QED BY <1>1, <1>2 DEF Written, Transaction

LEMMA FoundingRowsType ==
  ASSUME NEW h \in HashB, characters \in [Char -> CharacterRow]
  PROVE  FoundingRows(h) \in [Candidates(h) -> MemberRow] /\ Candidates(h) \in SUBSET Char
BY DEF FoundingRows, Candidates, MemberOf, CharacterRow, MemberRow

\* A founding transaction writes the founders' rows and nobody else's.
LEMMA FoundedType ==
  ASSUME NEW w \in Worker, tx[w] \in Transaction, character[w].hashB \in HashB,
         characters \in [Char -> CharacterRow], members \in [Char -> MemberRow \cup {NoRow}]
  PROVE  LET h == character[w].hashB
             t == Founded(w, FoundingRows(h))
         IN /\ t \in Transaction
            /\ t.target = h
            /\ t.blocks = tx[w].blocks
            /\ t.logs = tx[w].logs \cup {[action |-> "GENESIS", block |-> h, chars |-> Candidates(h)]}
            /\ \A c \in Char : t.members[c] = IF c \in Candidates(h) THEN FoundingRows(h)[c]
                                                                     ELSE tx[w].members[c]
<1> DEFINE h == character[w].hashB
           rows == FoundingRows(h)
           written == [c \in Char |-> IF c \in DOMAIN rows THEN rows[c] ELSE tx[w].members[c]]
           entry == [action |-> "GENESIS", block |-> h, chars |-> Candidates(h)]
           t == [tx[w] EXCEPT !.members = written, !.logs = tx[w].logs \cup {entry}]
<1>1. rows \in [Candidates(h) -> MemberRow] /\ Candidates(h) \in SUBSET Char
  BY FoundingRowsType
<1>2. written \in [Char -> MemberRow \cup {NoRow, Unwritten}]
  BY <1>1 DEF Transaction
<1>3. entry \in LogRow
  BY <1>1 DEF LogRow
<1>4. /\ t \in Transaction /\ t.members = written /\ t.blocks = tx[w].blocks
      /\ t.logs = tx[w].logs \cup {entry}
  BY <1>2, <1>3 DEF Transaction
<1>5. Founded(w, rows) = Recomputing(t, h, "commit")
  <2>1. DOMAIN rows = Candidates(h)
    BY <1>1
  <2>2. t = [tx[w] EXCEPT !.members = written,
                  !.logs = tx[w].logs \cup {[action |-> "GENESIS", block |-> h,
                                              chars |-> DOMAIN rows]}]
    BY <2>1
  <2> QED BY <2>1, <2>2 DEF Founded, Transaction
<1> HIDE DEF t
<1>6. /\ Recomputing(t, h, "commit") \in Transaction
      /\ Recomputing(t, h, "commit").members = t.members
      /\ Recomputing(t, h, "commit").blocks = t.blocks
      /\ Recomputing(t, h, "commit").logs = t.logs
      /\ Recomputing(t, h, "commit").target = h
  BY <1>4, RecomputingType
<1> QED BY <1>1, <1>4, <1>5, <1>6

-----------------------------------------------------------------------------
(* Types                                                                   *)

\* the type invariant, and what the queue and the workers' reads add to it
TypedSteps == TypeOK /\ JobsAreOwned /\ QueuedHaveHash /\ StepsInOrder

LEMMA TypedStepsInit == Init => TypedSteps
<1> SUFFICES ASSUME Init PROVE TypedSteps
  OBVIOUS
<1> USE ConstantsAssumption
<1>1. TypeOK
  <2>1. \A h \in HashB : Candidates(h) \subseteq Char
    BY DEF Candidates
  <2> QED BY <2>1, NoTxType DEF Init, TypeOK, NoHashes, CharacterRow
<1>2. JobsAreOwned
  BY DEF Init, JobsAreOwned
<1>3. QueuedHaveHash
  BY DEF Init, QueuedHaveHash
<1>4. StepsInOrder
  BY DEF Init, StepsInOrder, StepInOrder
<1> QED BY <1>1, <1>2, <1>3, <1>4 DEF TypedSteps

\* A statement of a transaction changes the worker's transaction and its step.
LEMMA ProceedTypes ==
  ASSUME TypedSteps, NEW w \in Worker, NEW t \in Transaction,
         NEW step \in {"join", "candidates", "recompute", "place"},
         pc[w] \notin {"idle", "character"}, Proceed(w, t, step),
         step \in {"join", "candidates"} =>
           t.blocks[character[w].hashB] # Unwritten \/ blocks[character[w].hashB] # NoRow,
         step = "recompute" => t.target \in HashB
  PROVE  TypedSteps'
<1> USE DEF Proceed, Goto, tables, jobs, reads, others, TypedSteps
<1>1. TypeOK'
  BY DEF TypeOK
<1>2. JobsAreOwned'
  BY DEF JobsAreOwned, TypeOK
<1>3. QueuedHaveHash'
  BY DEF QueuedHaveHash, TypeOK
<1>4. ASSUME NEW v \in Worker
      PROVE  StepInOrder(v)'
  <2>1. CASE v = w
    <3>1. pc'[w] = step /\ tx'[w] = t /\ character' = character /\ blocks' = blocks
      BY DEF TypeOK
    <3>2. character[w].hashB \in HashB
      BY DEF QueuedHaveHash
    <3> QED BY <2>1, <3>1, <3>2 DEF StepInOrder, HasBlock
  <2>2. CASE v # w
    <3>1. /\ pc'[v] = pc[v] /\ tx'[v] = tx[v] /\ character' = character
          /\ membership' = membership /\ collision' = collision /\ blocks' = blocks
      BY <2>2 DEF TypeOK
    <3>2. StepInOrder(v)
      BY DEF StepsInOrder
    <3> QED BY <3>1, <3>2 DEF StepInOrder, HasBlock
  <2> QED BY <2>1, <2>2
<1> QED BY <1>1, <1>2, <1>3, <1>4 DEF StepsInOrder

\* A job's end frees its worker.
LEMMA ReleaseTypes ==
  ASSUME TypedSteps, NEW w \in Worker, NEW state \in {"waiting", "completed", "failed"},
         pc[w] # "idle", Release(w, state),
         attempts' \in [Char -> Nat], faults' \in Nat, logs' \in SUBSET LogRow,
         members' \in [Char -> MemberRow \cup {NoRow}],
         blocks' \in [HashB -> BlockRow \cup {NoRow}],
         \A h \in HashB : blocks[h] # NoRow => blocks'[h] # NoRow
  PROVE  TypedSteps'
<1> USE DEF Release, Goto, others, TypedSteps
<1>1. task[w] \in Char
  BY DEF TypeOK, JobsAreOwned
<1>2. TypeOK'
  BY <1>1, NoTxType DEF TypeOK, NoHashes, CharacterRow
<1>3. JobsAreOwned'
  BY <1>1 DEF JobsAreOwned, TypeOK
<1>4. QueuedHaveHash'
  BY <1>1 DEF QueuedHaveHash, JobsAreOwned, TypeOK
<1>5. ASSUME NEW v \in Worker
      PROVE  StepInOrder(v)'
  <2>1. CASE v = w
    <3>1. pc'[w] = "idle" /\ tx'[w] = NoTx /\ membership'[w] = NoRow
      BY DEF TypeOK
    <3> QED BY <2>1, <3>1 DEF StepInOrder
  <2>2. CASE v # w
    <3>1. /\ pc'[v] = pc[v] /\ tx'[v] = tx[v] /\ character'[v] = character[v]
          /\ membership'[v] = membership[v] /\ collision'[v] = collision[v]
      BY <2>2 DEF TypeOK
    <3>2. StepInOrder(v) /\ (pc[v] \notin {"idle", "character"} => character[v].hashB \in HashB)
      BY DEF StepsInOrder, QueuedHaveHash
    <3> QED BY <3>1, <3>2 DEF StepInOrder, HasBlock
  <2> QED BY <2>1, <2>2
<1> QED BY <1>2, <1>3, <1>4, <1>5 DEF StepsInOrder

\* The reads before the transaction: only what the worker read and its step change.
LEMMA ReadTypes ==
  ASSUME TypedSteps, NEW w \in Worker, ReadCharacter(w) \/ LoadMember(w) \/ LoadBlock(w)
  PROVE  TypedSteps'
<1> USE DEF TypedSteps, Goto, tables, jobs, others
<1>1. task[w] \in Char /\ queue[task[w]] = "active" /\ pc[w] # "idle"
  BY DEF TypeOK, JobsAreOwned, ReadCharacter, LoadMember, LoadBlock
<1>2. /\ UNCHANGED <<blocks, members, logs, queue, attempts, task, tx, characters>>
      /\ UNCHANGED <<backfill, refreshes, faults>>
  BY DEF ReadCharacter, LoadMember, LoadBlock
<1>3. StepInOrder(w) /\ (pc[w] # "character" => character[w].hashB \in HashB)
  BY <1>1 DEF StepsInOrder, QueuedHaveHash
<1>4. /\ pc' \in [Worker -> {"idle", "character", "member", "block", "touch", "update", "leave",
                             "place", "join", "genesis", "candidates", "recompute"}]
      /\ character' \in [Worker -> CharacterRow]
      /\ membership' \in [Worker -> MemberRow \cup {NoRow}]
      /\ collision' \in [Worker -> BOOLEAN]
      /\ StepInOrder(w)'
      /\ pc'[w] # "idle" /\ (pc'[w] # "character" => character'[w].hashB \in HashB)
  <2>1. CASE ReadCharacter(w)
    BY <1>1, <1>3, <2>1 DEF ReadCharacter, TypeOK, StepInOrder, QueuedHaveHash
  <2>2. CASE LoadMember(w)
    BY <1>1, <1>3, <2>2 DEF LoadMember, TypeOK, StepInOrder
  <2>3. CASE LoadBlock(w)
    <3>1. membership[w] \in MemberRow
      BY <1>3, <2>3 DEF TypeOK, LoadBlock, StepInOrder
    <3>2. membership[w].block \in HashB
      BY <3>1 DEF MemberRow
    <3>3. blocks[membership[w].block] # NoRow =>
            blocks[membership[w].block].isCollision \in BOOLEAN
      BY <3>2 DEF TypeOK, BlockRow
    <3> HIDE DEF TypedSteps
    <3>4. collision'[w] \in BOOLEAN /\ collision' = [collision EXCEPT ![w] = collision'[w]]
      BY <2>3, <3>3 DEF LoadBlock, TypeOK, TypedSteps
    <3>5. pc' = [pc EXCEPT ![w] = pc'[w]] /\ pc'[w] \in {"place", "leave", "touch", "update"}
      BY <2>3 DEF LoadBlock, TypeOK, TypedSteps
    <3>6. /\ membership' = [membership EXCEPT ![w] = membership'[w]]
          /\ membership'[w] \in {NoRow, membership[w]}
          /\ pc'[w] # "place" => membership'[w] = membership[w]
          /\ pc'[w] = "leave" => collision'[w]
      BY <2>3 DEF LoadBlock, TypeOK, TypedSteps
    <3>7. StepInOrder(w)'
      BY <1>2, <1>3, <2>3, <3>1, <3>5, <3>6 DEF StepInOrder, LoadBlock
    <3> QED BY <1>3, <2>3, <3>1, <3>4, <3>5, <3>6, <3>7 DEF LoadBlock, TypeOK, TypedSteps
  <2> QED BY <2>1, <2>2, <2>3
<1>5. TypeOK'
  BY <1>2, <1>4 DEF TypeOK
<1>6. \A v \in Worker \ {w} : /\ pc'[v] = pc[v] /\ character'[v] = character[v]
                              /\ membership'[v] = membership[v] /\ collision'[v] = collision[v]
  BY DEF TypeOK, ReadCharacter, LoadMember, LoadBlock
<1>7. JobsAreOwned'
  BY <1>1, <1>2, <1>4, <1>6 DEF JobsAreOwned
<1>8. QueuedHaveHash'
  BY <1>2, <1>4, <1>6 DEF QueuedHaveHash
<1>9. StepsInOrder'
  <2> SUFFICES ASSUME NEW v \in Worker \ {w} PROVE StepInOrder(v)'
    BY <1>4 DEF StepsInOrder
  <2>1. StepInOrder(v)
    BY DEF StepsInOrder
  <2> QED BY <1>2, <1>6, <2>1 DEF StepInOrder, HasBlock
<1> QED BY <1>5, <1>7, <1>8, <1>9

\* The statements of a transaction that do not end it.
LEMMA TransactionTypes ==
  ASSUME TypedSteps, NEW w \in Worker,
         \/ UpdateMember(w) \/ Leave(w) \/ Place(w) \/ Join(w)
         \/ Genesis(w) \/ GenesisMembers(w) \/ RecomputeLeft(w)
  PROVE  TypedSteps'
<1> DEFINE h == character[w].hashB
<1>1. /\ task[w] \in Char /\ tx[w] \in Transaction /\ character[w] \in CharacterRow
      /\ pc[w] \notin {"idle", "character"} /\ h \in HashB
      /\ characters \in [Char -> CharacterRow]
      /\ blocks \in [HashB -> BlockRow \cup {NoRow}]
      /\ members \in [Char -> MemberRow \cup {NoRow}]
      /\ membership[w] \in MemberRow \cup {NoRow}
  BY DEF TypedSteps, TypeOK, JobsAreOwned, QueuedHaveHash, UpdateMember, Leave, Place, Join,
         Genesis, GenesisMembers, RecomputeLeft
<1>2. StepInOrder(w)
  BY DEF TypedSteps, StepsInOrder
<1>3. CASE UpdateMember(w)
  <2> DEFINE block == membership[w].block
             row == IF members[task[w]] = NoRow THEN Unwritten
                    ELSE [members[task[w]] EXCEPT !.hashA = character[w].hashA,
                                                  !.hashB = character[w].hashB]
             t == Recomputing(Written(w, row, block, HashChanges(w)), block, "commit")
  <2>1. block \in HashB
    BY <1>1, <1>2, <1>3 DEF StepInOrder, UpdateMember, MemberRow
  <2>2. row \in MemberRow \cup {NoRow, Unwritten}
    BY <1>1 DEF MemberRow, CharacterRow
  <2>3. HashChanges(w) \in SUBSET {"JOIN", "MIGRATE", "HASH_A_CHANGE", "HASH_B_CHANGE"}
    BY DEF HashChanges
  <2>4. Proceed(w, t, "recompute")
    BY <1>3 DEF UpdateMember
  <2> HIDE DEF row, block
  <2>5. Written(w, row, block, HashChanges(w)) \in Transaction
    BY <1>1, <2>1, <2>2, <2>3, WrittenType
  <2>6. t \in Transaction /\ t.target \in HashB
    BY <1>1, <2>1, <2>5, RecomputingType
  <2> HIDE DEF t
  <2> QED BY <1>1, <2>4, <2>6, ProceedTypes
<1>4. CASE Leave(w)
  <2> DEFINE block == membership[w].block
             t == Recomputing(Written(w, NoRow, block, {"MIGRATE"}), block, "place")
  <2>1. block \in HashB
    BY <1>1, <1>2, <1>4 DEF StepInOrder, Leave, MemberRow
  <2>2. Proceed(w, t, "recompute")
    BY <1>4 DEF Leave
  <2> HIDE DEF block
  <2>3. Written(w, NoRow, block, {"MIGRATE"}) \in Transaction
    BY <1>1, <2>1, WrittenType
  <2>4. t \in Transaction /\ t.target \in HashB
    BY <1>1, <2>1, <2>3, RecomputingType
  <2> HIDE DEF t
  <2> QED BY <1>1, <2>2, <2>4, ProceedTypes
<1>5. CASE Place(w)
  <2> DEFINE found == BlocksSeen(tx[w])[h]
             step == IF found # NoRow /\ ~found.isCollision THEN "join" ELSE "genesis"
  <2>1. step = "join" => tx[w].blocks[h] # Unwritten \/ blocks[h] # NoRow
    BY <1>1 DEF BlocksSeen, Overlay, Transaction
  <2>2. /\ pc' = [pc EXCEPT ![w] = step]
        /\ UNCHANGED <<blocks, members, logs, queue, attempts, task, character, membership>>
        /\ UNCHANGED <<collision, tx, characters, backfill, refreshes, faults>>
    BY <1>5 DEF Place, Goto, tables, jobs, reads, others
  <2>3. step \in {"join", "genesis"}
    OBVIOUS
  <2> HIDE DEF step
  <2>4. TypeOK' /\ JobsAreOwned' /\ QueuedHaveHash'
    BY <1>1, <2>2, <2>3 DEF TypedSteps, TypeOK, JobsAreOwned, QueuedHaveHash
  <2>5. ASSUME NEW v \in Worker PROVE StepInOrder(v)'
    <3>1. StepInOrder(v) /\ pc'[v] = IF v = w THEN step ELSE pc[v]
      BY <2>2 DEF TypedSteps, StepsInOrder, TypeOK
    <3>2. v = w => /\ pc[w] = "place"
                   /\ step = "join" => HasBlock(tx[w], h)
      BY <1>1, <1>5, <2>1 DEF Place, HasBlock
    <3>3. HasBlock(tx[v], character[v].hashB)' <=> HasBlock(tx[v], character[v].hashB)
      BY <2>2 DEF HasBlock
    <3> QED BY <2>2, <2>3, <3>1, <3>2, <3>3 DEF StepInOrder
  <2> QED BY <2>4, <2>5 DEF TypedSteps, StepsInOrder
<1>6. CASE Join(w)
  <2> DEFINE row == MemberOf(h, character[w])
             t == Recomputing(Written(w, row, h, {"JOIN"}), h, "commit")
  <2>1. row \in MemberRow
    BY <1>1 DEF MemberOf, MemberRow, CharacterRow
  <2>2. Proceed(w, t, "recompute")
    BY <1>6 DEF Join
  <2> HIDE DEF row
  <2>3. Written(w, row, h, {"JOIN"}) \in Transaction
    BY <1>1, <2>1, WrittenType
  <2>4. t \in Transaction /\ t.target \in HashB
    BY <1>1, <2>3, RecomputingType
  <2> HIDE DEF t
  <2> QED BY <1>1, <2>2, <2>4, ProceedTypes
<1>7. CASE Genesis(w)
  <2> DEFINE t == [tx[w] EXCEPT !.blocks[h] = Stats(0, 0)]
  <2>1. Stats(0, 0) \in BlockRow
    BY ConstantsAssumption DEF Stats, BlockRow
  <2>2. t \in Transaction /\ t.blocks[h] # Unwritten
    BY <1>1, <2>1, ConstantsAssumption DEF Transaction
  <2>3. Proceed(w, t, "candidates")
    BY <1>7 DEF Genesis
  <2> HIDE DEF t
  <2> QED BY <1>1, <2>2, <2>3, ProceedTypes
<1>8. CASE GenesisMembers(w)
  <2> DEFINE t == Founded(w, FoundingRows(h))
  <2>1. Proceed(w, t, "recompute")
    BY <1>8 DEF GenesisMembers
  <2>2. t \in Transaction /\ t.target \in HashB
    BY <1>1, FoundedType
  <2> HIDE DEF t
  <2> QED BY <1>1, <2>1, <2>2, ProceedTypes
<1>9. CASE RecomputeLeft(w)
  <2>1. Proceed(w, Recomputed(tx[w]), "place")
    BY <1>9 DEF RecomputeLeft
  <2>2. Recomputed(tx[w]) \in Transaction
    BY <1>1, RecomputedType
  <2> QED BY <1>1, <2>1, <2>2, ProceedTypes
<1> QED BY <1>3, <1>4, <1>5, <1>6, <1>7, <1>8, <1>9

LEMMA FailTypes ==
  ASSUME TypedSteps, NEW w \in Worker, pc[w] # "idle", Fail(w), faults' \in Nat
  PROVE  TypedSteps'
<1>1. task[w] \in Char
  BY DEF TypedSteps, TypeOK, JobsAreOwned
<1>2. /\ attempts' \in [Char -> Nat]
      /\ UNCHANGED tables
      /\ Release(w, IF attempts[task[w]] + 1 < MaxAttempts THEN "waiting" ELSE "failed")
  BY <1>1 DEF Fail, TypedSteps, TypeOK
<1> QED BY <1>2, ReleaseTypes DEF tables, TypedSteps, TypeOK

\* The tables after a COMMIT.
LEMMA CommitTables ==
  ASSUME TypedSteps, NEW w \in Worker, Commit(w)
  PROVE  LET done == Recomputed(tx[w])
         IN /\ done \in Transaction
            /\ members' = Overlay(done.members, members)
            /\ members' \in [Char -> MemberRow \cup {NoRow}]
            /\ blocks' = Overlay(done.blocks, blocks)
            /\ blocks' \in [HashB -> BlockRow \cup {NoRow}]
            /\ \A h \in HashB : blocks[h] # NoRow => blocks'[h] # NoRow
            /\ \A h \in HeldBlocks(w) : blocks'[h] # NoRow
            /\ logs' = logs \cup tx[w].logs
            /\ logs' \in SUBSET LogRow
<1> DEFINE done == Recomputed(tx[w])
<1>1. /\ tx[w] \in Transaction /\ members \in [Char -> MemberRow \cup {NoRow}]
      /\ blocks \in [HashB -> BlockRow \cup {NoRow}] /\ logs \in SUBSET LogRow
  BY DEF TypedSteps, TypeOK
<1>2. /\ done \in Transaction /\ done.logs = tx[w].logs
      /\ \A h \in HashB : tx[w].blocks[h] # Unwritten => done.blocks[h] # Unwritten
  BY <1>1, RecomputedType
<1>3. /\ members' = Overlay(done.members, members)
      /\ blocks' = Overlay(done.blocks, blocks)
      /\ logs' = logs \cup done.logs
  BY DEF Commit
<1> HIDE DEF done
<1>4. members' \in [Char -> MemberRow \cup {NoRow}]
  BY <1>1, <1>2, <1>3 DEF Overlay, Transaction
<1>5. /\ blocks' \in [HashB -> BlockRow \cup {NoRow}]
      /\ \A h \in HashB : done.blocks[h] # Unwritten \/ blocks[h] # NoRow => blocks'[h] # NoRow
  BY <1>1, <1>2, <1>3, ConstantsAssumption DEF Overlay, Transaction
<1>6. logs' \in SUBSET LogRow
  BY <1>1, <1>2, <1>3 DEF Transaction
<1> QED BY <1>2, <1>3, <1>4, <1>5, <1>6 DEF done, HeldBlocks

\* The tables after the backfill founded the block of a group.
LEMMA BackfillTables ==
  ASSUME TypedSteps, NEW h \in HashB, BackfillGroup(h)
  PROVE  /\ members' \in [Char -> MemberRow \cup {NoRow}]
         /\ \A c \in Char : \/ /\ c \in Candidates(h) /\ members[c] = NoRow
                               /\ members'[c] # NoRow /\ members'[c].block = h
                            \/ c \notin Candidates(h) /\ members'[c] = members[c]
                            \/ SameMember(members'[c], members[c])
         /\ blocks' \in [HashB -> BlockRow \cup {NoRow}]
         /\ \A g \in HashB : g = h \/ blocks[g] # NoRow => blocks'[g] # NoRow
         /\ logs' = logs \cup {[action |-> "GENESIS", block |-> h, chars |-> Candidates(h)]}
         /\ logs' \in SUBSET LogRow
<1> DEFINE rows == [c \in Char |-> IF c \in Candidates(h) THEN MemberOf(h, characters[c])
                                                          ELSE members[c]]
           confirmed == Corroborated(h, rows)
           confirmedRow(c) == [rows[c] EXCEPT !.isConfirmed = TRUE]
<1>1. /\ characters \in [Char -> CharacterRow] /\ members \in [Char -> MemberRow \cup {NoRow}]
      /\ blocks \in [HashB -> BlockRow \cup {NoRow}] /\ logs \in SUBSET LogRow
  BY DEF TypedSteps, TypeOK
<1>2. \A c \in Char : /\ MemberOf(h, characters[c]) \in MemberRow
                      /\ MemberOf(h, characters[c]).block = h
  BY <1>1 DEF MemberOf, MemberRow, CharacterRow
<1>3. rows \in [Char -> MemberRow \cup {NoRow}]
  BY <1>1, <1>2
<1>4. confirmed \in SUBSET Char /\ \A c \in confirmed : rows[c] \in MemberRow
  BY <1>3 DEF Corroborated, RowsOf
<1>5. \A c \in confirmed :
        /\ confirmedRow(c) \in MemberRow
        /\ confirmedRow(c).block = rows[c].block
        /\ confirmedRow(c).hashA = rows[c].hashA
        /\ confirmedRow(c).hashB = rows[c].hashB
  BY <1>4, ConfirmedRow
<1>6. /\ members' = [c \in Char |-> IF c \in confirmed THEN confirmedRow(c) ELSE rows[c]]
      /\ blocks' = [blocks EXCEPT ![h] =
                      Stats(Cardinality(Candidates(h)), Cardinality(confirmed))]
      /\ logs' = logs \cup {[action |-> "GENESIS", block |-> h, chars |-> Candidates(h)]}
      /\ \A c \in Candidates(h) : members[c] = NoRow
  BY DEF BackfillGroup, BackfillConflict
<1>7. \A c \in Char : c \in Candidates(h) => rows[c] = MemberOf(h, characters[c])
  OBVIOUS
<1>8. \A c \in Char : c \notin Candidates(h) => rows[c] = members[c]
  OBVIOUS
<1> HIDE DEF rows, confirmed
<1>9. members' \in [Char -> MemberRow \cup {NoRow}]
  BY <1>3, <1>5, <1>6
<1>10. ASSUME NEW c \in Char
       PROVE  \/ /\ c \in Candidates(h) /\ members[c] = NoRow
                 /\ members'[c] # NoRow /\ members'[c].block = h
              \/ c \notin Candidates(h) /\ members'[c] = members[c]
              \/ SameMember(members'[c], members[c])
  <2>1. members'[c] = IF c \in confirmed THEN confirmedRow(c) ELSE rows[c]
    BY <1>6
  <2>2. c \in confirmed => /\ confirmedRow(c) # NoRow /\ rows[c] # NoRow
                           /\ confirmedRow(c).block = rows[c].block
                           /\ confirmedRow(c).hashA = rows[c].hashA
                           /\ confirmedRow(c).hashB = rows[c].hashB
    BY <1>4, <1>5, ConstantsAssumption
  <2>3. CASE c \in Candidates(h)
    <3>1. rows[c] # NoRow /\ rows[c].block = h
      BY <1>2, <1>7, <2>3, ConstantsAssumption
    <3> HIDE DEF confirmedRow
    <3> QED BY <1>6, <2>1, <2>2, <2>3, <3>1
  <2>4. CASE c \notin Candidates(h)
    <3>1. rows[c] = members[c]
      BY <1>8, <2>4
    <3> HIDE DEF confirmedRow
    <3> QED BY <2>1, <2>2, <2>4, <3>1 DEF SameMember
  <2> QED BY <2>3, <2>4
<1>11. Stats(Cardinality(Candidates(h)), Cardinality(confirmed)) \in BlockRow
  <2>1. Candidates(h) \in SUBSET Char
    BY DEF Candidates
  <2> QED BY <1>4, <2>1, StatsType
<1>12. /\ blocks' \in [HashB -> BlockRow \cup {NoRow}]
       /\ \A g \in HashB : g = h \/ blocks[g] # NoRow => blocks'[g] # NoRow
  BY <1>1, <1>6, <1>11, ConstantsAssumption
<1>13. logs' \in SUBSET LogRow
  <2>1. Candidates(h) \in SUBSET Char
    BY DEF Candidates
  <2> QED BY <1>1, <1>6, <2>1 DEF LogRow
<1> QED BY <1>6, <1>9, <1>10, <1>12, <1>13

\* A job starts.
LEMMA TakeTypes ==
  ASSUME TypedSteps, NEW w \in Worker, NEW c \in Char, Take(w, c)
  PROVE  TypedSteps'
<1> USE DEF Take, Goto, tables, reads, others
<1>1. /\ pc[w] = "idle" /\ task[w] = NoRow /\ queue[c] = "waiting" /\ c # NoRow
      /\ \A v \in Worker : task[v] # c
  BY ConstantsAssumption DEF TypedSteps, TypeOK, JobsAreOwned
<1>2. TypeOK'
  BY <1>1 DEF TypedSteps, TypeOK
<1>3. JobsAreOwned'
  BY <1>1 DEF TypedSteps, JobsAreOwned, TypeOK
<1>4. QueuedHaveHash'
  BY <1>1 DEF TypedSteps, QueuedHaveHash, TypeOK
<1>5. ASSUME NEW v \in Worker PROVE StepInOrder(v)'
  <2>1. StepInOrder(v) /\ pc'[v] = IF v = w THEN "character" ELSE pc[v]
    BY DEF TypedSteps, StepsInOrder, TypeOK
  <2> QED BY <1>1, <2>1 DEF StepInOrder, HasBlock
<1> QED BY <1>2, <1>3, <1>4, <1>5 DEF TypedSteps, StepsInOrder

\* What happens outside the workers.
LEMMA OutsideTypes ==
  ASSUME TypedSteps,
         \/ \E c \in Char, a \in HashA \cup {NoHash}, b \in HashB : Refresh(c, a, b)
         \/ \E c \in Char : Evict(c)
         \/ \E h \in HashB : Backfill(h)
         \/ UNCHANGED vars
  PROVE  TypedSteps'
<1> USE DEF tables, jobs, reads, others
<1>1. /\ UNCHANGED <<pc, task, character, membership, collision, tx>>
      /\ \A c \in Char : queue[c] = "active" => queue'[c] = "active"
      /\ \A h \in HashB : blocks[h] # NoRow => blocks'[h] # NoRow
      /\ TypeOK'
      /\ \A c \in Char : queue'[c] # "absent" => characters'[c].hashB \in HashB
  <2>1. ASSUME NEW c \in Char, NEW a \in HashA \cup {NoHash}, NEW b \in HashB, Refresh(c, a, b)
        PROVE  <1>1!:
    <3>1. characters' \in [Char -> CharacterRow] /\ characters'[c].hashB = b
      BY <2>1 DEF Refresh, TypedSteps, TypeOK, CharacterRow
    <3> QED BY <2>1, <3>1 DEF Refresh, TypedSteps, TypeOK, QueuedHaveHash
  <2>2. ASSUME NEW c \in Char, Evict(c)
        PROVE  <1>1!:
    BY <2>2 DEF Evict, TypedSteps, TypeOK, QueuedHaveHash
  <2>3. ASSUME NEW h \in HashB, Backfill(h)
        PROVE  <1>1!:
    <3>1. CASE BackfillNext(h)
      BY <3>1 DEF BackfillNext, TypedSteps, TypeOK, QueuedHaveHash
    <3>2. CASE BackfillGroup(h)
      BY <3>2, BackfillTables DEF BackfillGroup, TypedSteps, TypeOK, QueuedHaveHash
    <3>3. CASE BackfillFails(h)
      BY <3>3 DEF BackfillFails, TypedSteps, TypeOK, QueuedHaveHash
    <3> QED BY <2>3, <3>1, <3>2, <3>3 DEF Backfill
  <2>4. CASE UNCHANGED vars
    BY <2>4 DEF vars, TypedSteps, TypeOK, QueuedHaveHash
  <2> QED BY <2>1, <2>2, <2>3, <2>4
<1>2. JobsAreOwned'
  BY <1>1 DEF TypedSteps, JobsAreOwned, TypeOK
<1>3. QueuedHaveHash'
  BY <1>1 DEF TypedSteps, QueuedHaveHash
<1>4. StepsInOrder'
  BY <1>1 DEF TypedSteps, StepsInOrder, StepInOrder, HasBlock, TypeOK, QueuedHaveHash
<1> QED BY <1>1, <1>2, <1>3, <1>4 DEF TypedSteps

LEMMA TypedStepsNext == TypedSteps /\ [Next]_vars => TypedSteps'
<1> SUFFICES ASSUME TypedSteps, [Next]_vars PROVE TypedSteps'
  OBVIOUS
<1>1. /\ attempts \in [Char -> Nat] /\ logs \in SUBSET LogRow /\ faults \in Nat
      /\ members \in [Char -> MemberRow \cup {NoRow}]
      /\ blocks \in [HashB -> BlockRow \cup {NoRow}]
  BY DEF TypedSteps, TypeOK
<1>2. ASSUME NEW w \in Worker, NEW c \in Char, Take(w, c) PROVE TypedSteps'
  BY <1>2, TakeTypes
<1>3. ASSUME NEW w \in Worker, Statement(w) PROVE TypedSteps'
  <2>1. CASE ReadCharacter(w) \/ LoadMember(w) \/ LoadBlock(w)
    BY <2>1, ReadTypes
  <2>2. CASE Touch(w)
    BY <1>1, <2>2, ReleaseTypes DEF Touch, tables
  <2>3. CASE \/ UpdateMember(w) \/ Leave(w) \/ Place(w) \/ Join(w)
             \/ Genesis(w) \/ GenesisMembers(w) \/ RecomputeLeft(w)
    BY <2>3, TransactionTypes
  <2>4. CASE Commit(w)
    <3>1. pc[w] # "idle" /\ Release(w, "completed") /\ UNCHANGED <<attempts, faults>>
      BY <2>4 DEF Commit
    <3> QED BY <1>1, <2>4, <3>1, CommitTables, ReleaseTypes
  <2>5. CASE UniqueViolation(w)
    BY <1>1, <2>5, FailTypes DEF UniqueViolation
  <2>6. CASE DeadlockVictim(w)
    <3>1. pc[w] # "idle"
      BY <2>6 DEF DeadlockVictim, Deadlocked, WaitsFor, MembersNeeded, BlocksNeeded
    <3> QED BY <1>1, <2>6, <3>1, FailTypes DEF DeadlockVictim
  <2> QED BY <1>3, <2>1, <2>2, <2>3, <2>4, <2>5, <2>6 DEF Statement
<1>4. ASSUME NEW w \in Worker, QueryError(w) PROVE TypedSteps'
  BY <1>1, <1>4, FailTypes DEF QueryError, Fault
<1>5. ASSUME NEW w \in Worker, Crash(w) PROVE TypedSteps'
  BY <1>1, <1>5, ReleaseTypes DEF Crash, Fault, tables
<1>6. CASE \/ \E c \in Char, a \in HashA \cup {NoHash}, b \in HashB : Refresh(c, a, b)
           \/ \E c \in Char : Evict(c)
           \/ \E h \in HashB : Backfill(h)
           \/ UNCHANGED vars
  BY <1>6, OutsideTypes
<1> QED BY <1>2, <1>3, <1>4, <1>5, <1>6 DEF Next

\* The service never writes an ill-formed row and never runs a statement out of
\* order, whichever jobs run, fail or die together.
THEOREM TypeCorrect == Spec => []TypeOK
<1>1. Spec => []TypedSteps
  BY TypedStepsInit, TypedStepsNext, PTL DEF Spec
<1>2. TypedSteps => TypeOK
  BY DEF TypedSteps
<1> QED BY <1>1, <1>2, PTL

-----------------------------------------------------------------------------
(* Memberships                                                             *)

\* the part of Inv that is about rows
Grounded == /\ WritersExclude /\ TransactionsCommittable
            /\ ReadMembershipHolds /\ MembersHaveBlocks /\ MembershipIsLogged

LEMMA SameMemberTrans ==
  ASSUME NEW r, NEW s, NEW q, SameMember(r, s), SameMember(s, q)
  PROVE  SameMember(r, q)
BY DEF SameMember

LEMMA LoggedMonotone ==
  ASSUME NEW c, NEW h, NEW E, NEW F, E \subseteq F, Logged(c, h, E)
  PROVE  Logged(c, h, F)
BY DEF Logged

LEMMA GroundedInit == Init => Grounded
<1> SUFFICES ASSUME Init PROVE Grounded
  OBVIOUS
<1>1. WritersExclude /\ TransactionsCommittable
  BY DEF Init, WritersExclude, TransactionsCommittable, Committable, HeldMembers, NoTx
<1>2. ReadMembershipHolds /\ MembersHaveBlocks /\ MembershipIsLogged
  BY DEF Init, ReadMembershipHolds, MembersHaveBlocks, MembershipIsLogged
<1> QED BY <1>1, <1>2 DEF Grounded

\* A statement that writes to its transaction only, what nobody else holds.
LEMMA WriteKeeps ==
  ASSUME TypedSteps, Grounded, NEW w \in Worker, NEW t \in Transaction,
         UNCHANGED <<blocks, members, logs, task, membership, collision>>,
         tx' = [tx EXCEPT ![w] = t],
         Committable(w, t),
         \A c \in Char : \/ t.members[c] = tx[w].members[c]
                         \/ \A v \in Worker \ {w} : c \notin HeldMembers(v)
  PROVE  Grounded'
<1>1. tx'[w] = t /\ \A v \in Worker \ {w} : tx'[v] = tx[v]
  BY DEF TypedSteps, TypeOK
<1>2. WritersExclude'
  BY <1>1 DEF Grounded, WritersExclude, HeldMembers
<1>3. ASSUME NEW v \in Worker PROVE Committable(v, tx[v])'
  <2>1. Committable(v, tx'[v])
    BY <1>1 DEF Grounded, TransactionsCommittable
  <2> QED BY <2>1 DEF Committable, Left, HasBlock
<1>4. ReadMembershipHolds' /\ MembersHaveBlocks' /\ MembershipIsLogged'
  BY DEF Grounded, ReadMembershipHolds, MembersHaveBlocks, MembershipIsLogged
<1> QED BY <1>2, <1>3, <1>4 DEF Grounded, TransactionsCommittable

\* What the worker wrote is discarded, or it wrote nothing.
LEMMA DiscardKeeps ==
  ASSUME TypedSteps, Grounded, NEW w \in Worker,
         UNCHANGED <<blocks, members, logs>>,
         tx' = [tx EXCEPT ![w] = NoTx],
         \A v \in Worker \ {w} : /\ task'[v] = task[v] /\ membership'[v] = membership[v]
                                 /\ collision'[v] = collision[v],
         membership'[w] # NoRow => SameMember(members[task'[w]], membership'[w])
  PROVE  Grounded'
<1>1. tx'[w] = NoTx /\ \A v \in Worker \ {w} : tx'[v] = tx[v]
  BY DEF TypedSteps, TypeOK
<1>2. \A c \in Char : NoTx.members[c] = Unwritten
  BY DEF NoTx
<1>3. WritersExclude'
  BY <1>1, <1>2 DEF Grounded, WritersExclude, HeldMembers
<1>4. ASSUME NEW v \in Worker PROVE Committable(v, tx[v])'
  <2>1. CASE v = w
    BY <1>1, <1>2, <2>1 DEF Committable
  <2>2. CASE v # w
    <3>1. Committable(v, tx[v]) /\ tx'[v] = tx[v]
      BY <1>1, <2>2 DEF Grounded, TransactionsCommittable
    <3> QED BY <2>2, <3>1 DEF Committable, Left, HasBlock
  <2> QED BY <2>1, <2>2
<1>5. ReadMembershipHolds'
  BY DEF Grounded, ReadMembershipHolds
<1>6. MembersHaveBlocks' /\ MembershipIsLogged'
  BY DEF Grounded, MembersHaveBlocks, MembershipIsLogged
<1> QED BY <1>3, <1>4, <1>5, <1>6 DEF Grounded, TransactionsCommittable

LEMMA ReleaseKeeps ==
  ASSUME TypedSteps, Grounded, NEW w \in Worker, NEW state, Release(w, state), UNCHANGED tables
  PROVE  Grounded'
<1>1. /\ tx' = [tx EXCEPT ![w] = NoTx] /\ membership'[w] = NoRow
      /\ \A v \in Worker \ {w} : /\ task'[v] = task[v] /\ membership'[v] = membership[v]
                                 /\ collision'[v] = collision[v]
  BY DEF Release, TypedSteps, TypeOK
<1> QED BY <1>1, DiscardKeeps DEF tables

\* Recomputing a block writes nothing that must not be committed.
LEMMA RecomputedCommittable ==
  ASSUME TypedSteps, Grounded, NEW w \in Worker, pc[w] = "recompute", WaitsFor(w) = {}
  PROVE  LET done == Recomputed(tx[w])
         IN /\ done \in Transaction
            /\ Committable(w, done)
            /\ \A c \in Char : \/ done.members[c] = tx[w].members[c]
                               \/ \A v \in Worker \ {w} : c \notin HeldMembers(v)
<1> DEFINE done == Recomputed(tx[w])
<1>1. /\ tx[w] \in Transaction /\ members \in [Char -> MemberRow \cup {NoRow}]
      /\ task[w] \in Char
  BY DEF TypedSteps, TypeOK, JobsAreOwned
<1>2. /\ done \in Transaction /\ done.logs = tx[w].logs
      /\ \A h \in HashB : tx[w].blocks[h] # Unwritten => done.blocks[h] # Unwritten
      /\ \A c \in Char :
           \/ done.members[c] = tx[w].members[c]
           \/ /\ c \in tx[w].rows /\ done.members[c] \in MemberRow
              /\ SameMember(done.members[c], MembersSeen(tx[w])[c])
  BY <1>1, RecomputedType
<1> HIDE DEF done
<1>3. MembersNeeded(w) = tx[w].rows
  BY Zenon DEF MembersNeeded
<1>4. \A c \in tx[w].rows : \A v \in Worker \ {w} : c \notin HeldMembers(v)
  BY <1>3 DEF WaitsFor
<1>5. Committable(w, tx[w])
  BY DEF Grounded, TransactionsCommittable
<1>6. ASSUME NEW c \in Char, done.members[c] # Unwritten
      PROVE  /\ c # task[w] /\ members[c] # NoRow => SameMember(done.members[c], members[c])
             /\ c = task[w] /\ members[c] # NoRow =>
                  Left(w, done) \/ KeepsBlock(done.members[c], members[c])
             /\ done.members[c] # NoRow =>
                  /\ HasBlock(done, done.members[c].block)
                  /\ Logged(c, done.members[c].block, logs \cup done.logs)
  <2>1. tx[w].members[c] # Unwritten =>
          /\ c # task[w] /\ members[c] # NoRow => SameMember(tx[w].members[c], members[c])
          /\ c = task[w] /\ members[c] # NoRow =>
               Left(w, done) \/ KeepsBlock(tx[w].members[c], members[c])
          /\ tx[w].members[c] # NoRow =>
               /\ HasBlock(done, tx[w].members[c].block)
               /\ Logged(c, tx[w].members[c].block, logs \cup done.logs)
    <3>1. tx[w].members[c] \notin {NoRow, Unwritten} => tx[w].members[c].block \in HashB
      BY <1>1 DEF Transaction, MemberRow
    <3> QED BY <1>2, <1>5, <3>1 DEF Committable, Left, HasBlock
  <2>2. CASE done.members[c] = tx[w].members[c]
    BY <1>6, <2>1, <2>2
  <2>3. CASE done.members[c] # tx[w].members[c]
    <3> DEFINE seen == MembersSeen(tx[w])[c]
    <3>1. SameMember(done.members[c], seen)
      BY <1>2, <2>3
    <3>2. seen = IF tx[w].members[c] = Unwritten THEN members[c] ELSE tx[w].members[c]
      BY <1>1 DEF MembersSeen, Overlay
    <3>3. members[c] # NoRow /\ tx[w].members[c] = Unwritten =>
            /\ HasBlock(done, members[c].block)
            /\ Logged(c, members[c].block, logs \cup done.logs)
      BY LoggedMonotone DEF Grounded, MembersHaveBlocks, MembershipIsLogged, HasBlock
    <3> HIDE DEF seen
    <3>4. CASE tx[w].members[c] = Unwritten
      BY <3>1, <3>2, <3>3, <3>4 DEF SameMember, KeepsBlock
    <3>5. CASE tx[w].members[c] # Unwritten
      BY <2>1, <3>1, <3>2, <3>5, SameMemberTrans DEF SameMember, KeepsBlock
    <3> QED BY <3>4, <3>5
  <2> QED BY <2>2, <2>3
<1>7. Committable(w, done)
  BY <1>6 DEF Committable
<1> QED BY <1>2, <1>4, <1>7 DEF done

\* What a COMMIT does to every membership, and that the rest stays grounded.
LEMMA CommitKeeps ==
  ASSUME TypedSteps, Grounded, NEW w \in Worker, Commit(w)
  PROVE  /\ Grounded'
         /\ \A c \in Char : Moves(c) =>
              /\ c = task[w] /\ collision[w] /\ membership[w].block = members[c].block
              /\ [action |-> "MIGRATE", block |-> members[c].block, chars |-> {c}] \in logs'
<1> DEFINE done == Recomputed(tx[w])
<1>1. /\ members' = Overlay(done.members, members)
      /\ blocks' = Overlay(done.blocks, blocks)
      /\ \A h \in HashB : blocks[h] # NoRow => blocks'[h] # NoRow
      /\ logs' = logs \cup tx[w].logs
      /\ members \in [Char -> MemberRow \cup {NoRow}]
      /\ blocks \in [HashB -> BlockRow \cup {NoRow}]
      /\ tx[w] \in Transaction
  BY CommitTables DEF TypedSteps, TypeOK
<1>2. done.logs = tx[w].logs
  BY <1>1, RecomputedType
<1>3. /\ done \in Transaction /\ Committable(w, done)
      /\ \A c \in Char : \/ done.members[c] = tx[w].members[c]
                         \/ \A v \in Worker \ {w} : c \notin HeldMembers(v)
  BY RecomputedCommittable DEF Commit
<1>4. /\ tx' = [tx EXCEPT ![w] = NoTx] /\ membership'[w] = NoRow
      /\ \A v \in Worker \ {w} : /\ task'[v] = task[v] /\ membership'[v] = membership[v]
                                 /\ collision'[v] = collision[v]
  BY DEF Commit, Release, TypedSteps, TypeOK
<1> HIDE DEF done
<1>5. ASSUME NEW c \in Char
      PROVE  members'[c] = IF done.members[c] = Unwritten THEN members[c] ELSE done.members[c]
  BY <1>1, <1>3 DEF Overlay
<1>6. \A v \in Worker \ {w} : \A c \in HeldMembers(v) : done.members[c] = Unwritten
  BY <1>3 DEF Grounded, WritersExclude, HeldMembers
<1>7. \A h \in HashB : HasBlock(done, h) => blocks'[h] # NoRow
  BY <1>1, <1>3, ConstantsAssumption DEF HasBlock, Overlay, Transaction
<1>8. tx'[w] = NoTx /\ \A v \in Worker \ {w} : tx'[v] = tx[v]
  BY <1>4 DEF TypedSteps, TypeOK
<1>9. \A c \in Char : NoTx.members[c] = Unwritten
  BY DEF NoTx
<1>10. WritersExclude'
  BY <1>8, <1>9 DEF Grounded, WritersExclude, HeldMembers
<1>11. ASSUME NEW v \in Worker PROVE Committable(v, tx[v])'
  <2>1. CASE v = w
    BY <1>8, <1>9, <2>1 DEF Committable
  <2>2. CASE v # w
    <3>1. ASSUME NEW c \in Char, tx[v].members[c] # Unwritten
          PROVE  /\ c # task[v] /\ members'[c] # NoRow => SameMember(tx[v].members[c], members'[c])
                 /\ c = task[v] /\ members'[c] # NoRow =>
                      Left(v, tx[v])' \/ KeepsBlock(tx[v].members[c], members'[c])
                 /\ tx[v].members[c] # NoRow =>
                      /\ HasBlock(tx[v], tx[v].members[c].block)'
                      /\ Logged(c, tx[v].members[c].block, logs' \cup tx[v].logs)
      <4>1. members'[c] = members[c]
        BY <1>5, <1>6, <2>2, <3>1 DEF HeldMembers
      <4>2. Committable(v, tx[v])
        BY DEF Grounded, TransactionsCommittable
      <4>3. tx[v].members[c] # NoRow => tx[v].members[c].block \in HashB
        BY <3>1 DEF TypedSteps, TypeOK, Transaction, MemberRow
      <4>4. logs \cup tx[v].logs \subseteq logs' \cup tx[v].logs
        BY <1>1
      <4>5. tx[v].members[c] # NoRow =>
              Logged(c, tx[v].members[c].block, logs' \cup tx[v].logs)
        BY <3>1, <4>2, <4>4, LoggedMonotone DEF Committable
      <4>6. tx[v].members[c] # NoRow => HasBlock(tx[v], tx[v].members[c].block)'
        BY <1>1, <1>8, <2>2, <3>1, <4>2, <4>3 DEF Committable, HasBlock
      <4>7. c = task[v] /\ Left(v, tx[v]) => Left(v, tx[v])'
        <5>1. /\ task'[v] = task[v] /\ membership'[v] = membership[v]
              /\ collision'[v] = collision[v] /\ tx'[v] = tx[v]
          BY <1>4, <1>8, <2>2
        <5> QED BY ONLY <4>1, <5>1 DEF Left
      <4> QED BY <3>1, <4>1, <4>2, <4>5, <4>6, <4>7 DEF Committable
    <3>2. task'[v] = task[v] /\ tx'[v] = tx[v]
      BY <1>4, <1>8, <2>2
    <3> QED BY <3>1, <3>2 DEF Committable, Left, HasBlock
  <2> QED BY <2>1, <2>2
<1>12. ASSUME NEW v \in Worker, membership'[v] # NoRow
       PROVE  SameMember(members'[task'[v]], membership'[v])
  <2>1. v # w /\ SameMember(members[task[v]], membership[v])
    BY <1>4, <1>12 DEF Grounded, ReadMembershipHolds
  <2>2. task[v] \in Char /\ task[v] # task[w]
    <3>1. pc[v] # "idle"
      BY <1>4, <1>12, <2>1 DEF TypedSteps, StepsInOrder, StepInOrder
    <3> QED BY <2>1, <3>1 DEF TypedSteps, TypeOK, JobsAreOwned
  <2>3. done.members[task[v]] # Unwritten => SameMember(done.members[task[v]], members[task[v]])
    BY <1>3, <2>1, <2>2 DEF Committable, SameMember
  <2> QED BY <1>4, <1>5, <2>1, <2>2, <2>3, SameMemberTrans
<1>13. ASSUME NEW c \in Char, members'[c] # NoRow
       PROVE  blocks'[members'[c].block] # NoRow /\ Logged(c, members'[c].block, logs')
  <2>1. CASE done.members[c] = Unwritten
    <3>1. members'[c] = members[c] /\ members[c].block \in HashB
      BY <1>1, <1>5, <1>13, <2>1 DEF MemberRow
    <3> QED BY <1>1, <1>13, <3>1, LoggedMonotone
            DEF Grounded, MembersHaveBlocks, MembershipIsLogged
  <2>2. CASE done.members[c] # Unwritten
    <3>1. members'[c] = done.members[c] /\ done.members[c].block \in HashB
      BY <1>3, <1>5, <1>13, <2>2 DEF Transaction, MemberRow
    <3>2. HasBlock(done, members'[c].block) /\ Logged(c, members'[c].block, logs \cup done.logs)
      BY <1>3, <1>13, <2>2, <3>1 DEF Committable
    <3> QED BY <1>1, <1>2, <1>7, <3>1, <3>2
  <2> QED BY <2>1, <2>2
<1>14. ASSUME NEW c \in Char, Moves(c)
       PROVE  /\ c = task[w] /\ collision[w] /\ membership[w].block = members[c].block
              /\ [action |-> "MIGRATE", block |-> members[c].block, chars |-> {c}] \in logs'
  <2>1. done.members[c] # Unwritten /\ members[c] # NoRow
        /\ ~KeepsBlock(done.members[c], members[c])
    BY <1>5, <1>14 DEF Moves, KeepsBlock
  <2>2. c = task[w] /\ Left(w, done)
    BY <1>3, <2>1 DEF Committable, SameMember, KeepsBlock
  <2> QED BY <1>1, <1>2, <2>2 DEF Left
<1> QED BY <1>10, <1>11, <1>12, <1>13, <1>14
        DEF Grounded, TransactionsCommittable, ReadMembershipHolds, MembersHaveBlocks,
            MembershipIsLogged

\* The backfill founds a block for characters nobody is writing, and moves nobody.
LEMMA BackfillKeeps ==
  ASSUME TypedSteps, Grounded, NEW h \in HashB, BackfillGroup(h)
  PROVE  Grounded' /\ \A c \in Char : ~Moves(c)
<1>1. /\ \A c \in Char : \/ /\ c \in Candidates(h) /\ members[c] = NoRow
                            /\ members'[c] # NoRow /\ members'[c].block = h
                         \/ c \notin Candidates(h) /\ members'[c] = members[c]
                         \/ SameMember(members'[c], members[c])
      /\ \A g \in HashB : g = h \/ blocks[g] # NoRow => blocks'[g] # NoRow
      /\ logs' = logs \cup {[action |-> "GENESIS", block |-> h, chars |-> Candidates(h)]}
  BY BackfillTables
<1>2. /\ UNCHANGED <<task, membership, collision, tx, pc>>
      /\ \A w \in Worker : Candidates(h) \cap HeldMembers(w) = {}
      /\ members \in [Char -> MemberRow \cup {NoRow}]
  BY DEF BackfillGroup, BackfillUnblocked, reads, TypedSteps, TypeOK
<1>3. \A c \in Char : members[c] # NoRow => SameMember(members'[c], members[c])
  BY <1>1 DEF SameMember
<1>4. WritersExclude'
  BY <1>2 DEF Grounded, WritersExclude, HeldMembers
<1>5. ASSUME NEW w \in Worker, NEW c \in Char, tx[w].members[c] # Unwritten
      PROVE  /\ c # task[w] /\ members'[c] # NoRow => SameMember(tx[w].members[c], members'[c])
             /\ c = task[w] /\ members'[c] # NoRow =>
                  Left(w, tx[w])' \/ KeepsBlock(tx[w].members[c], members'[c])
             /\ tx[w].members[c] # NoRow =>
                  /\ HasBlock(tx[w], tx[w].members[c].block)'
                  /\ Logged(c, tx[w].members[c].block, logs' \cup tx[w].logs)
  <2>1. c \notin Candidates(h)
    BY <1>2, <1>5 DEF HeldMembers
  <2>2. Committable(w, tx[w])
    BY DEF Grounded, TransactionsCommittable
  <2>3. \/ members'[c] = members[c]
        \/ SameMember(members'[c], members[c])
    BY <1>1, <2>1
  <2>4. tx[w].members[c] # NoRow => tx[w].members[c].block \in HashB
    BY <1>5 DEF TypedSteps, TypeOK, Transaction, MemberRow
  <2>5. logs \cup tx[w].logs \subseteq logs' \cup tx[w].logs
    BY <1>1
  <2>6. tx[w].members[c] # NoRow =>
          /\ HasBlock(tx[w], tx[w].members[c].block)'
          /\ Logged(c, tx[w].members[c].block, logs' \cup tx[w].logs)
    BY <1>1, <1>2, <1>5, <2>2, <2>4, <2>5, LoggedMonotone DEF Committable, HasBlock
  <2>7. c = task[w] /\ members[c] # NoRow /\ Left(w, tx[w]) => Left(w, tx[w])'
    BY <1>2, <1>3 DEF Left, SameMember
  <2> QED BY <1>5, <2>2, <2>3, <2>6, <2>7 DEF Committable, SameMember, KeepsBlock
<1>6. TransactionsCommittable'
  BY <1>2, <1>5 DEF TransactionsCommittable, Committable
<1>7. ReadMembershipHolds'
  <2> SUFFICES ASSUME NEW w \in Worker, membership[w] # NoRow
               PROVE  SameMember(members'[task[w]], membership[w])
    BY <1>2 DEF ReadMembershipHolds
  <2>1. task[w] \in Char /\ SameMember(members[task[w]], membership[w])
    BY DEF TypedSteps, TypeOK, JobsAreOwned, StepsInOrder, StepInOrder, Grounded,
           ReadMembershipHolds
  <2> QED BY <1>3, <2>1 DEF SameMember
<1>8. ASSUME NEW c \in Char, members'[c] # NoRow
      PROVE  blocks'[members'[c].block] # NoRow /\ Logged(c, members'[c].block, logs')
  <2>1. CASE members[c] = NoRow
    <3>1. members'[c].block = h
      BY <1>1, <1>8, <2>1 DEF SameMember
    <3>2. c \in Candidates(h)
      BY <1>1, <1>8, <2>1 DEF SameMember
    <3>3. Logged(c, h, {[action |-> "GENESIS", block |-> h, chars |-> Candidates(h)]})
      BY <3>2 DEF Logged
    <3>4. Logged(c, h, logs')
      BY <1>1, <3>3, LoggedMonotone
    <3> QED BY <1>1, <3>1, <3>4
  <2>2. CASE members[c] # NoRow
    <3>1. members'[c].block = members[c].block /\ members[c].block \in HashB
      BY <1>2, <1>3, <2>2 DEF SameMember, MemberRow
    <3> QED BY <1>1, <2>2, <3>1, LoggedMonotone
            DEF Grounded, MembersHaveBlocks, MembershipIsLogged
  <2> QED BY <2>1, <2>2
<1> QED BY <1>3, <1>4, <1>6, <1>7, <1>8
        DEF Grounded, MembersHaveBlocks, MembershipIsLogged, Moves, SameMember

\* The steps before a worker's transaction, which has written nothing yet.
LEMMA ReadKeeps ==
  ASSUME TypedSteps, Grounded, NEW w \in Worker,
         \/ \E c \in Char : Take(w, c)
         \/ ReadCharacter(w) \/ LoadMember(w) \/ LoadBlock(w)
  PROVE  Grounded'
<1>1. StepInOrder(w)
  BY DEF TypedSteps, StepsInOrder
<1>2. /\ UNCHANGED <<blocks, members, logs, tx>>
      /\ tx[w] = NoTx
      /\ \A v \in Worker \ {w} : /\ task'[v] = task[v] /\ membership'[v] = membership[v]
                                 /\ collision'[v] = collision[v]
  BY <1>1 DEF Take, ReadCharacter, LoadMember, LoadBlock, StepInOrder, TypedSteps, TypeOK,
              tables, reads
<1>3. tx' = [tx EXCEPT ![w] = NoTx]
  BY <1>2 DEF TypedSteps, TypeOK
<1>4. membership'[w] # NoRow => SameMember(members[task'[w]], membership'[w])
  <2>1. ASSUME NEW c \in Char, Take(w, c) PROVE membership'[w] = NoRow
    BY <1>1, <2>1 DEF Take, StepInOrder, reads
  <2>2. CASE ReadCharacter(w)
    BY <1>1, <2>2 DEF ReadCharacter, StepInOrder
  <2>3. CASE LoadMember(w)
    BY <2>3 DEF LoadMember, SameMember, TypedSteps, TypeOK
  <2>4. CASE LoadBlock(w)
    <3>1. task' = task /\ membership'[w] \in {NoRow, membership[w]}
      BY <2>4 DEF LoadBlock, TypedSteps, TypeOK
    <3> QED BY <3>1 DEF Grounded, ReadMembershipHolds
  <2> QED BY <2>1, <2>2, <2>3, <2>4
<1> QED BY <1>2, <1>3, <1>4, DiscardKeeps

\* A worker writes its own character's row in the transaction t, then reads a block.
LEMMA OwnWriteKeeps ==
  ASSUME TypedSteps, Grounded, NEW w \in Worker, NEW t \in Transaction,
         NEW row \in MemberRow \cup {NoRow, Unwritten},
         task[w] \in Char, MembersNeeded(w) = {task[w]}, WaitsFor(w) = {},
         UNCHANGED <<blocks, members, logs, task, membership, collision>>,
         tx' = [tx EXCEPT ![w] = t],
         t.members = [tx[w].members EXCEPT ![task[w]] = row],
         t.blocks = tx[w].blocks, tx[w].logs \subseteq t.logs,
         row # Unwritten /\ members[task[w]] # NoRow =>
           Left(w, t) \/ KeepsBlock(row, members[task[w]]),
         row \notin {Unwritten, NoRow} => /\ HasBlock(t, row.block)
                                          /\ Logged(task[w], row.block, logs \cup t.logs)
  PROVE  Grounded'
<1>1. tx[w] \in Transaction
  BY DEF TypedSteps, TypeOK
<1>2. \A c \in Char : t.members[c] = IF c = task[w] THEN row ELSE tx[w].members[c]
  BY <1>1 DEF Transaction
<1>3. \A v \in Worker \ {w} : task[w] \notin HeldMembers(v)
  BY DEF WaitsFor
<1>4. Committable(w, tx[w])
  BY DEF Grounded, TransactionsCommittable
<1>5. ASSUME NEW c \in Char, t.members[c] # Unwritten
      PROVE  /\ c # task[w] /\ members[c] # NoRow => SameMember(t.members[c], members[c])
             /\ c = task[w] /\ members[c] # NoRow =>
                  Left(w, t) \/ KeepsBlock(t.members[c], members[c])
             /\ t.members[c] # NoRow => /\ HasBlock(t, t.members[c].block)
                                        /\ Logged(c, t.members[c].block, logs \cup t.logs)
  <2>1. CASE c = task[w]
    BY <1>2, <1>5, <2>1
  <2>2. CASE c # task[w]
    <3>1. t.members[c] = tx[w].members[c]
      BY <1>2, <2>2
    <3>2. t.members[c] # NoRow => /\ HasBlock(tx[w], t.members[c].block)
                                  /\ Logged(c, t.members[c].block, logs \cup tx[w].logs)
      BY <1>4, <1>5, <3>1 DEF Committable
    <3>3. t.members[c] # NoRow => Logged(c, t.members[c].block, logs \cup t.logs)
      BY <3>2, LoggedMonotone
    <3> QED BY <1>4, <1>5, <2>2, <3>1, <3>2, <3>3 DEF Committable, HasBlock
  <2> QED BY <2>1, <2>2
<1>6. Committable(w, t)
  BY <1>5 DEF Committable
<1>7. \A c \in Char : \/ t.members[c] = tx[w].members[c]
                       \/ \A v \in Worker \ {w} : c \notin HeldMembers(v)
  BY <1>2, <1>3
<1> QED BY ONLY <1>6, <1>7, WriteKeeps, TypedSteps, Grounded, w \in Worker, t \in Transaction,
             UNCHANGED <<blocks, members, logs, task, membership, collision>>,
             tx' = [tx EXCEPT ![w] = t]

LEMMA UpdateMemberKeeps ==
  ASSUME TypedSteps, Grounded, NEW w \in Worker, UpdateMember(w)
  PROVE  Grounded'
<1> DEFINE block == membership[w].block
           row == IF members[task[w]] = NoRow THEN Unwritten
                  ELSE [members[task[w]] EXCEPT !.hashA = character[w].hashA,
                                                !.hashB = character[w].hashB]
           u == Written(w, row, block, HashChanges(w))
           t == Recomputing(u, block, "commit")
<1>1. /\ tx[w] \in Transaction /\ task[w] \in Char /\ character[w] \in CharacterRow
      /\ members \in [Char -> MemberRow \cup {NoRow}] /\ membership[w] \in MemberRow
      /\ tx[w] = NoTx
  BY DEF TypedSteps, TypeOK, JobsAreOwned, StepsInOrder, StepInOrder, UpdateMember
<1>2. block \in HashB
  BY <1>1 DEF MemberRow
<1>3. /\ row \in MemberRow \cup {NoRow, Unwritten}
      /\ row # Unwritten => /\ members[task[w]] # NoRow /\ row \in MemberRow
                            /\ row.block = members[task[w]].block
  BY <1>1 DEF MemberRow, CharacterRow
<1>4. HashChanges(w) \in SUBSET {"JOIN", "MIGRATE", "HASH_A_CHANGE", "HASH_B_CHANGE"}
  BY DEF HashChanges
<1>5. /\ UNCHANGED <<blocks, members, logs, task, membership, collision>>
      /\ tx' = [tx EXCEPT ![w] = t]
      /\ WaitsFor(w) = {} /\ pc[w] = "update"
  BY DEF UpdateMember, Proceed, tables, reads
<1>6. MembersNeeded(w) = {task[w]}
  BY <1>5, Zenon DEF MembersNeeded
<1> HIDE DEF row, block
<1>7. /\ u \in Transaction /\ u.members = [tx[w].members EXCEPT ![task[w]] = row]
      /\ u.blocks = tx[w].blocks /\ tx[w].logs \subseteq u.logs
  <2> DEFINE entries == {[action |-> a, block |-> block, chars |-> {task[w]}]
                           : a \in HashChanges(w)}
  <2>1. tx[w] \in Transaction /\ task[w] \in Char /\ row \in MemberRow \cup {NoRow, Unwritten}
    BY <1>1, <1>3
  <2>2. /\ u \in Transaction /\ u.members = [tx[w].members EXCEPT ![task[w]] = row]
        /\ u.blocks = tx[w].blocks /\ u.logs = tx[w].logs \cup entries
    BY ONLY <1>2, <1>4, <2>1, WrittenType, w \in Worker DEF u, entries
  <2> HIDE DEF entries
  <2> QED BY <2>2
<1> HIDE DEF u
<1>8. /\ t \in Transaction /\ t.members = [tx[w].members EXCEPT ![task[w]] = row]
      /\ t.blocks = tx[w].blocks /\ tx[w].logs \subseteq t.logs
  BY <1>1, <1>2, <1>7, RecomputingType
<1> HIDE DEF t
<1>9. row # Unwritten => row # NoRow /\ KeepsBlock(row, members[task[w]])
  BY <1>3, ConstantsAssumption DEF KeepsBlock
<1>10. row # Unwritten => /\ HasBlock(t, row.block)
                          /\ Logged(task[w], row.block, logs \cup t.logs)
  BY <1>1, <1>3, LoggedMonotone DEF Grounded, MembersHaveBlocks, MembershipIsLogged, HasBlock
<1> QED BY <1>1, <1>3, <1>5, <1>6, <1>8, <1>9, <1>10, OwnWriteKeeps

LEMMA LeaveKeeps ==
  ASSUME TypedSteps, Grounded, NEW w \in Worker, Leave(w)
  PROVE  Grounded'
<1> DEFINE block == membership[w].block
           row == NoRow
           u == Written(w, row, block, {"MIGRATE"})
           t == Recomputing(u, block, "place")
<1>1. /\ tx[w] \in Transaction /\ task[w] \in Char /\ membership[w] \in MemberRow
      /\ members \in [Char -> MemberRow \cup {NoRow}]
      /\ membership[w] # NoRow /\ collision[w]
  BY DEF TypedSteps, TypeOK, JobsAreOwned, StepsInOrder, StepInOrder, Leave
<1>2. block \in HashB
  BY <1>1 DEF MemberRow
<1>3. /\ UNCHANGED <<blocks, members, logs, task, membership, collision>>
      /\ tx' = [tx EXCEPT ![w] = t]
      /\ WaitsFor(w) = {} /\ pc[w] = "leave"
  BY DEF Leave, Proceed, tables, reads
<1>4. MembersNeeded(w) = {task[w]}
  BY <1>3, Zenon DEF MembersNeeded
<1>5. block = members[task[w]].block
  BY <1>1 DEF Grounded, ReadMembershipHolds, SameMember
<1>6. row \in MemberRow \cup {NoRow, Unwritten} /\ row \in {NoRow, Unwritten}
  OBVIOUS
<1> HIDE DEF block, row
<1>7. /\ u \in Transaction /\ u.members = [tx[w].members EXCEPT ![task[w]] = row]
      /\ u.blocks = tx[w].blocks /\ tx[w].logs \subseteq u.logs
      /\ [action |-> "MIGRATE", block |-> block, chars |-> {task[w]}] \in u.logs
  <2> DEFINE entries == {[action |-> a, block |-> block, chars |-> {task[w]}] : a \in {"MIGRATE"}}
  <2>1. {"MIGRATE"} \in SUBSET {"JOIN", "MIGRATE", "HASH_A_CHANGE", "HASH_B_CHANGE"}
    OBVIOUS
  <2>2. tx[w] \in Transaction /\ task[w] \in Char
    BY <1>1
  <2>3. /\ u \in Transaction /\ u.members = [tx[w].members EXCEPT ![task[w]] = row]
        /\ u.blocks = tx[w].blocks /\ u.logs = tx[w].logs \cup entries
    BY ONLY <1>2, <1>6, <2>1, <2>2, WrittenType, w \in Worker DEF entries, u
  <2>4. [action |-> "MIGRATE", block |-> block, chars |-> {task[w]}] \in entries
    OBVIOUS
  <2> HIDE DEF entries
  <2> QED BY <2>3, <2>4
<1> HIDE DEF u
<1>8. /\ t \in Transaction /\ t.members = [tx[w].members EXCEPT ![task[w]] = row]
      /\ t.blocks = tx[w].blocks /\ tx[w].logs \subseteq t.logs
      /\ [action |-> "MIGRATE", block |-> block, chars |-> {task[w]}] \in t.logs
  BY <1>1, <1>2, <1>7, RecomputingType
<1> HIDE DEF t
<1>9. Left(w, t)
  BY <1>1, <1>5, <1>8 DEF Left, block
<1> QED BY <1>1, <1>3, <1>4, <1>8, <1>9, <1>6, OwnWriteKeeps

LEMMA JoinKeeps ==
  ASSUME TypedSteps, Grounded, NEW w \in Worker, Join(w)
  PROVE  Grounded'
<1> DEFINE block == character[w].hashB
           row == MemberOf(block, character[w])
           u == Written(w, row, block, {"JOIN"})
           t == Recomputing(u, block, "commit")
<1>1. /\ tx[w] \in Transaction /\ task[w] \in Char /\ character[w] \in CharacterRow
      /\ members \in [Char -> MemberRow \cup {NoRow}]
      /\ block \in HashB /\ HasBlock(tx[w], block)
  BY DEF TypedSteps, TypeOK, JobsAreOwned, QueuedHaveHash, StepsInOrder, StepInOrder, Join
<1>2. row \in MemberRow /\ row.block = block
  BY <1>1 DEF MemberOf, MemberRow, CharacterRow
<1>3. /\ UNCHANGED <<blocks, members, logs, task, membership, collision>>
      /\ tx' = [tx EXCEPT ![w] = t]
      /\ WaitsFor(w) = {} /\ pc[w] = "join" /\ MembersSeen(tx[w])[task[w]] = NoRow
  BY DEF Join, Proceed, tables, reads
<1>4. MembersNeeded(w) = {task[w]}
  BY <1>3, Zenon DEF MembersNeeded
<1>5. members[task[w]] # NoRow => tx[w].members[task[w]] = NoRow
  BY <1>1, <1>3 DEF MembersSeen, Overlay
<1>6. members[task[w]] # NoRow => Left(w, tx[w])
  BY <1>1, <1>5, ConstantsAssumption
     DEF Grounded, TransactionsCommittable, Committable, KeepsBlock
<1> HIDE DEF row, block
<1>7. /\ u \in Transaction /\ u.members = [tx[w].members EXCEPT ![task[w]] = row]
      /\ u.blocks = tx[w].blocks /\ tx[w].logs \subseteq u.logs
      /\ [action |-> "JOIN", block |-> block, chars |-> {task[w]}] \in u.logs
  <2> DEFINE entries == {[action |-> a, block |-> block, chars |-> {task[w]}] : a \in {"JOIN"}}
  <2>1. {"JOIN"} \in SUBSET {"JOIN", "MIGRATE", "HASH_A_CHANGE", "HASH_B_CHANGE"}
    OBVIOUS
  <2>2. /\ u \in Transaction /\ u.members = [tx[w].members EXCEPT ![task[w]] = row]
        /\ u.blocks = tx[w].blocks /\ u.logs = tx[w].logs \cup entries
    BY <1>1, <1>2, <2>1, WrittenType
  <2>3. [action |-> "JOIN", block |-> block, chars |-> {task[w]}] \in entries
    OBVIOUS
  <2> HIDE DEF entries
  <2> QED BY <2>2, <2>3
<1> HIDE DEF u
<1>8. /\ t \in Transaction /\ t.members = [tx[w].members EXCEPT ![task[w]] = row]
      /\ t.blocks = tx[w].blocks /\ tx[w].logs \subseteq t.logs
      /\ [action |-> "JOIN", block |-> block, chars |-> {task[w]}] \in t.logs
  BY <1>1, <1>2, <1>7, RecomputingType
<1> HIDE DEF t
<1>9. Left(w, tx[w]) => Left(w, t)
  BY <1>8 DEF Left
<1>10. HasBlock(t, row.block) /\ Logged(task[w], row.block, logs \cup t.logs)
  BY <1>1, <1>2, <1>8 DEF HasBlock, Logged
<1> QED BY <1>1, <1>2, <1>3, <1>4, <1>6, <1>8, <1>9, <1>10, OwnWriteKeeps

LEMMA GenesisKeeps ==
  ASSUME TypedSteps, Grounded, NEW w \in Worker, Genesis(w)
  PROVE  Grounded'
<1> DEFINE h == character[w].hashB
           t == [tx[w] EXCEPT !.blocks[h] = Stats(0, 0)]
<1>1. tx[w] \in Transaction /\ h \in HashB
  BY DEF TypedSteps, TypeOK, QueuedHaveHash, Genesis
<1>2. Stats(0, 0) \in BlockRow
  BY ConstantsAssumption DEF Stats, BlockRow
<1>3. /\ t \in Transaction /\ t.members = tx[w].members /\ t.logs = tx[w].logs
      /\ \A g \in HashB : tx[w].blocks[g] # Unwritten => t.blocks[g] # Unwritten
  BY <1>1, <1>2, ConstantsAssumption DEF Transaction
<1>4. /\ UNCHANGED <<blocks, members, logs, task, membership, collision>>
      /\ tx' = [tx EXCEPT ![w] = t]
  BY DEF Genesis, Proceed, tables, reads
<1> HIDE DEF t
<1>5. \A c \in Char : t.members[c] \notin {NoRow, Unwritten} => t.members[c].block \in HashB
  BY <1>3 DEF Transaction, MemberRow
<1>6. Committable(w, tx[w])
  BY DEF Grounded, TransactionsCommittable
<1>7. Committable(w, t)
  BY <1>3, <1>5, <1>6 DEF Committable, Left, HasBlock
<1> QED BY <1>3, <1>4, <1>7, WriteKeeps

LEMMA GenesisMembersKeeps ==
  ASSUME TypedSteps, Grounded, NEW w \in Worker, GenesisMembers(w)
  PROVE  Grounded'
<1> DEFINE h == character[w].hashB
           rows == FoundingRows(h)
           entry == [action |-> "GENESIS", block |-> h, chars |-> Candidates(h)]
           t == Founded(w, rows)
<1>1. /\ tx[w] \in Transaction /\ h \in HashB /\ HasBlock(tx[w], h)
      /\ characters \in [Char -> CharacterRow] /\ members \in [Char -> MemberRow \cup {NoRow}]
      /\ task[w] \in Char
  BY DEF TypedSteps, TypeOK, JobsAreOwned, QueuedHaveHash, StepsInOrder, StepInOrder,
         GenesisMembers
<1>2. /\ t \in Transaction /\ t.blocks = tx[w].blocks /\ t.logs = tx[w].logs \cup {entry}
      /\ \A c \in Char : t.members[c] = IF c \in Candidates(h) THEN rows[c] ELSE tx[w].members[c]
  BY <1>1, FoundedType
<1>3. /\ UNCHANGED <<blocks, members, logs, task, membership, collision>>
      /\ tx' = [tx EXCEPT ![w] = t]
      /\ pc[w] = "candidates" /\ WaitsFor(w) = {}
      /\ \A c \in Candidates(h) : MembersSeen(tx[w])[c] = NoRow
  BY DEF GenesisMembers, Proceed, tables, reads
<1>4. ASSUME NEW c \in Candidates(h)
      PROVE  c \in Char /\ rows[c] # NoRow /\ rows[c].block = h
  <2>1. c \in Char /\ rows[c] = MemberOf(h, characters[c])
    BY DEF FoundingRows, Candidates
  <2>2. MemberOf(h, characters[c]) \in MemberRow /\ MemberOf(h, characters[c]).block = h
    BY <1>1, <2>1 DEF MemberOf, CharacterRow, MemberRow
  <2> QED BY <2>1, <2>2, ConstantsAssumption
<1> HIDE DEF t, rows
<1>5. MembersNeeded(w) = Candidates(h)
  BY <1>3, Zenon DEF MembersNeeded
<1>6. \A c \in Candidates(h) : \A v \in Worker \ {w} : c \notin HeldMembers(v)
  BY <1>5, <1>3 DEF WaitsFor
<1>7. \A c \in Candidates(h) : members[c] # NoRow => tx[w].members[c] = NoRow
  BY <1>1, <1>3, <1>4 DEF MembersSeen, Overlay
<1>8. Committable(w, tx[w])
  BY DEF Grounded, TransactionsCommittable
<1>9. Left(w, tx[w]) => Left(w, t)
  BY <1>2 DEF Left
<1>10. ASSUME NEW c \in Char, t.members[c] # Unwritten
       PROVE  /\ c # task[w] /\ members[c] # NoRow => SameMember(t.members[c], members[c])
              /\ c = task[w] /\ members[c] # NoRow =>
                   Left(w, t) \/ KeepsBlock(t.members[c], members[c])
              /\ t.members[c] # NoRow => /\ HasBlock(t, t.members[c].block)
                                         /\ Logged(c, t.members[c].block, logs \cup t.logs)
  <2>1. CASE c \in Candidates(h)
    <3>1. t.members[c] = rows[c] /\ rows[c].block = h
      BY <1>2, <1>4, <2>1
    <3>2. HasBlock(t, h)
      BY <1>1, <1>2 DEF HasBlock
    <3>3. Logged(c, h, {entry})
      BY <2>1 DEF Logged
    <3>4. Logged(c, h, logs \cup t.logs)
      BY <1>2, <3>3, LoggedMonotone
    <3>5. members[c] # NoRow => c = task[w] /\ Left(w, tx[w])
      BY <1>7, <1>8, <2>1, ConstantsAssumption DEF Committable, SameMember, KeepsBlock
    <3> QED BY <1>9, <3>1, <3>2, <3>4, <3>5
  <2>2. CASE c \notin Candidates(h)
    <3>1. t.members[c] = tx[w].members[c]
      BY <1>2, <2>2
    <3>2. t.members[c] # NoRow => /\ HasBlock(t, t.members[c].block)
                                  /\ Logged(c, t.members[c].block, logs \cup tx[w].logs)
      BY <1>2, <1>8, <1>10, <3>1 DEF Committable, HasBlock
    <3>3. t.members[c] # NoRow => Logged(c, t.members[c].block, logs \cup t.logs)
      BY <1>2, <3>2, LoggedMonotone
    <3> QED BY <1>8, <1>9, <1>10, <3>1, <3>2, <3>3 DEF Committable
  <2> QED BY <2>1, <2>2
<1>11. Committable(w, t)
  BY <1>10 DEF Committable
<1>12. \A c \in Char : \/ t.members[c] = tx[w].members[c]
                       \/ \A v \in Worker \ {w} : c \notin HeldMembers(v)
  BY <1>2, <1>6
<1> QED BY ONLY <1>2, <1>3, <1>11, <1>12, WriteKeeps, TypedSteps, Grounded, w \in Worker

LEMMA RecomputeLeftKeeps ==
  ASSUME TypedSteps, Grounded, NEW w \in Worker, RecomputeLeft(w)
  PROVE  Grounded'
<1> DEFINE done == Recomputed(tx[w])
<1>1. /\ done \in Transaction /\ Committable(w, done)
      /\ \A c \in Char : \/ done.members[c] = tx[w].members[c]
                         \/ \A v \in Worker \ {w} : c \notin HeldMembers(v)
  BY RecomputedCommittable DEF RecomputeLeft
<1>2. /\ UNCHANGED <<blocks, members, logs, task, membership, collision>>
      /\ tx' = [tx EXCEPT ![w] = done]
  BY DEF RecomputeLeft, Proceed, tables, reads
<1> HIDE DEF done
<1> QED BY ONLY <1>1, <1>2, WriteKeeps, TypedSteps, Grounded, w \in Worker

\* Steps that touch neither the tables nor a transaction.
LEMMA QuietKeeps ==
  ASSUME Grounded, UNCHANGED <<blocks, members, logs, task, membership, collision, tx>>
  PROVE  Grounded'
BY DEF Grounded, WritersExclude, HeldMembers, TransactionsCommittable, Committable, Left, HasBlock,
       ReadMembershipHolds, MembersHaveBlocks, MembershipIsLogged

LEMMA GroundedNext == TypedSteps /\ Grounded /\ [Next]_vars => Grounded'
<1> SUFFICES ASSUME TypedSteps, Grounded, [Next]_vars PROVE Grounded'
  OBVIOUS
<1> USE DEF tables, jobs, reads, others
<1>1. ASSUME NEW c \in Char, NEW a \in HashA \cup {NoHash}, NEW b \in HashB, Refresh(c, a, b)
      PROVE  Grounded'
  BY <1>1, QuietKeeps DEF Refresh
<1>2. ASSUME NEW c \in Char, Evict(c) PROVE Grounded'
  BY <1>2, QuietKeeps DEF Evict
<1>3. ASSUME NEW w \in Worker, NEW c \in Char, Take(w, c) PROVE Grounded'
  BY <1>3, ReadKeeps
<1>4. ASSUME NEW w \in Worker, Fail(w) PROVE Grounded'
  BY <1>4, ReleaseKeeps DEF Fail
<1>5. ASSUME NEW w \in Worker, Statement(w) PROVE Grounded'
  <2>1. CASE ReadCharacter(w) \/ LoadMember(w) \/ LoadBlock(w)
    BY <2>1, ReadKeeps
  <2>2. CASE Touch(w)
    BY <2>2, ReleaseKeeps DEF Touch
  <2>3. CASE Place(w)
    BY <2>3, QuietKeeps DEF Place
  <2>4. CASE UniqueViolation(w) \/ DeadlockVictim(w)
    BY <1>4, <2>4 DEF UniqueViolation, DeadlockVictim
  <2> QED BY <1>5, <2>1, <2>2, <2>3, <2>4, UpdateMemberKeeps, LeaveKeeps, JoinKeeps, GenesisKeeps,
             GenesisMembersKeeps, RecomputeLeftKeeps, CommitKeeps
          DEF Statement
<1>6. ASSUME NEW w \in Worker, QueryError(w) \/ Crash(w) PROVE Grounded'
  BY <1>4, <1>6, ReleaseKeeps DEF QueryError, Crash
<1>7. ASSUME NEW h \in HashB, Backfill(h) PROVE Grounded'
  <2>1. CASE BackfillNext(h)
    BY <2>1, QuietKeeps DEF BackfillNext
  <2>2. CASE BackfillGroup(h)
    BY <2>2, BackfillKeeps
  <2>3. CASE BackfillFails(h)
    BY <2>3, QuietKeeps DEF BackfillFails
  <2> QED BY <1>7, <2>1, <2>2, <2>3 DEF Backfill
<1>8. CASE UNCHANGED vars
  BY <1>8, QuietKeeps DEF vars
<1> QED BY <1>1, <1>2, <1>3, <1>5, <1>6, <1>7, <1>8 DEF Next

\* Inv is inductive with the type invariant, and so it holds of every behaviour.
THEOREM InvHolds == Spec => []Inv
<1>1. Spec => [](TypedSteps /\ Grounded)
  BY TypedStepsInit, GroundedInit, TypedStepsNext, GroundedNext, PTL DEF Spec
<1>2. TypedSteps /\ Grounded => Inv
  BY DEF TypedSteps, Grounded, Inv
<1> QED BY <1>1, <1>2, PTL

\* However many jobs and the backfill interleave, the membership a job read is
\* the membership its transaction writes.
THEOREM ReadsHold == Spec => []ReadMembershipHolds
<1>1. Inv => ReadMembershipHolds
  BY DEF Inv
<1> QED BY <1>1, InvHolds, PTL

\* No membership names a missing block, without a foreign key to say so.
THEOREM NoOrphanMembers == Spec => []MembersHaveBlocks
<1>1. Inv => MembersHaveBlocks
  BY DEF Inv
<1> QED BY <1>1, InvHolds, PTL

\* Every membership has the log entry that explains it.
THEOREM MembersLogged == Spec => []MembershipIsLogged
<1>1. Inv => MembershipIsLogged
  BY DEF Inv
<1> QED BY <1>1, InvHolds, PTL

\* A membership ends or moves only by its own character's job, which read the
\* block as a collision, and with the log entry of the move.
THEOREM LeavesAreCollisions == Spec => LeavesOnlyAsCollision
<1>1. TypedSteps /\ Grounded /\ [Next]_vars =>
        [\A c \in Char : Moves(c) => LeavesCollision(c)]_vars
  <2> SUFFICES ASSUME TypedSteps, Grounded, [Next]_vars, NEW c \in Char, Moves(c)
               PROVE  LeavesCollision(c)
    OBVIOUS
  <2>1. members' # members
    BY DEF Moves
  <2>2. CASE \E w \in Worker : Commit(w)
    BY <2>2, CommitKeeps DEF LeavesCollision
  <2>3. CASE \E h \in HashB : BackfillGroup(h)
    BY <2>3, BackfillKeeps
  <2>4. (\E w \in Worker : Commit(w)) \/ (\E h \in HashB : BackfillGroup(h))
    <3> USE DEF tables
    <3>1. ASSUME NEW w \in Worker, Statement(w), ~Commit(w) PROVE UNCHANGED members
      BY <3>1 DEF Statement, ReadCharacter, LoadMember, LoadBlock, Touch, UpdateMember, Leave,
                  Place, Join, Genesis, GenesisMembers, RecomputeLeft, UniqueViolation,
                  DeadlockVictim, Proceed, Fail
    <3>2. ASSUME NEW w \in Worker, QueryError(w) \/ Crash(w) PROVE UNCHANGED members
      BY <3>2 DEF QueryError, Crash, Fail
    <3>3. ASSUME NEW h \in HashB, Backfill(h), ~BackfillGroup(h) PROVE UNCHANGED members
      BY <3>3 DEF Backfill, BackfillNext, BackfillFails
    <3> QED BY <2>1, <3>1, <3>2, <3>3 DEF Next, Refresh, Evict, Take, vars
  <2> QED BY <2>2, <2>3, <2>4
<1>2. Spec => [](TypedSteps /\ Grounded)
  BY TypedStepsInit, GroundedInit, TypedStepsNext, GroundedNext, PTL DEF Spec
<1> QED BY <1>1, <1>2, PTL DEF Spec, LeavesOnlyAsCollision

-----------------------------------------------------------------------------
(* Counters                                                                *)

\* The block row `stats` and the marks of the block's members are right.
Agrees(h, rows, stats) ==
  /\ stats = Stats(Cardinality(RowsOf(h, rows)), Cardinality(Corroborated(h, rows)))
  /\ \A c \in RowsOf(h, rows) : rows[c].isConfirmed <=> c \in Corroborated(h, rows)

AllAgree(rows, stats, except) ==
  \A h \in HashB \ except : stats[h] # NoRow => Agrees(h, rows, stats[h])

\* The blocks of which a transaction with the writes t need not see what is right:
\* those it was disturbed in, and the suspect ones until it has counted them.
Unsure(t, disturbances, suspects) ==
  disturbances \cup {h \in suspects : t.blocks[h] = Unwritten}

\* What the transaction t sees of all other blocks agrees, but for the block that it
\* recomputes next, whose members it has read.
Accounts(t, rows, stats, step, disturbances, suspects) ==
  /\ AllAgree(Overlay(t.members, rows), Overlay(t.blocks, stats),
              Unsure(t, disturbances, suspects) \cup (IF step = "recompute" THEN {t.target} ELSE {}))
  /\ step = "recompute" =>
       /\ t.blocks[t.target] # Unwritten \/ stats[t.target] # NoRow
       /\ t.target \notin disturbances =>
            /\ t.rows = RowsOf(t.target, Overlay(t.members, rows))
            /\ t.confirmed = Corroborated(t.target, Overlay(t.members, rows))

Counters ==
  /\ AllAgree(members, blocks, suspect)
  /\ \A w \in Worker : Accounts(tx[w], members, blocks, pc[w], disturbed[w], suspect)

\* The history knows of every two open transactions that concern one block.
OverlapsKnown ==
  \A w \in Worker : /\ tx[w] = NoTx => disturbed[w] = {}
                    /\ \A v \in Worker \ {w} : Concerned(v) \cap Concerned(w) \subseteq disturbed[w]

\* Nothing is committed, and the history of the transactions that go on is kept.
NoCommit ==
  /\ suspect' = suspect
  /\ \A w \in Worker : tx'[w] # NoTx \/ tx'[w] = tx[w] => disturbed[w] \subseteq disturbed'[w]

Tables == [Char -> MemberRow \cup {NoRow}]

\* Having got from t to u, the transaction wrote rows of block h only.
WroteIn(h, t, u) ==
  /\ u.blocks = t.blocks /\ HasBlock(t, h)
  /\ \A c \in Char : \/ u.members[c] = t.members[c]
                    \/ \A r \in {MembersSeen(t)[c], MembersSeen(u)[c]} : r = NoRow \/ r.block = h

\* A block is not concerned by the rows of other blocks.
LEMMA OthersAgree ==
  ASSUME NEW h, NEW rows, NEW other,
         \A c \in Char : other[c] = rows[c] \/ (IsOutside(h, rows[c]) /\ IsOutside(h, other[c]))
  PROVE  /\ RowsOf(h, other) = RowsOf(h, rows)
         /\ Corroborated(h, other) = Corroborated(h, rows)
         /\ \A s : Agrees(h, rows, s) => Agrees(h, other, s)
<1>1. RowsOf(h, other) = RowsOf(h, rows) /\ \A c \in RowsOf(h, rows) : other[c] = rows[c]
  BY DEF RowsOf, IsOutside
<1>2. ASSUME NEW c \in RowsOf(h, rows)
      PROVE  {d \in RowsOf(h, other) : other[d].hashA = other[c].hashA}
               = {d \in RowsOf(h, rows) : rows[d].hashA = rows[c].hashA}
  BY <1>1
<1>3. Corroborated(h, other) = Corroborated(h, rows)
  BY <1>1, <1>2 DEF Corroborated
<1> QED BY <1>1, <1>3 DEF Agrees

\* Marking members changes neither who they are nor who is corroborated.
LEMMA MarksDoNotCount ==
  ASSUME NEW h, NEW rows, NEW other, \A c \in Char : other[c] = rows[c] \/ SameMember(other[c], rows[c])
  PROVE  RowsOf(h, other) = RowsOf(h, rows) /\ Corroborated(h, other) = Corroborated(h, rows)
<1>1. RowsOf(h, other) = RowsOf(h, rows)
  BY DEF RowsOf, SameMember
<1>2. \A c \in RowsOf(h, rows) : other[c].hashA = rows[c].hashA
  BY DEF RowsOf, SameMember
<1>3. ASSUME NEW c \in RowsOf(h, rows)
      PROVE  {d \in RowsOf(h, other) : other[d].hashA = other[c].hashA}
               = {d \in RowsOf(h, rows) : rows[d].hashA = rows[c].hashA}
  BY <1>1, <1>2
<1> QED BY <1>1, <1>2, <1>3 DEF Corroborated

LEMMA OverlayIs ==
  ASSUME NEW t \in Transaction, NEW rows \in Tables, NEW stats \in [HashB -> BlockRow \cup {NoRow}]
  PROVE  /\ Overlay(t.members, rows) \in Tables
         /\ \A c \in Char :
              Overlay(t.members, rows)[c] = IF t.members[c] = Unwritten THEN rows[c] ELSE t.members[c]
         /\ Overlay(t.blocks, stats) \in [HashB -> BlockRow \cup {NoRow}]
         /\ \A h \in HashB :
              Overlay(t.blocks, stats)[h] = IF t.blocks[h] = Unwritten THEN stats[h] ELSE t.blocks[h]
BY DEF Overlay, Transaction, Tables

LEMMA NothingOverlaid ==
  ASSUME NEW rows \in Tables, NEW stats \in [HashB -> BlockRow \cup {NoRow}]
  PROVE  Overlay(NoTx.members, rows) = rows /\ Overlay(NoTx.blocks, stats) = stats
BY DEF Overlay, NoTx, Tables

\* More disturbances excuse more.
LEMMA DisturbedMore ==
  ASSUME NEW t, NEW rows, NEW stats, NEW step, NEW D, NEW E, NEW S, D \subseteq E,
         Accounts(t, rows, stats, step, D, S)
  PROVE  Accounts(t, rows, stats, step, E, S)
<1>1. Unsure(t, D, S) \subseteq Unsure(t, E, S)
  BY DEF Unsure
<1> QED BY <1>1 DEF Accounts, AllAgree

\* A transaction that wrote nothing sees what everyone sees.
LEMMA NothingAccounts ==
  ASSUME NEW rows \in Tables, NEW stats \in [HashB -> BlockRow \cup {NoRow}], NEW S, NEW D,
         NEW step, step # "recompute", AllAgree(rows, stats, S)
  PROVE  Accounts(NoTx, rows, stats, step, D, S)
<1>1. \A h \in HashB : h \in S => h \in Unsure(NoTx, D, S)
  BY DEF Unsure, NoTx
<1>2. AllAgree(rows, stats, Unsure(NoTx, D, S))
  BY <1>1 DEF AllAgree
<1> QED BY <1>2, NothingOverlaid DEF Accounts, AllAgree

\* The transaction wrote rows of its block only, and read that block's members.
LEMMA RecomputingAccounts ==
  ASSUME NEW t \in Transaction, NEW u \in Transaction, NEW h \in HashB, NEW next \in {"place", "commit"},
         members \in Tables, blocks \in [HashB -> BlockRow \cup {NoRow}],
         NEW D, NEW S,
         AllAgree(Overlay(t.members, members), Overlay(t.blocks, blocks), Unsure(t, D, S)),
         WroteIn(h, t, u)
  PROVE  Accounts(Recomputing(u, h, next), members, blocks, "recompute", D, S)
<1> DEFINE z == Recomputing(u, h, next)
           old == Overlay(t.members, members)
           seen == Overlay(u.members, members)
<1>1. /\ z \in Transaction /\ z.members = u.members /\ z.blocks = u.blocks /\ z.target = h
      /\ z.rows = RowsOf(h, seen) /\ z.confirmed = Corroborated(h, seen)
  <2>1. /\ z \in Transaction /\ z.members = u.members /\ z.blocks = u.blocks /\ z.target = h
    BY RecomputingType DEF Tables
  <2>2. z.rows = RowsOf(h, seen) /\ z.confirmed = Corroborated(h, seen)
    BY DEF Recomputing, MembersSeen, Transaction
  <2> QED BY <2>1, <2>2
<1> HIDE DEF z
<1>2. /\ \A c \in Char : old[c] = IF t.members[c] = Unwritten THEN members[c] ELSE t.members[c]
      /\ \A c \in Char : seen[c] = IF u.members[c] = Unwritten THEN members[c] ELSE u.members[c]
  BY OverlayIs
<1>3. MembersSeen(t) = old /\ MembersSeen(u) = seen
  BY DEF MembersSeen
<1> HIDE DEF old, seen
<1>4. ASSUME NEW g \in HashB, g # h, NEW c \in Char
      PROVE  seen[c] = old[c] \/ (IsOutside(g, old[c]) /\ IsOutside(g, seen[c]))
  <2>1. CASE u.members[c] = t.members[c]
    BY <1>2, <2>1
  <2>2. CASE u.members[c] # t.members[c]
    <3>1. \A r \in {old[c], seen[c]} : r = NoRow \/ r.block = h
      BY <1>3, <2>2 DEF WroteIn
    <3> QED BY <1>4, <3>1 DEF IsOutside
  <2> QED BY <2>1, <2>2
<1>5. ASSUME NEW g \in HashB \ {h}, g \notin Unsure(t, D, S), Overlay(t.blocks, blocks)[g] # NoRow
      PROVE  Agrees(g, seen, Overlay(t.blocks, blocks)[g])
  <2>1. Agrees(g, old, Overlay(t.blocks, blocks)[g])
    BY <1>5 DEF AllAgree, old
  <2> QED BY <1>4, <2>1, OthersAgree
<1>6. AllAgree(seen, Overlay(t.blocks, blocks), Unsure(t, D, S) \cup {h})
  BY <1>5 DEF AllAgree
<1>7. z.blocks = t.blocks /\ Unsure(z, D, S) = Unsure(t, D, S)
  BY <1>1 DEF WroteIn, Unsure
<1> QED BY <1>1, <1>6, <1>7 DEF Accounts, HasBlock, WroteIn, seen, z

\* What a recomputation wrote: the marks of its block's members, and the counters.
LEMMA RecomputedIs ==
  ASSUME NEW t \in Transaction, t.target \in HashB, members \in Tables
  PROVE  LET seen == Overlay(t.members, members)
             done == Recomputed(t)
         IN /\ done \in Transaction
            /\ \A c \in Char :
                 done.members[c] = IF c \in t.rows \cap RowsOf(t.target, seen)
                                     THEN [seen[c] EXCEPT !.isConfirmed = c \in t.confirmed] ELSE t.members[c]
            /\ \A g \in HashB :
                 done.blocks[g] = IF g = t.target THEN Stats(Cardinality(t.rows), Cardinality(t.confirmed))
                                                  ELSE t.blocks[g]
<1> DEFINE h == t.target
           seen == Overlay(t.members, members)
           done == Recomputed(t)
<1>1. done \in Transaction
  BY RecomputedType DEF Tables
<1>2. done.members = [c \in Char |-> IF c \in t.rows \cap RowsOf(h, seen)
                             THEN [seen[c] EXCEPT !.isConfirmed = c \in t.confirmed] ELSE t.members[c]]
  BY DEF Recomputed, MembersSeen, Transaction
<1>3. done.blocks = [t.blocks EXCEPT ![h] = Stats(Cardinality(t.rows), Cardinality(t.confirmed))]
  BY DEF Recomputed, MembersSeen, Transaction
<1> HIDE DEF done, seen
<1>4. /\ done \in Transaction
      /\ \A c \in Char :
           done.members[c] = IF c \in t.rows \cap RowsOf(h, seen)
                               THEN [seen[c] EXCEPT !.isConfirmed = c \in t.confirmed] ELSE t.members[c]
      /\ \A g \in HashB :
           done.blocks[g] = IF g = h THEN Stats(Cardinality(t.rows), Cardinality(t.confirmed)) ELSE t.blocks[g]
  BY <1>1, <1>2, <1>3 DEF Transaction
<1> QED BY <1>4 DEF done, seen

\* The result is written back: now all that the transaction sees agrees.
LEMMA RecomputedAccounts ==
  ASSUME NEW t \in Transaction, t.target \in HashB,
         members \in Tables, blocks \in [HashB -> BlockRow \cup {NoRow}],
         NEW D, NEW S, Accounts(t, members, blocks, "recompute", D, S)
  PROVE  AllAgree(Overlay(Recomputed(t).members, members), Overlay(Recomputed(t).blocks, blocks),
                  Unsure(Recomputed(t), D, S))
<1> DEFINE h == t.target
           seen == Overlay(t.members, members)
           done == Recomputed(t)
           now == Overlay(done.members, members)
           stats == Overlay(t.blocks, blocks)
           after == Overlay(done.blocks, blocks)
<1>1. /\ done \in Transaction
      /\ \A c \in Char :
           done.members[c] = IF c \in t.rows \cap RowsOf(h, seen)
                               THEN [seen[c] EXCEPT !.isConfirmed = c \in t.confirmed] ELSE t.members[c]
      /\ \A g \in HashB :
           done.blocks[g] = IF g = h THEN Stats(Cardinality(t.rows), Cardinality(t.confirmed)) ELSE t.blocks[g]
  BY RecomputedIs
<1> HIDE DEF done
<1>2. /\ \A c \in Char : seen[c] = IF t.members[c] = Unwritten THEN members[c] ELSE t.members[c]
      /\ \A c \in Char : now[c] = IF done.members[c] = Unwritten THEN members[c] ELSE done.members[c]
      /\ seen \in Tables
      /\ \A g \in HashB : stats[g] = IF t.blocks[g] = Unwritten THEN blocks[g] ELSE t.blocks[g]
      /\ \A g \in HashB : after[g] = IF done.blocks[g] = Unwritten THEN blocks[g] ELSE done.blocks[g]
  BY <1>1, OverlayIs
<1>3. /\ AllAgree(seen, stats, Unsure(t, D, S) \cup {h})
      /\ h \notin D => t.rows = RowsOf(h, seen) /\ t.confirmed = Corroborated(h, seen)
  BY DEF Accounts
<1> HIDE DEF seen, now, stats, after
<1>4. ASSUME NEW c \in t.rows \cap RowsOf(h, seen)
      PROVE  /\ now[c] = [seen[c] EXCEPT !.isConfirmed = c \in t.confirmed]
             /\ now[c].isConfirmed = (c \in t.confirmed) /\ now[c].block = h
             /\ SameMember(now[c], seen[c])
  <2>1. c \in Char /\ seen[c] \in MemberRow /\ seen[c].block = h
    BY <1>2 DEF RowsOf, Tables
  <2>2. done.members[c] = [seen[c] EXCEPT !.isConfirmed = c \in t.confirmed]
    BY <1>1, <2>1
  <2> DEFINE mark == c \in t.confirmed
             row == [seen[c] EXCEPT !.isConfirmed = mark]
  <2>3. mark \in BOOLEAN
    OBVIOUS
  <2>4. done.members[c] = row
    BY <2>2
  <2> HIDE DEF mark
  <2>5. row \in MemberRow /\ row.block = seen[c].block /\ row.hashA = seen[c].hashA /\ row.hashB = seen[c].hashB
    BY <2>1, <2>3, ConfirmedRow
  <2>6. row.isConfirmed = mark
    BY <2>1 DEF MemberRow
  <2> HIDE DEF row
  <2>7. row # Unwritten /\ row # NoRow /\ seen[c] # NoRow
    BY <2>1, <2>5, ConstantsAssumption
  <2>8. now[c] = row
    BY <1>2, <2>1, <2>4, <2>7
  <2>9. SameMember(row, seen[c])
    BY <2>5, <2>7 DEF SameMember
  <2>10. row.isConfirmed = (c \in t.confirmed) /\ row = [seen[c] EXCEPT !.isConfirmed = c \in t.confirmed]
    BY <2>6 DEF row, mark
  <2> QED BY <2>1, <2>5, <2>8, <2>9, <2>10
<1>5. ASSUME NEW c \in Char, c \notin t.rows \cap RowsOf(h, seen)
      PROVE  now[c] = seen[c]
  BY <1>1, <1>2, <1>5
<1>6. \A c \in Char : now[c] = seen[c] \/ SameMember(now[c], seen[c])
  BY <1>4, <1>5
<1>7. /\ RowsOf(h, now) = RowsOf(h, seen) /\ Corroborated(h, now) = Corroborated(h, seen)
      /\ h \notin D => RowsOf(h, now) = t.rows /\ Corroborated(h, now) = t.confirmed
  BY <1>3, <1>6, MarksDoNotCount
<1>8. ASSUME h \notin D
      PROVE  Agrees(h, now, after[h])
  <2>1. after[h] = Stats(Cardinality(t.rows), Cardinality(t.confirmed))
    <3>1. done.blocks[h] = Stats(Cardinality(t.rows), Cardinality(t.confirmed))
      BY <1>1
    <3>2. Stats(Cardinality(t.rows), Cardinality(t.confirmed)) \in BlockRow
      BY StatsType DEF Transaction
    <3> QED BY <1>2, <3>1, <3>2, ConstantsAssumption
  <2>2. \A c \in RowsOf(h, now) : now[c].isConfirmed <=> c \in Corroborated(h, now)
    BY <1>3, <1>4, <1>7, <1>8
  <2> QED BY <1>7, <1>8, <2>1, <2>2 DEF Agrees
<1>9. ASSUME NEW g \in HashB, g # h, g \notin Unsure(t, D, S), after[g] # NoRow
      PROVE  Agrees(g, now, after[g])
  <2>1. after[g] = stats[g]
    BY <1>1, <1>2, <1>9
  <2>2. Agrees(g, seen, stats[g])
    BY <1>3, <1>9, <2>1 DEF AllAgree
  <2>3. ASSUME NEW c \in Char
        PROVE  now[c] = seen[c] \/ (IsOutside(g, seen[c]) /\ IsOutside(g, now[c]))
    <3>1. CASE c \in t.rows \cap RowsOf(h, seen)
      BY <1>4, <1>9, <3>1 DEF IsOutside, SameMember
    <3> QED BY <1>5, <3>1
  <2> QED BY <2>1, <2>2, <2>3, OthersAgree
<1>10. \A g \in HashB \ {h} : g \in Unsure(t, D, S) => g \in Unsure(done, D, S)
  BY <1>1 DEF Unsure
<1>11. h \in D => h \in Unsure(done, D, S)
  BY DEF Unsure
<1>12. AllAgree(now, after, Unsure(done, D, S))
  BY <1>8, <1>9, <1>10, <1>11 DEF AllAgree
<1> QED BY <1>12 DEF now, after, done

LEMMA CountersTypes ==
  ASSUME TypedSteps
  PROVE  /\ members \in Tables /\ blocks \in [HashB -> BlockRow \cup {NoRow}]
         /\ \A w \in Worker : tx[w] \in Transaction
BY DEF TypedSteps, TypeOK, Tables

\* Who wrote nothing concerns no block.
LEMMA NothingConcerned ==
  ASSUME NEW w \in Worker
  PROVE  /\ tx[w] = NoTx => Concerned(w) = {}
         /\ tx'[w] = NoTx => Concerned(w)' = {}
<1>1. /\ \A h \in HashB : NoTx.blocks[h] = Unwritten /\ NoTx.target # h
      /\ \A c \in Char : NoTx.members[c] = Unwritten
  BY ConstantsAssumption DEF NoTx
<1>2. tx[w] = NoTx => Concerned(w) = {}
  BY <1>1 DEF Concerned, HeldMembers
<1>3. tx'[w] = NoTx => Concerned(w)' = {}
  BY <1>1 DEF Concerned, HeldMembers
<1> QED BY <1>2, <1>3

LEMMA CountersInit == ObservedInit => Counters /\ OverlapsKnown
<1> SUFFICES ASSUME ObservedInit PROVE Counters /\ OverlapsKnown
  OBVIOUS
<1>1. members \in Tables /\ blocks \in [HashB -> BlockRow \cup {NoRow}] /\ \A h \in HashB : blocks[h] = NoRow
  BY DEF ObservedInit, Init, Tables
<1>2. AllAgree(members, blocks, suspect)
  BY <1>1 DEF AllAgree
<1>3. \A w \in Worker : tx[w] = NoTx /\ pc[w] = "idle" /\ disturbed[w] = {}
  BY DEF ObservedInit, Init
<1>4. \A w \in Worker : Accounts(NoTx, members, blocks, "idle", {}, suspect)
  BY <1>1, <1>2, NothingAccounts
<1>5. \A w \in Worker : Concerned(w) = {}
  BY <1>3, NothingConcerned
<1> QED BY <1>2, <1>3, <1>4, <1>5 DEF Counters, OverlapsKnown

\* A worker's transaction goes on, and no table changes.
LEMMA StepAccounts ==
  ASSUME TypedSteps, Counters, NoCommit, UNCHANGED <<members, blocks>>, NEW w \in Worker, NEW t, NEW step,
         tx' = [tx EXCEPT ![w] = t], pc' = [pc EXCEPT ![w] = step],
         Accounts(t, members, blocks, step, disturbed'[w], suspect)
  PROVE  Counters'
<1>1. \A v \in Worker : /\ tx'[v] = IF v = w THEN t ELSE tx[v]
                        /\ pc'[v] = IF v = w THEN step ELSE pc[v]
  BY DEF TypedSteps, TypeOK
<1>2. ASSUME NEW v \in Worker
      PROVE  Accounts(tx'[v], members', blocks', pc'[v], disturbed'[v], suspect')
  <2>1. CASE v = w
    BY <1>1, <2>1 DEF NoCommit
  <2>2. CASE v # w
    <3>1. tx'[v] = tx[v] /\ pc'[v] = pc[v] /\ disturbed[v] \subseteq disturbed'[v] /\ suspect' = suspect
      BY <1>1, <2>2 DEF NoCommit
    <3>2. Accounts(tx[v], members, blocks, pc[v], disturbed[v], suspect)
      BY DEF Counters
    <3>3. Accounts(tx[v], members, blocks, pc[v], disturbed'[v], suspect)
      BY <3>1, <3>2, DisturbedMore
    <3> QED BY <3>1, <3>3
  <2> QED BY <2>1, <2>2
<1>3. AllAgree(members', blocks', suspect')
  BY DEF Counters, NoCommit
<1> QED BY <1>2, <1>3 DEF Counters

\* The same, for a transaction that wrote something.
LEMMA OpenAccounts ==
  ASSUME TypedSteps, Counters, NoCommit, UNCHANGED <<members, blocks>>, NEW w \in Worker, NEW t, NEW step,
         tx' = [tx EXCEPT ![w] = t], pc' = [pc EXCEPT ![w] = step], t # NoTx \/ t = tx[w],
         Accounts(t, members, blocks, step, disturbed[w], suspect)
  PROVE  Counters'
<1>1. tx'[w] = t
  BY DEF TypedSteps, TypeOK
<1>2. disturbed[w] \subseteq disturbed'[w]
  BY <1>1 DEF NoCommit
<1>3. Accounts(t, members, blocks, step, disturbed'[w], suspect)
  BY <1>2, DisturbedMore
<1> QED BY <1>3, StepAccounts

\* What the worker wrote is discarded, or it wrote nothing.
LEMMA DiscardAccounts ==
  ASSUME TypedSteps, Counters, NoCommit, UNCHANGED <<members, blocks>>, NEW w \in Worker, NEW step, step # "recompute",
         tx' = [tx EXCEPT ![w] = NoTx], pc' = [pc EXCEPT ![w] = step]
  PROVE  Counters'
<1>1. AllAgree(members, blocks, suspect)
  BY DEF Counters
<1>2. Accounts(NoTx, members, blocks, step, disturbed'[w], suspect)
  BY <1>1, NothingAccounts, CountersTypes
<1> QED BY <1>2, StepAccounts

LEMMA ReleaseAccounts ==
  ASSUME TypedSteps, Counters, NoCommit, NEW w \in Worker, NEW state, Release(w, state), UNCHANGED tables
  PROVE  Counters'
<1>1. tx' = [tx EXCEPT ![w] = NoTx] /\ pc' = [pc EXCEPT ![w] = "idle"] /\ UNCHANGED <<members, blocks>>
  BY DEF Release, Goto, tables
<1> QED BY <1>1, DiscardAccounts

\* The steps before the transaction.
LEMMA ReadAccounts ==
  ASSUME TypedSteps, Counters, NoCommit, NEW w \in Worker,
         \/ \E c \in Char : Take(w, c)
         \/ ReadCharacter(w) \/ LoadMember(w) \/ LoadBlock(w)
  PROVE  Counters'
<1>1. StepInOrder(w)
  BY DEF TypedSteps, StepsInOrder
<1>2. /\ UNCHANGED <<members, blocks, tx>>
      /\ tx[w] = NoTx
      /\ \E step : step # "recompute" /\ pc' = [pc EXCEPT ![w] = step]
  BY <1>1 DEF Take, ReadCharacter, LoadMember, LoadBlock, StepInOrder, tables, Goto
<1>3. tx' = [tx EXCEPT ![w] = NoTx]
  BY <1>2 DEF TypedSteps, TypeOK
<1> QED BY <1>2, <1>3, DiscardAccounts

LEMMA PlaceAccounts ==
  ASSUME TypedSteps, Counters, NoCommit, NEW w \in Worker, Place(w)
  PROVE  Counters'
<1>1. PICK step \in {"join", "genesis"} : pc' = [pc EXCEPT ![w] = step]
  BY DEF Place, Goto
<1>2. UNCHANGED <<members, blocks, tx>> /\ pc[w] = "place"
  BY DEF Place, tables
<1>3. tx' = [tx EXCEPT ![w] = tx[w]]
  BY <1>2 DEF TypedSteps, TypeOK
<1>4. Accounts(tx[w], members, blocks, "place", disturbed[w], suspect)
  BY <1>2 DEF Counters
<1>5. Accounts(tx[w], members, blocks, step, disturbed[w], suspect)
  BY <1>4 DEF Accounts
<1> QED BY <1>1, <1>2, <1>3, <1>5, OpenAccounts

\* What a transaction sees of a row.
LEMMA SeenIs ==
  ASSUME members \in Tables, NEW t \in Transaction, NEW c \in Char
  PROVE  MembersSeen(t)[c] = IF t.members[c] = Unwritten THEN members[c] ELSE t.members[c]
BY DEF MembersSeen, Overlay, Tables

\* The transaction wrote rows of one block, which it recomputes next.
LEMMA WriteAccounts ==
  ASSUME NEW w \in Worker, NEW u \in Transaction, NEW h \in HashB, NEW next \in {"place", "commit"},
         TypedSteps, Counters, NoCommit, pc[w] # "recompute",
         UNCHANGED <<members, blocks>>, tx' = [tx EXCEPT ![w] = Recomputing(u, h, next)],
         pc' = [pc EXCEPT ![w] = "recompute"],
         WroteIn(h, tx[w], u)
  PROVE  Counters'
<1>1. tx[w] \in Transaction /\ members \in Tables /\ blocks \in [HashB -> BlockRow \cup {NoRow}]
  BY CountersTypes
<1>2. AllAgree(Overlay(tx[w].members, members), Overlay(tx[w].blocks, blocks),
               Unsure(tx[w], disturbed[w], suspect))
  <2>1. Accounts(tx[w], members, blocks, pc[w], disturbed[w], suspect)
    BY DEF Counters
  <2> QED BY <2>1 DEF Accounts, AllAgree
<1>3. Accounts(Recomputing(u, h, next), members, blocks, "recompute", disturbed[w], suspect)
  BY <1>1, <1>2, RecomputingAccounts
<1>4. Recomputing(u, h, next) # NoTx
  <2>1. Recomputing(u, h, next).target = h
    BY <1>1, RecomputingType DEF Tables
  <2> QED BY <2>1, ConstantsAssumption DEF NoTx
<1> QED BY <1>3, <1>4, OpenAccounts

LEMMA UpdateMemberAccounts ==
  ASSUME TypedSteps, Grounded, Counters, NoCommit, NEW w \in Worker, UpdateMember(w)
  PROVE  Counters'
<1> DEFINE block == membership[w].block
           row == IF members[task[w]] = NoRow THEN Unwritten
                  ELSE [members[task[w]] EXCEPT !.hashA = character[w].hashA,
                                                !.hashB = character[w].hashB]
           u == Written(w, row, block, HashChanges(w))
<1>1. /\ tx[w] \in Transaction /\ task[w] \in Char /\ character[w] \in CharacterRow
      /\ members \in Tables /\ membership[w] \in MemberRow
      /\ tx[w] = NoTx
  BY DEF TypedSteps, TypeOK, JobsAreOwned, StepsInOrder, StepInOrder, UpdateMember, Tables
<1>2. block \in HashB
  BY <1>1 DEF MemberRow
<1>3. SameMember(members[task[w]], membership[w])
  BY <1>1, ConstantsAssumption DEF Grounded, ReadMembershipHolds
<1>4. members[task[w]] \in MemberRow /\ members[task[w]].block = block
  BY <1>1, <1>3 DEF SameMember, Tables
<1>5. row \in MemberRow /\ row.block = block
  BY <1>1, <1>4, ConstantsAssumption DEF MemberRow, CharacterRow
<1>6. /\ UNCHANGED <<members, blocks>> /\ pc[w] = "update" /\ pc' = [pc EXCEPT ![w] = "recompute"]
      /\ tx' = [tx EXCEPT ![w] = Recomputing(u, block, "commit")]
  BY DEF UpdateMember, Proceed, Goto, tables
<1> HIDE DEF row, block
<1>7. HashChanges(w) \in SUBSET {"JOIN", "MIGRATE", "HASH_A_CHANGE", "HASH_B_CHANGE"}
  BY DEF HashChanges
<1>8. /\ u \in Transaction /\ u.members = [tx[w].members EXCEPT ![task[w]] = row] /\ u.blocks = tx[w].blocks
  BY <1>1, <1>2, <1>5, <1>7, WrittenType
<1> HIDE DEF u
<1>9. HasBlock(tx[w], block)
  BY <1>1, <1>4, ConstantsAssumption DEF Grounded, MembersHaveBlocks, HasBlock
<1>10. ASSUME NEW c \in Char
       PROVE  \/ u.members[c] = tx[w].members[c]
              \/ \A r \in {MembersSeen(tx[w])[c], MembersSeen(u)[c]} : r = NoRow \/ r.block = block
  <2>1. CASE c # task[w]
    BY <1>1, <1>8, <2>1 DEF Transaction
  <2>2. CASE c = task[w]
    <3>1. u.members[c] = row
      BY <1>1, <1>8, <2>2 DEF Transaction
    <3>2. MembersSeen(u)[c] = row \/ MembersSeen(u)[c] = members[c]
      BY <1>1, <1>8, <3>1, SeenIs
    <3>3. MembersSeen(tx[w])[c] = members[c]
      BY <1>1, NothingOverlaid, CountersTypes DEF MembersSeen
    <3> QED BY <1>4, <1>5, <2>2, <3>2, <3>3
  <2> QED BY <2>1, <2>2
<1>11. pc[w] # "recompute" /\ "commit" \in {"place", "commit"} /\ "place" \in {"place", "commit"}
  BY <1>6
<1>12. WroteIn(block, tx[w], u)
  BY <1>8, <1>9, <1>10 DEF WroteIn
<1> QED BY <1>2, <1>6, <1>8, <1>11, <1>12, WriteAccounts

LEMMA LeaveAccounts ==
  ASSUME TypedSteps, Grounded, Counters, NoCommit, NEW w \in Worker, Leave(w)
  PROVE  Counters'
<1> DEFINE block == membership[w].block
           u == Written(w, NoRow, block, {"MIGRATE"})
<1>1. /\ tx[w] \in Transaction /\ task[w] \in Char
      /\ members \in Tables /\ membership[w] \in MemberRow
      /\ tx[w] = NoTx
  BY DEF TypedSteps, TypeOK, JobsAreOwned, StepsInOrder, StepInOrder, Leave, Tables
<1>2. block \in HashB
  BY <1>1 DEF MemberRow
<1>3. SameMember(members[task[w]], membership[w])
  BY <1>1, ConstantsAssumption DEF Grounded, ReadMembershipHolds
<1>4. members[task[w]] \in MemberRow /\ members[task[w]].block = block
  BY <1>1, <1>3 DEF SameMember, Tables
<1>6. /\ UNCHANGED <<members, blocks>> /\ pc[w] = "leave" /\ pc' = [pc EXCEPT ![w] = "recompute"]
      /\ tx' = [tx EXCEPT ![w] = Recomputing(u, block, "place")]
  BY DEF Leave, Proceed, Goto, tables
<1> HIDE DEF block
<1>8. /\ u \in Transaction /\ u.members = [tx[w].members EXCEPT ![task[w]] = NoRow] /\ u.blocks = tx[w].blocks
  <2>1. {"MIGRATE"} \in SUBSET {"JOIN", "MIGRATE", "HASH_A_CHANGE", "HASH_B_CHANGE"}
    OBVIOUS
  <2> DEFINE row == NoRow
             entries == {[action |-> a, block |-> block, chars |-> {task[w]}] : a \in {"MIGRATE"}}
             t == Written(w, row, block, {"MIGRATE"})
  <2>2. row \in MemberRow \cup {NoRow, Unwritten}
    OBVIOUS
  <2>3. tx[w] \in Transaction /\ task[w] \in Char
    BY <1>1
  <2> HIDE DEF row
  <2>4. /\ t \in Transaction /\ t.members = [tx[w].members EXCEPT ![task[w]] = row]
        /\ t.blocks = tx[w].blocks /\ t.logs = tx[w].logs \cup entries
    BY ONLY <1>2, <2>1, <2>2, <2>3, WrittenType, w \in Worker DEF entries, t
  <2> QED BY <2>4 DEF u, row
<1> HIDE DEF u
<1>9. HasBlock(tx[w], block)
  BY <1>1, <1>4, ConstantsAssumption DEF Grounded, MembersHaveBlocks, HasBlock
<1>10. ASSUME NEW c \in Char
       PROVE  \/ u.members[c] = tx[w].members[c]
              \/ \A r \in {MembersSeen(tx[w])[c], MembersSeen(u)[c]} : r = NoRow \/ r.block = block
  <2>1. CASE c # task[w]
    BY <1>1, <1>8, <2>1 DEF Transaction
  <2>2. CASE c = task[w]
    <3>1. u.members[c] = NoRow
      BY <1>1, <1>8, <2>2 DEF Transaction
    <3>2. MembersSeen(u)[c] = NoRow
      BY <1>1, <1>8, <3>1, SeenIs, ConstantsAssumption
    <3>3. MembersSeen(tx[w])[c] = members[c]
      BY <1>1, NothingOverlaid, CountersTypes DEF MembersSeen
    <3> QED BY <1>4, <2>2, <3>2, <3>3
  <2> QED BY <2>1, <2>2
<1>11. pc[w] # "recompute" /\ "commit" \in {"place", "commit"} /\ "place" \in {"place", "commit"}
  BY <1>6
<1>12. WroteIn(block, tx[w], u)
  BY <1>8, <1>9, <1>10 DEF WroteIn
<1> QED BY <1>2, <1>6, <1>8, <1>11, <1>12, WriteAccounts

LEMMA JoinAccounts ==
  ASSUME TypedSteps, Counters, NoCommit, NEW w \in Worker, Join(w)
  PROVE  Counters'
<1> DEFINE block == character[w].hashB
           row == MemberOf(block, character[w])
           u == Written(w, row, block, {"JOIN"})
<1>1. /\ tx[w] \in Transaction /\ task[w] \in Char /\ character[w] \in CharacterRow /\ members \in Tables
      /\ block \in HashB /\ HasBlock(tx[w], block)
  BY DEF TypedSteps, TypeOK, JobsAreOwned, QueuedHaveHash, StepsInOrder, StepInOrder, Join, Tables
<1>2. row \in MemberRow /\ row.block = block
  BY <1>1 DEF MemberOf, MemberRow, CharacterRow
<1>3. /\ UNCHANGED <<members, blocks>> /\ pc[w] = "join" /\ pc' = [pc EXCEPT ![w] = "recompute"]
      /\ tx' = [tx EXCEPT ![w] = Recomputing(u, block, "commit")]
      /\ MembersSeen(tx[w])[task[w]] = NoRow
  BY DEF Join, Proceed, Goto, tables
<1> HIDE DEF row, block
<1>4. /\ u \in Transaction /\ u.members = [tx[w].members EXCEPT ![task[w]] = row] /\ u.blocks = tx[w].blocks
  <2>1. {"JOIN"} \in SUBSET {"JOIN", "MIGRATE", "HASH_A_CHANGE", "HASH_B_CHANGE"}
    OBVIOUS
  <2> QED BY <1>1, <1>2, <2>1, WrittenType
<1> HIDE DEF u
<1>5. ASSUME NEW c \in Char
      PROVE  \/ u.members[c] = tx[w].members[c]
             \/ \A r \in {MembersSeen(tx[w])[c], MembersSeen(u)[c]} : r = NoRow \/ r.block = block
  <2>1. CASE c # task[w]
    BY <1>1, <1>4, <2>1 DEF Transaction
  <2>2. CASE c = task[w]
    <3>1. u.members[c] = row
      BY <1>1, <1>4, <2>2 DEF Transaction
    <3>2. MembersSeen(u)[c] = row
      BY <1>1, <1>2, <1>4, <3>1, SeenIs, ConstantsAssumption
    <3> QED BY <1>2, <1>3, <2>2, <3>2
  <2> QED BY <2>1, <2>2
<1>11. pc[w] # "recompute" /\ "commit" \in {"place", "commit"}
  BY <1>3
<1>12. WroteIn(block, tx[w], u)
  BY <1>1, <1>4, <1>5 DEF WroteIn
<1> QED BY <1>1, <1>3, <1>4, <1>11, <1>12, WriteAccounts

\* A block that is not there yet has no members, and the counters of none.
LEMMA GenesisAccounts ==
  ASSUME TypedSteps, Grounded, Counters, NoCommit, NEW w \in Worker, Genesis(w)
  PROVE  Counters'
<1> DEFINE h == character[w].hashB
           t == tx[w]
           u == [t EXCEPT !.blocks = [t.blocks EXCEPT ![h] = Stats(0, 0)]]
           seen == Overlay(t.members, members)
<1>1. /\ t \in Transaction /\ h \in HashB /\ members \in Tables
      /\ blocks \in [HashB -> BlockRow \cup {NoRow}]
  BY CountersTypes DEF TypedSteps, QueuedHaveHash, Genesis
<1>2. /\ UNCHANGED <<members, blocks>> /\ pc[w] = "genesis" /\ pc' = [pc EXCEPT ![w] = "candidates"]
      /\ tx' = [tx EXCEPT ![w] = u] /\ BlocksSeen(t)[h] = NoRow
  BY <1>1 DEF Genesis, Proceed, Goto, tables, Transaction
<1>3. Stats(0, 0) \in BlockRow
  BY ConstantsAssumption DEF Stats, BlockRow
<1>4. /\ u \in Transaction /\ u.members = t.members
      /\ \A g \in HashB : u.blocks[g] = IF g = h THEN Stats(0, 0) ELSE t.blocks[g]
  BY <1>1, <1>3 DEF Transaction
<1> HIDE DEF u
<1>5. t.blocks[h] = Unwritten /\ blocks[h] = NoRow
  <2>1. BlocksSeen(t)[h] = IF t.blocks[h] = Unwritten THEN blocks[h] ELSE t.blocks[h]
    BY <1>1 DEF BlocksSeen, Overlay
  <2>2. t.blocks[h] # NoRow
    BY <1>1, ConstantsAssumption DEF Transaction
  <2> QED BY <1>2, <2>1, <2>2
<1>6. ~HasBlock(t, h)
  BY <1>5 DEF HasBlock
<1>7. \A c \in Char : seen[c] = IF t.members[c] = Unwritten THEN members[c] ELSE t.members[c]
  BY <1>1, OverlayIs
<1>8. RowsOf(h, seen) = {}
  <2> SUFFICES ASSUME NEW c \in Char, seen[c] # NoRow, seen[c].block = h PROVE FALSE
    BY DEF RowsOf
  <2>1. CASE t.members[c] = Unwritten
    BY <1>5, <1>7, <2>1 DEF Grounded, MembersHaveBlocks
  <2>2. CASE t.members[c] # Unwritten
    BY <1>6, <1>7, <2>2 DEF Grounded, TransactionsCommittable, Committable
  <2> QED BY <2>1, <2>2
<1>9. Agrees(h, seen, Stats(0, 0))
  <2>1. Corroborated(h, seen) = {}
    BY <1>8 DEF Corroborated
  <2>2. Cardinality({}) = 0
    BY FS_EmptySet
  <2> HIDE DEF seen
  <2> QED BY <1>8, <2>1, <2>2 DEF Agrees
<1>10. Overlay(u.members, members) = seen
  BY <1>4
<1>11. ASSUME NEW g \in HashB, g \notin Unsure(u, disturbed[w], suspect), Overlay(u.blocks, blocks)[g] # NoRow
       PROVE  Agrees(g, seen, Overlay(u.blocks, blocks)[g])
  <2>1. Overlay(u.blocks, blocks)[g] = IF u.blocks[g] = Unwritten THEN blocks[g] ELSE u.blocks[g]
    BY <1>1, <1>4, OverlayIs
  <2>2. CASE g = h
    <3>1. u.blocks[g] = Stats(0, 0) /\ Stats(0, 0) # Unwritten
      BY <1>3, <1>4, <2>2, ConstantsAssumption
    <3> QED BY <1>9, <2>1, <2>2, <3>1
  <2>3. CASE g # h
    <3>1. Overlay(u.blocks, blocks)[g] = Overlay(t.blocks, blocks)[g]
      BY <1>1, <1>4, <2>1, <2>3, OverlayIs
    <3>2. AllAgree(seen, Overlay(t.blocks, blocks), Unsure(t, disturbed[w], suspect))
      <4>1. Accounts(t, members, blocks, pc[w], disturbed[w], suspect)
        BY DEF Counters
      <4> QED BY <1>2, <4>1 DEF Accounts, AllAgree
    <3>3. g \notin Unsure(t, disturbed[w], suspect)
      BY <1>4, <1>11, <2>3 DEF Unsure
    <3> QED BY <1>11, <3>1, <3>2, <3>3 DEF AllAgree
  <2> QED BY <2>2, <2>3
<1>12. Accounts(u, members, blocks, "candidates", disturbed[w], suspect)
  BY <1>10, <1>11 DEF Accounts, AllAgree
<1>13. u # NoTx
  <2>1. u.blocks[h] # Unwritten /\ NoTx.blocks[h] = Unwritten
    BY <1>1, <1>3, <1>4, ConstantsAssumption DEF NoTx
  <2> QED BY <2>1
<1> QED BY <1>2, <1>12, <1>13, OpenAccounts

LEMMA GenesisMembersAccounts ==
  ASSUME TypedSteps, Counters, NoCommit, NEW w \in Worker, GenesisMembers(w)
  PROVE  Counters'
<1> DEFINE h == character[w].hashB
           rows == FoundingRows(h)
           written == [c \in Char |-> IF c \in Candidates(h) THEN rows[c] ELSE tx[w].members[c]]
           entries == tx[w].logs \cup {[action |-> "GENESIS", block |-> h, chars |-> Candidates(h)]}
           u == [tx[w] EXCEPT !.members = written, !.logs = entries]
<1>1. /\ tx[w] \in Transaction /\ h \in HashB /\ HasBlock(tx[w], h) /\ members \in Tables
      /\ characters \in [Char -> CharacterRow]
  BY DEF TypedSteps, TypeOK, QueuedHaveHash, StepsInOrder, StepInOrder, GenesisMembers, Tables
<1>2. rows \in [Candidates(h) -> MemberRow] /\ Candidates(h) \in SUBSET Char
  BY <1>1, FoundingRowsType
<1>3. \A c \in Candidates(h) : rows[c].block = h
  BY DEF FoundingRows, MemberOf
<1>4. Founded(w, rows) = Recomputing(u, h, "commit")
  <2>1. DOMAIN rows = Candidates(h)
    BY <1>2
  <2> HIDE DEF rows
  <2> QED BY <1>1, <2>1 DEF Founded, Transaction
<1>5. /\ UNCHANGED <<members, blocks>> /\ pc[w] = "candidates" /\ pc' = [pc EXCEPT ![w] = "recompute"]
      /\ tx' = [tx EXCEPT ![w] = Recomputing(u, h, "commit")]
      /\ \A c \in Candidates(h) : MembersSeen(tx[w])[c] = NoRow
  BY <1>4 DEF GenesisMembers, Proceed, Goto, tables
<1> HIDE DEF rows
<1>6. written \in [Char -> MemberRow \cup {NoRow, Unwritten}] /\ entries \in SUBSET LogRow
  BY <1>1, <1>2 DEF Transaction, LogRow
<1>7. u \in Transaction /\ u.members = written /\ u.blocks = tx[w].blocks
  <2> HIDE DEF written, entries
  <2> QED BY <1>1, <1>6 DEF Transaction
<1> HIDE DEF u
<1>8. ASSUME NEW c \in Char
      PROVE  \/ u.members[c] = tx[w].members[c]
             \/ \A r \in {MembersSeen(tx[w])[c], MembersSeen(u)[c]} : r = NoRow \/ r.block = h
  <2>1. CASE c \notin Candidates(h)
    BY <1>7, <2>1
  <2>2. CASE c \in Candidates(h)
    <3>1. u.members[c] = rows[c] /\ rows[c] \in MemberRow
      BY <1>2, <1>7, <2>2
    <3>2. MembersSeen(u)[c] = rows[c]
      BY <1>1, <1>7, <3>1, SeenIs, ConstantsAssumption
    <3> QED BY <1>3, <1>5, <2>2, <3>2
  <2> QED BY <2>1, <2>2
<1> HIDE DEF h
<1>11. pc[w] # "recompute" /\ "commit" \in {"place", "commit"}
  BY <1>5
<1>12. WroteIn(h, tx[w], u)
  BY <1>1, <1>7, <1>8 DEF WroteIn
<1> QED BY <1>1, <1>5, <1>7, <1>11, <1>12, WriteAccounts

LEMMA RecomputeLeftAccounts ==
  ASSUME TypedSteps, Counters, NoCommit, NEW w \in Worker, RecomputeLeft(w)
  PROVE  Counters'
<1>1. /\ tx[w] \in Transaction /\ tx[w].target \in HashB /\ members \in Tables
      /\ blocks \in [HashB -> BlockRow \cup {NoRow}]
      /\ Accounts(tx[w], members, blocks, "recompute", disturbed[w], suspect)
  BY CountersTypes DEF TypedSteps, StepsInOrder, StepInOrder, RecomputeLeft, Counters
<1>2. AllAgree(Overlay(Recomputed(tx[w]).members, members), Overlay(Recomputed(tx[w]).blocks, blocks),
               Unsure(Recomputed(tx[w]), disturbed[w], suspect))
  BY <1>1, RecomputedAccounts
<1>4. Accounts(Recomputed(tx[w]), members, blocks, "place", disturbed[w], suspect)
  BY <1>2 DEF Accounts, AllAgree
<1>5. Recomputed(tx[w]) # NoTx
  <2>1. Recomputed(tx[w]).blocks[tx[w].target] =
          Stats(Cardinality(tx[w].rows), Cardinality(tx[w].confirmed))
    BY <1>1, RecomputedIs
  <2>2. Stats(Cardinality(tx[w].rows), Cardinality(tx[w].confirmed)) # Unwritten
    BY <1>1, StatsType, ConstantsAssumption DEF Transaction
  <2>3. NoTx.blocks[tx[w].target] = Unwritten
    BY <1>1 DEF NoTx
  <2> QED BY <2>1, <2>2, <2>3
<1>3. /\ UNCHANGED <<members, blocks>> /\ tx' = [tx EXCEPT ![w] = Recomputed(tx[w])]
      /\ pc' = [pc EXCEPT ![w] = "place"]
  BY DEF RecomputeLeft, Proceed, Goto, tables
<1> QED BY <1>3, <1>4, <1>5, OpenAccounts

\* A commit changes the counters of its own blocks only.
LEMMA CommitBlocks ==
  ASSUME NEW w \in Worker, TypedSteps, Commit(w), NEW g \in HashB, g \notin Concerned(w)
  PROVE  blocks'[g] = blocks[g]
<1> DEFINE t == tx[w]
           done == Recomputed(t)
<1>1. /\ t \in Transaction /\ t.target \in HashB /\ members \in Tables
      /\ blocks \in [HashB -> BlockRow \cup {NoRow}]
  BY CountersTypes DEF TypedSteps, StepsInOrder, StepInOrder, Commit
<1>2. done \in Transaction /\ (g # t.target => done.blocks[g] = t.blocks[g])
  BY <1>1, RecomputedIs
<1>3. g # t.target /\ t.blocks[g] = Unwritten
  BY DEF Concerned
<1>4. blocks' = Overlay(done.blocks, blocks)
  BY DEF Commit
<1> HIDE DEF done
<1> QED BY <1>1, <1>2, <1>3, <1>4 DEF Overlay

\* A commit changes the rows and the counters of its own blocks only, and no row
\* that another transaction holds.
LEMMA CommitConcerns ==
  ASSUME NEW w \in Worker, TypedSteps, Grounded, Commit(w)
  PROVE  /\ \A g \in HashB \ Concerned(w) :
              /\ blocks'[g] = blocks[g]
              /\ \A c \in Char : members'[c] = members[c] \/ (IsOutside(g, members[c]) /\ IsOutside(g, members'[c]))
         /\ \A v \in Worker \ {w}, c \in Char : tx[v].members[c] # Unwritten => members'[c] = members[c]
<1> DEFINE t == tx[w]
           h == t.target
           seen == Overlay(t.members, members)
           done == Recomputed(t)
<1>1. /\ t \in Transaction /\ h \in HashB /\ members \in Tables
      /\ blocks \in [HashB -> BlockRow \cup {NoRow}]
  BY CountersTypes DEF TypedSteps, StepsInOrder, StepInOrder, Commit
<1>2. /\ done \in Transaction
      /\ \A c \in Char :
           done.members[c] = IF c \in t.rows \cap RowsOf(h, seen)
                               THEN [seen[c] EXCEPT !.isConfirmed = c \in t.confirmed] ELSE t.members[c]
      /\ \A g \in HashB :
           done.blocks[g] = IF g = h THEN Stats(Cardinality(t.rows), Cardinality(t.confirmed)) ELSE t.blocks[g]
  BY <1>1, RecomputedIs
<1>3. members' = Overlay(done.members, members) /\ blocks' = Overlay(done.blocks, blocks)
  BY DEF Commit
<1> HIDE DEF done
<1>4. /\ seen \in Tables
      /\ \A c \in Char : seen[c] = IF t.members[c] = Unwritten THEN members[c] ELSE t.members[c]
      /\ \A c \in Char : members'[c] = IF done.members[c] = Unwritten THEN members[c] ELSE done.members[c]
      /\ \A g \in HashB : blocks'[g] = IF done.blocks[g] = Unwritten THEN blocks[g] ELSE done.blocks[g]
  BY <1>1, <1>2, <1>3, OverlayIs
<1>5. /\ h \in Concerned(w)
      /\ \A g \in HashB \ Concerned(w) :
           /\ t.blocks[g] = Unwritten /\ g # h
           /\ \A c \in Char : t.members[c] # Unwritten => IsOutside(g, members[c]) /\ IsOutside(g, t.members[c])
  BY <1>1 DEF Concerned, HeldMembers
<1>6. /\ \A v \in Worker \ {w}, c \in Char : tx[v].members[c] # Unwritten => c \notin t.rows /\ t.members[c] = Unwritten
  <2>1. \A v \in Worker \ {w} : t.rows \cap HeldMembers(v) = {}
    BY DEF Commit, WaitsFor, MembersNeeded
  <2>2. \A v \in Worker \ {w} : HeldMembers(w) \cap HeldMembers(v) = {}
    BY DEF Grounded, WritersExclude
  <2> QED BY <2>1, <2>2 DEF HeldMembers
<1>7. ASSUME NEW c \in t.rows \cap RowsOf(h, seen)
      PROVE  c \in Char /\ members'[c] # NoRow /\ members'[c].block = h /\ seen[c].block = h
  <2>1. c \in Char /\ seen[c] \in MemberRow /\ seen[c].block = h
    BY <1>4 DEF RowsOf, Tables
  <2> DEFINE mark == c \in t.confirmed
             row == [seen[c] EXCEPT !.isConfirmed = mark]
  <2>2. mark \in BOOLEAN /\ done.members[c] = row
    BY <1>2, <2>1
  <2> HIDE DEF mark
  <2>3. row \in MemberRow /\ row.block = seen[c].block
    BY <2>1, <2>2, ConfirmedRow
  <2> HIDE DEF row
  <2>4. row # Unwritten /\ row # NoRow
    BY <2>3, ConstantsAssumption
  <2> QED BY <1>4, <2>1, <2>2, <2>3, <2>4
<1>8. ASSUME NEW c \in Char, c \notin t.rows \cap RowsOf(h, seen)
      PROVE  members'[c] = IF t.members[c] = Unwritten THEN members[c] ELSE t.members[c]
  BY <1>2, <1>4, <1>8
<1> HIDE DEF seen
<1>9. ASSUME NEW g \in HashB \ Concerned(w)
      PROVE  /\ blocks'[g] = blocks[g]
             /\ \A c \in Char : members'[c] = members[c] \/ (IsOutside(g, members[c]) /\ IsOutside(g, members'[c]))
  <2>1. blocks'[g] = blocks[g]
    BY CommitBlocks
  <2>2. ASSUME NEW c \in Char
        PROVE  members'[c] = members[c] \/ (IsOutside(g, members[c]) /\ IsOutside(g, members'[c]))
    <3>1. CASE c \in t.rows \cap RowsOf(h, seen)
      <4>1. IsOutside(g, members'[c])
        BY <1>5, <1>7, <3>1 DEF IsOutside
      <4>2. IsOutside(g, members[c])
        BY <1>4, <1>5, <1>7, <3>1 DEF IsOutside
      <4> QED BY <4>1, <4>2
    <3>2. CASE c \notin t.rows \cap RowsOf(h, seen)
      BY <1>5, <1>8, <3>2
    <3> QED BY <3>1, <3>2
  <2> QED BY <2>1, <2>2
<1>10. ASSUME NEW v \in Worker \ {w}, NEW c \in Char, tx[v].members[c] # Unwritten
       PROVE  members'[c] = members[c]
  BY <1>6, <1>8, <1>10
<1> QED BY <1>9, <1>10

\* Where its blocks are not those of the one that commits, a transaction sees of
\* the committed blocks what everyone sees, and of its own what it saw before.
LEMMA OthersCommitAccounts ==
  ASSUME NEW w \in Worker, TypedSteps, TypedSteps', Grounded, Counters, OverlapsKnown, Commit(w),
         NEW S, \A g \in HashB \ Concerned(w) : g \in suspect => g \in S,
         AllAgree(members', blocks', S), NEW v \in Worker \ {w}
  PROVE  Accounts(tx[v], members', blocks', pc[v], disturbed[v], S)
<1> DEFINE t == tx[v]
           D == disturbed[v]
           old == Overlay(t.members, members)
           seen == Overlay(t.members, members')
           stats == Overlay(t.blocks, blocks)
           after == Overlay(t.blocks, blocks')
           except == IF pc[v] = "recompute" THEN {t.target} ELSE {}
<1>1. /\ t \in Transaction /\ members \in Tables /\ blocks \in [HashB -> BlockRow \cup {NoRow}]
      /\ members' \in Tables /\ blocks' \in [HashB -> BlockRow \cup {NoRow}]
  BY DEF TypedSteps, TypeOK, Tables
<1>2. /\ \A c \in Char : old[c] = IF t.members[c] = Unwritten THEN members[c] ELSE t.members[c]
      /\ \A c \in Char : seen[c] = IF t.members[c] = Unwritten THEN members'[c] ELSE t.members[c]
      /\ \A g \in HashB : stats[g] = IF t.blocks[g] = Unwritten THEN blocks[g] ELSE t.blocks[g]
      /\ \A g \in HashB : after[g] = IF t.blocks[g] = Unwritten THEN blocks'[g] ELSE t.blocks[g]
  BY <1>1, OverlayIs
<1>3. /\ AllAgree(old, stats, Unsure(t, D, suspect) \cup except)
      /\ pc[v] = "recompute" =>
           /\ t.blocks[t.target] # Unwritten \/ blocks[t.target] # NoRow
           /\ t.target \notin D => t.rows = RowsOf(t.target, old) /\ t.confirmed = Corroborated(t.target, old)
  BY DEF Counters, Accounts
<1>4. /\ \A g \in HashB \ Concerned(w) :
           /\ blocks'[g] = blocks[g]
           /\ \A c \in Char : members'[c] = members[c] \/ (IsOutside(g, members[c]) /\ IsOutside(g, members'[c]))
      /\ \A c \in Char : t.members[c] # Unwritten => members'[c] = members[c]
  BY CommitConcerns
<1>5. \A g \in Concerned(w) : g \notin D =>
        /\ t.blocks[g] = Unwritten /\ t.target # g
        /\ \A c \in Char : t.members[c] # Unwritten => IsOutside(g, members[c]) /\ IsOutside(g, t.members[c])
  <2>1. \A g \in Concerned(w) : g \in HashB /\ (g \notin D => g \notin Concerned(v))
    BY DEF OverlapsKnown, Concerned
  <2> QED BY <2>1 DEF Concerned, HeldMembers
<1>6. pc[v] = "recompute" => t.target \in HashB /\ (t.target \notin D => t.target \notin Concerned(w))
  BY <1>5 DEF TypedSteps, StepsInOrder, StepInOrder
<1>7. \A h \in HashB : blocks[h] # NoRow => blocks'[h] # NoRow
  BY CommitTables
<1> HIDE DEF t, old, seen, stats, after, except, D
<1>8. ASSUME NEW g \in HashB \ Concerned(w), NEW c \in Char
      PROVE  seen[c] = old[c] \/ (IsOutside(g, old[c]) /\ IsOutside(g, seen[c]))
  BY <1>2, <1>4
<1>9. ASSUME NEW g \in Concerned(w), g \notin D, NEW c \in Char
      PROVE  seen[c] = members'[c] \/ (IsOutside(g, members'[c]) /\ IsOutside(g, seen[c]))
  BY <1>2, <1>4, <1>5, <1>9
<1>10. ASSUME NEW g \in HashB, g \notin except, g \notin Unsure(t, D, S), after[g] # NoRow
       PROVE  Agrees(g, seen, after[g])
  <2>1. CASE g \in Concerned(w)
    <3>1. g \notin D
      BY <1>10 DEF Unsure
    <3>2. t.blocks[g] = Unwritten /\ after[g] = blocks'[g]
      BY <1>2, <1>5, <2>1, <3>1
    <3>3. g \notin S
      BY <1>10, <3>2 DEF Unsure
    <3>4. Agrees(g, members', after[g])
      BY <1>10, <3>2, <3>3 DEF AllAgree
    <3> QED BY <1>9, <2>1, <3>1, <3>4, OthersAgree
  <2>2. CASE g \notin Concerned(w)
    <3>1. after[g] = stats[g]
      BY <1>2, <1>4, <2>2
    <3>2. g \notin Unsure(t, D, suspect)
      BY <1>10, <2>2 DEF Unsure
    <3>3. Agrees(g, old, after[g])
      BY <1>3, <1>10, <3>1, <3>2 DEF AllAgree
    <3> QED BY <1>8, <2>2, <3>3, OthersAgree
  <2> QED BY <2>1, <2>2
<1>11. AllAgree(seen, after, Unsure(t, D, S) \cup except)
  BY <1>10 DEF AllAgree
<1>12. pc[v] = "recompute" =>
         /\ t.blocks[t.target] # Unwritten \/ blocks'[t.target] # NoRow
         /\ t.target \notin D => t.rows = RowsOf(t.target, seen) /\ t.confirmed = Corroborated(t.target, seen)
  <2> SUFFICES ASSUME pc[v] = "recompute"
               PROVE  /\ t.blocks[t.target] # Unwritten \/ blocks'[t.target] # NoRow
                      /\ t.target \notin D =>
                           t.rows = RowsOf(t.target, seen) /\ t.confirmed = Corroborated(t.target, seen)
    OBVIOUS
  <2>1. ASSUME t.target \notin D
        PROVE  RowsOf(t.target, seen) = RowsOf(t.target, old) /\ Corroborated(t.target, seen) = Corroborated(t.target, old)
    BY <1>6, <1>8, <2>1, OthersAgree
  <2> QED BY <1>3, <1>6, <1>7, <2>1
<1> QED BY <1>11, <1>12 DEF Accounts, t, seen, after, except, D

\* A commit makes what the transaction saw what everyone sees, where it was not
\* disturbed.
LEMMA CommitAccounts ==
  ASSUME NEW w \in Worker, TypedSteps, TypedSteps', Grounded, Counters, OverlapsKnown, Commit(w),
         suspect' = (suspect \ Recounted(w)) \cup disturbed[w],
         \A v \in Worker \ {w} : disturbed[v] \subseteq disturbed'[v]
  PROVE  Counters'
<1> DEFINE done == Recomputed(tx[w])
<1>1. /\ tx[w] \in Transaction /\ tx[w].target \in HashB /\ members \in Tables
      /\ blocks \in [HashB -> BlockRow \cup {NoRow}]
      /\ Accounts(tx[w], members, blocks, "recompute", disturbed[w], suspect)
  BY CountersTypes DEF TypedSteps, StepsInOrder, StepInOrder, Commit, Counters
<1>2. members' = Overlay(done.members, members) /\ blocks' = Overlay(done.blocks, blocks)
  BY DEF Commit
<1>3. AllAgree(members', blocks', Unsure(done, disturbed[w], suspect))
  BY <1>1, <1>2, RecomputedAccounts
<1>4. \A g \in HashB : g \in Unsure(done, disturbed[w], suspect) => g \in suspect'
  <2>1. \A g \in HashB : done.blocks[g] = IF g = tx[w].target
                           THEN Stats(Cardinality(tx[w].rows), Cardinality(tx[w].confirmed)) ELSE tx[w].blocks[g]
    BY <1>1, RecomputedIs
  <2>2. Stats(Cardinality(tx[w].rows), Cardinality(tx[w].confirmed)) # Unwritten
    BY <1>1, StatsType, ConstantsAssumption DEF Transaction
  <2> HIDE DEF done
  <2> QED BY <2>1, <2>2 DEF Unsure, Recounted, HeldBlocks
<1> HIDE DEF done
<1>5. AllAgree(members', blocks', suspect')
  BY <1>3, <1>4 DEF AllAgree
<1>6. members' \in Tables /\ blocks' \in [HashB -> BlockRow \cup {NoRow}]
  BY DEF TypedSteps, TypeOK, Tables
<1>7. /\ tx'[w] = NoTx /\ pc'[w] = "idle"
      /\ \A v \in Worker \ {w} : tx'[v] = tx[v] /\ pc'[v] = pc[v]
  BY DEF Commit, Release, Goto, TypedSteps, TypeOK
<1>8. Recounted(w) \cap HashB \subseteq Concerned(w)
  BY DEF Recounted, Concerned, HeldBlocks
<1>9. \A g \in HashB \ Concerned(w) : g \in suspect => g \in suspect'
  BY <1>8
<1>10. ASSUME NEW v \in Worker PROVE Accounts(tx'[v], members', blocks', pc'[v], disturbed'[v], suspect')
  <2>1. CASE v = w
    <3>1. Accounts(NoTx, members', blocks', "idle", disturbed'[v], suspect')
      BY <1>5, <1>6, NothingAccounts
    <3> QED BY <1>7, <2>1, <3>1
  <2>2. CASE v # w
    <3>1. Accounts(tx[v], members', blocks', pc[v], disturbed[v], suspect')
      BY <1>5, <1>9, <2>2, OthersCommitAccounts
    <3>2. Accounts(tx[v], members', blocks', pc[v], disturbed'[v], suspect')
      BY <2>2, <3>1, DisturbedMore
    <3> QED BY <1>7, <2>2, <3>2
  <2> QED BY <2>1, <2>2
<1> QED BY <1>5, <1>10 DEF Counters

\* The backfill founds a block whose counters and marks are right.
LEMMA BackfillAgrees ==
  ASSUME NEW h \in HashB, TypedSteps, Grounded, BackfillGroup(h)
  PROVE  /\ members' \in Tables /\ blocks' \in [HashB -> BlockRow \cup {NoRow}]
         /\ \A c \in Char : IsOutside(h, members[c])
         /\ \A c \in Char \ Candidates(h) : members'[c] = members[c]
         /\ \A c \in Char \cap Candidates(h) : members[c] = NoRow /\ members'[c].block = h
         /\ blocks[h] = NoRow /\ \A g \in HashB \ {h} : blocks'[g] = blocks[g]
         /\ Agrees(h, members', blocks'[h])
<1> DEFINE rows == [c \in Char |-> IF c \in Candidates(h) THEN MemberOf(h, characters[c]) ELSE members[c]]
           confirmed == Corroborated(h, rows)
           confirmedRow(c) == [rows[c] EXCEPT !.isConfirmed = TRUE]
           stats == Stats(Cardinality(Candidates(h)), Cardinality(confirmed))
<1>1. /\ characters \in [Char -> CharacterRow] /\ members \in Tables
      /\ blocks \in [HashB -> BlockRow \cup {NoRow}] /\ Candidates(h) \in SUBSET Char
  BY DEF TypedSteps, TypeOK, Tables, Candidates
<1>2. /\ members' = [c \in Char |-> IF c \in confirmed THEN confirmedRow(c) ELSE rows[c]]
      /\ blocks' = [blocks EXCEPT ![h] = stats]
      /\ blocks[h] = NoRow
      /\ \A c \in Candidates(h) : members[c] = NoRow
  BY DEF BackfillGroup, BackfillConflict
<1>3. members' \in Tables /\ blocks' \in [HashB -> BlockRow \cup {NoRow}]
  BY BackfillTables DEF Tables
<1>4. ASSUME NEW c \in Char PROVE IsOutside(h, members[c])
  BY <1>2 DEF Grounded, MembersHaveBlocks, IsOutside
<1>5. \A c \in Candidates(h) : /\ rows[c] \in MemberRow /\ rows[c].block = h
                               /\ rows[c].isConfirmed = FALSE
  BY <1>1 DEF MemberOf, MemberRow, CharacterRow
<1>6. \A c \in Char \ Candidates(h) : rows[c] = members[c]
  OBVIOUS
<1>7. stats = Stats(Cardinality(Candidates(h)), Cardinality(confirmed))
  OBVIOUS
<1>8. confirmed = Corroborated(h, rows)
  OBVIOUS
<1> HIDE DEF rows, stats
<1>9. RowsOf(h, rows) = Candidates(h)
  BY <1>1, <1>4, <1>5, <1>6, ConstantsAssumption DEF RowsOf, IsOutside
<1>10. confirmed \subseteq Candidates(h)
  BY <1>9 DEF Corroborated
<1> HIDE DEF confirmed
<1>11. ASSUME NEW c \in confirmed
       PROVE  /\ members'[c] = confirmedRow(c) /\ confirmedRow(c).isConfirmed = TRUE
              /\ SameMember(confirmedRow(c), rows[c])
  <2>1. c \in Char /\ rows[c] \in MemberRow
    BY <1>1, <1>5, <1>10
  <2>2. /\ confirmedRow(c) \in MemberRow /\ confirmedRow(c).block = rows[c].block
        /\ confirmedRow(c).hashA = rows[c].hashA /\ confirmedRow(c).hashB = rows[c].hashB
    BY <2>1, ConfirmedRow
  <2>3. confirmedRow(c).isConfirmed = TRUE
    BY <2>1 DEF MemberRow
  <2>4. members'[c] = confirmedRow(c)
    BY <1>2, <2>1
  <2> HIDE DEF confirmedRow
  <2>5. SameMember(confirmedRow(c), rows[c])
    BY <2>1, <2>2, ConstantsAssumption DEF SameMember
  <2> QED BY <2>3, <2>4, <2>5
<1>12. \A c \in Char : c \notin confirmed => members'[c] = rows[c]
  BY <1>2
<1> HIDE DEF confirmedRow
<1>13. \A c \in Char : members'[c] = rows[c] \/ SameMember(members'[c], rows[c])
  BY <1>11, <1>12
<1>14. RowsOf(h, members') = Candidates(h) /\ Corroborated(h, members') = confirmed
  BY <1>8, <1>9, <1>13, MarksDoNotCount
<1>15. \A c \in Candidates(h) : members'[c].isConfirmed <=> c \in confirmed
  <2> TAKE c \in Candidates(h)
  <2>1. CASE c \in confirmed
    BY <1>11, <2>1
  <2>2. CASE c \notin confirmed
    BY <1>1, <1>5, <1>12, <2>2
  <2> QED BY <2>1, <2>2
<1>16. blocks'[h] = stats
  BY <1>1, <1>2
<1>17. Agrees(h, members', blocks'[h])
  BY <1>7, <1>14, <1>15, <1>16 DEF Agrees
<1>18. \A c \in Char \ Candidates(h) : members'[c] = members[c]
  BY <1>6, <1>10, <1>12
<1>19. \A c \in Char \cap Candidates(h) : members[c] = NoRow /\ members'[c].block = h
  BY <1>2, <1>5, <1>13 DEF SameMember
<1>20. \A g \in HashB \ {h} : blocks'[g] = blocks[g]
  BY <1>1, <1>2
<1> QED BY <1>2, <1>3, <1>4, <1>17, <1>18, <1>19, <1>20

\* The workers see the block that the backfill founded, and no other change.
LEMMA BackfillAccounts ==
  ASSUME NEW h \in HashB, TypedSteps, Grounded, Counters, NoCommit, BackfillGroup(h)
  PROVE  Counters'
<1>1. /\ members' \in Tables /\ blocks' \in [HashB -> BlockRow \cup {NoRow}]
      /\ \A c \in Char : IsOutside(h, members[c])
      /\ \A c \in Char \ Candidates(h) : members'[c] = members[c]
      /\ \A c \in Char \cap Candidates(h) : members[c] = NoRow /\ members'[c].block = h
      /\ blocks[h] = NoRow /\ \A g \in HashB \ {h} : blocks'[g] = blocks[g]
      /\ Agrees(h, members', blocks'[h])
  BY BackfillAgrees
<1>2. /\ UNCHANGED <<tx, pc>>
      /\ \A w \in Worker : Candidates(h) \cap HeldMembers(w) = {} /\ h \notin HeldBlocks(w)
  BY DEF BackfillGroup, BackfillUnblocked
<1>3. members \in Tables /\ blocks \in [HashB -> BlockRow \cup {NoRow}]
  BY CountersTypes
<1>4. ASSUME NEW g \in HashB \ {h}, NEW c \in Char
      PROVE  members'[c] = members[c] \/ (IsOutside(g, members[c]) /\ IsOutside(g, members'[c]))
  BY <1>1 DEF IsOutside
<1>5. AllAgree(members', blocks', suspect)
  <2> SUFFICES ASSUME NEW g \in HashB, g \notin suspect, blocks'[g] # NoRow
               PROVE  Agrees(g, members', blocks'[g])
    BY DEF AllAgree
  <2>1. CASE g = h
    BY <1>1, <2>1
  <2>2. CASE g # h
    <3>1. Agrees(g, members, blocks'[g])
      BY <1>1, <2>2 DEF Counters, AllAgree
    <3> QED BY <1>4, <2>2, <3>1, OthersAgree
  <2> QED BY <2>1, <2>2
<1>6. ASSUME NEW w \in Worker
      PROVE  Accounts(tx[w], members', blocks', pc[w], disturbed[w], suspect)
  <2> DEFINE t == tx[w]
             D == disturbed[w]
             old == Overlay(t.members, members)
             seen == Overlay(t.members, members')
             stats == Overlay(t.blocks, blocks)
             after == Overlay(t.blocks, blocks')
  <2>1. /\ t \in Transaction
        /\ \A c \in Char : c \in Candidates(h) => t.members[c] = Unwritten
        /\ t.blocks[h] = Unwritten
    BY <1>2, CountersTypes DEF HeldMembers, HeldBlocks
  <2>2. /\ \A c \in Char : old[c] = IF t.members[c] = Unwritten THEN members[c] ELSE t.members[c]
        /\ \A c \in Char : seen[c] = IF t.members[c] = Unwritten THEN members'[c] ELSE t.members[c]
        /\ \A g \in HashB : stats[g] = IF t.blocks[g] = Unwritten THEN blocks[g] ELSE t.blocks[g]
        /\ \A g \in HashB : after[g] = IF t.blocks[g] = Unwritten THEN blocks'[g] ELSE t.blocks[g]
    BY <1>1, <1>3, <2>1, OverlayIs
  <2>3. Accounts(t, members, blocks, pc[w], D, suspect)
    BY DEF Counters
  <2>4. \A c \in Char : t.members[c] # Unwritten => IsOutside(h, t.members[c])
    BY <1>1, <2>1 DEF Grounded, TransactionsCommittable, Committable, HasBlock, IsOutside
  <2>5. pc[w] = "recompute" => t.target \in HashB \ {h}
    BY <1>1, <2>1, <2>3 DEF Accounts, TypedSteps, StepsInOrder, StepInOrder
  <2> DEFINE except == IF pc[w] = "recompute" THEN {t.target} ELSE {}
  <2>6. /\ AllAgree(old, stats, Unsure(t, D, suspect) \cup except)
        /\ pc[w] = "recompute" =>
             /\ t.blocks[t.target] # Unwritten \/ blocks[t.target] # NoRow
             /\ t.target \notin D => t.rows = RowsOf(t.target, old) /\ t.confirmed = Corroborated(t.target, old)
    BY <2>3 DEF Accounts
  <2> HIDE DEF t, old, seen, stats, after, except, D
  <2>7. ASSUME NEW g \in HashB \ {h}, NEW c \in Char
        PROVE  seen[c] = old[c] \/ (IsOutside(g, old[c]) /\ IsOutside(g, seen[c]))
    BY <1>4, <2>2
  <2>8. ASSUME NEW c \in Char
        PROVE  seen[c] = members'[c] \/ (IsOutside(h, members'[c]) /\ IsOutside(h, seen[c]))
    BY <1>1, <2>1, <2>2, <2>4
  <2>9. ASSUME NEW g \in HashB, g \notin except, g \notin Unsure(t, D, suspect), after[g] # NoRow
        PROVE  Agrees(g, seen, after[g])
    <3>1. CASE g = h
      <4>1. after[g] = blocks'[h]
        BY <2>1, <2>2, <3>1
      <4> QED BY <1>1, <2>8, <3>1, <4>1, OthersAgree
    <3>2. CASE g # h
      <4>1. after[g] = stats[g]
        BY <1>1, <2>2, <3>2
      <4>2. Agrees(g, old, after[g])
        BY <2>6, <2>9, <4>1 DEF AllAgree
      <4> QED BY <2>7, <3>2, <4>2, OthersAgree
    <3> QED BY <3>1, <3>2
  <2>10. AllAgree(seen, after, Unsure(t, D, suspect) \cup except)
    BY <2>9 DEF AllAgree
  <2>11. pc[w] = "recompute" =>
           /\ t.blocks[t.target] # Unwritten \/ blocks'[t.target] # NoRow
           /\ t.target \notin D => t.rows = RowsOf(t.target, seen) /\ t.confirmed = Corroborated(t.target, seen)
    <3> SUFFICES ASSUME pc[w] = "recompute"
                 PROVE  /\ t.blocks[t.target] # Unwritten \/ blocks'[t.target] # NoRow
                        /\ t.target \notin D => t.rows = RowsOf(t.target, seen) /\ t.confirmed = Corroborated(t.target, seen)
      OBVIOUS
    <3>1. RowsOf(t.target, seen) = RowsOf(t.target, old) /\ Corroborated(t.target, seen) = Corroborated(t.target, old)
      BY <2>5, <2>7, OthersAgree
    <3> QED BY <1>1, <2>5, <2>6, <3>1
  <2> QED BY <2>10, <2>11 DEF Accounts, t, seen, after, except, D
<1>7. ASSUME NEW w \in Worker
      PROVE  Accounts(tx'[w], members', blocks', pc'[w], disturbed'[w], suspect')
  <2>1. disturbed[w] \subseteq disturbed'[w] /\ suspect' = suspect /\ tx'[w] = tx[w] /\ pc'[w] = pc[w]
    BY <1>2 DEF NoCommit
  <2>2. Accounts(tx[w], members', blocks', pc[w], disturbed'[w], suspect)
    BY <1>6, <2>1, DisturbedMore
  <2> QED BY <2>1, <2>2
<1> QED BY <1>5, <1>7 DEF Counters, NoCommit

\* One transaction is committed in a step, and it is the worker's that this step is of.
LEMMA CommitIsOne ==
  ASSUME TypedSteps, NEW w \in Worker, Commit(w)
  PROVE  {v \in Worker : Commit(v)} = {w}
<1>1. pc' = [pc EXCEPT ![w] = "idle"]
  BY DEF Commit, Release, Goto
<1>2. ASSUME NEW v \in Worker, Commit(v)
      PROVE  v = w
  BY <1>1, <1>2 DEF Commit, Release, Goto, TypedSteps, TypeOK
<1> QED BY <1>2

\* The history is kept, but that of a transaction that is over.
LEMMA HistoryKept ==
  ASSUME OverlapsKnown, ObservedNext
  PROVE  \A w \in Worker : tx'[w] # NoTx \/ tx'[w] = tx[w] => disturbed[w] \subseteq disturbed'[w]
BY DEF ObservedNext, Observe, OverlapsKnown

LEMMA OverlapsKnownNext ==
  OverlapsKnown /\ [ObservedNext]_<<vars, history>> => OverlapsKnown'
<1> SUFFICES ASSUME OverlapsKnown, [ObservedNext]_<<vars, history>> PROVE OverlapsKnown'
  OBVIOUS
<1>1. CASE UNCHANGED <<vars, history>>
  BY <1>1 DEF vars, history, tables, OverlapsKnown, Concerned, HeldMembers
<1>2. CASE ObservedNext
  <2> SUFFICES ASSUME NEW w \in Worker
               PROVE  /\ tx'[w] = NoTx => disturbed'[w] = {}
                      /\ \A v \in Worker \ {w} : Concerned(v)' \cap Concerned(w)' \subseteq disturbed'[w]
    BY DEF OverlapsKnown
  <2>1. disturbed'[w] = IF tx'[w] = NoTx THEN {}
                        ELSE disturbed[w] \cup (Concerned(w)' \cap ConcernedByOthers(w)')
    BY <1>2 DEF ObservedNext, Observe
  <2>2. tx'[w] = NoTx => Concerned(w)' = {}
    BY NothingConcerned
  <2>3. \A v \in Worker \ {w} : Concerned(v)' \subseteq ConcernedByOthers(w)'
    BY DEF ConcernedByOthers
  <2> QED BY <2>1, <2>2, <2>3
<1> QED BY <1>1, <1>2

LEMMA CountersNext ==
  TypedSteps /\ Grounded /\ Counters /\ OverlapsKnown /\ [ObservedNext]_<<vars, history>> => Counters'
<1> SUFFICES ASSUME TypedSteps, Grounded, Counters, OverlapsKnown, [ObservedNext]_<<vars, history>>
             PROVE  Counters'
  OBVIOUS
<1> USE DEF tables, jobs, reads, others
<1>1. CASE UNCHANGED <<vars, history>>
  BY <1>1 DEF Counters, vars, history
<1>2. CASE ObservedNext /\ \E w \in Worker : Commit(w)
  <2>1. PICK w \in Worker : Commit(w)
    BY <1>2
  <2>2. suspect' = (suspect \ Recounted(w)) \cup disturbed[w]
    BY <1>2, <2>1, CommitIsOne DEF ObservedNext, Observe
  <2>3. \A v \in Worker \ {w} : disturbed[v] \subseteq disturbed'[v]
    <3>1. \A v \in Worker \ {w} : tx'[v] = tx[v]
      BY <2>1 DEF Commit, Release, TypedSteps, TypeOK
    <3> QED BY <1>2, <3>1, HistoryKept
  <2>4. TypedSteps'
    BY <1>2, TypedStepsNext DEF ObservedNext
  <2> QED BY <2>1, <2>2, <2>3, <2>4, CommitAccounts
<1>3. CASE ObservedNext /\ ~\E w \in Worker : Commit(w)
  <2>1. NoCommit
    <3>1. {w \in Worker : Commit(w)} = {}
      BY <1>3
    <3>2. suspect' = suspect
      BY <1>3, <3>1 DEF ObservedNext, Observe
    <3> QED BY <1>3, <3>2, HistoryKept DEF NoCommit
  <2>2. UNCHANGED <<members, blocks, tx, pc>> => Counters'
    <3> SUFFICES ASSUME UNCHANGED <<members, blocks, tx, pc>> PROVE Counters'
      OBVIOUS
    <3>1. \A w \in Worker : disturbed[w] \subseteq disturbed'[w]
      BY <2>1 DEF NoCommit
    <3>2. \A w \in Worker : Accounts(tx[w], members, blocks, pc[w], disturbed[w], suspect)
      BY DEF Counters
    <3>3. \A w \in Worker : Accounts(tx[w], members, blocks, pc[w], disturbed'[w], suspect)
      BY <3>1, <3>2, DisturbedMore
    <3> QED BY <2>1, <3>3 DEF Counters, NoCommit
  <2>3. ASSUME NEW c \in Char, NEW a \in HashA \cup {NoHash}, NEW b \in HashB, Refresh(c, a, b)
        PROVE  Counters'
    BY <2>2, <2>3 DEF Refresh
  <2>4. ASSUME NEW c \in Char, Evict(c) PROVE Counters'
    BY <2>2, <2>4 DEF Evict
  <2>5. ASSUME NEW w \in Worker, NEW c \in Char, Take(w, c) PROVE Counters'
    BY <2>1, <2>5, ReadAccounts
  <2>6. ASSUME NEW w \in Worker, Fail(w) PROVE Counters'
    BY <2>1, <2>6, ReleaseAccounts DEF Fail
  <2>7. ASSUME NEW w \in Worker, Statement(w) PROVE Counters'
    <3>1. CASE ReadCharacter(w) \/ LoadMember(w) \/ LoadBlock(w)
      BY <2>1, <3>1, ReadAccounts
    <3>2. CASE Touch(w)
      BY <2>1, <3>2, ReleaseAccounts DEF Touch
    <3>3. CASE UniqueViolation(w) \/ DeadlockVictim(w)
      BY <2>6, <3>3 DEF UniqueViolation, DeadlockVictim
    <3> QED BY <1>3, <2>1, <2>7, <3>1, <3>2, <3>3, UpdateMemberAccounts, LeaveAccounts, PlaceAccounts,
               JoinAccounts, GenesisAccounts, GenesisMembersAccounts, RecomputeLeftAccounts
            DEF Statement
  <2>8. ASSUME NEW w \in Worker, QueryError(w) \/ Crash(w) PROVE Counters'
    BY <2>1, <2>6, <2>8, ReleaseAccounts DEF QueryError, Crash
  <2>9. ASSUME NEW h \in HashB, Backfill(h) PROVE Counters'
    <3>1. CASE BackfillNext(h) \/ BackfillFails(h)
      BY <2>2, <3>1 DEF BackfillNext, BackfillFails
    <3> QED BY <2>1, <2>9, <3>1, BackfillAccounts DEF Backfill
  <2>10. Next
    BY <1>3 DEF ObservedNext
  <2> QED BY <2>3, <2>4, <2>5, <2>7, <2>8, <2>9, <2>10 DEF Next
<1> QED BY <1>1, <1>2, <1>3

\* Observing changes nothing of what is observed.
LEMMA ObservedSteps ==
  /\ ObservedInit => Init
  /\ [ObservedNext]_<<vars, history>> => [Next]_vars
BY DEF ObservedInit, ObservedNext

LEMMA CountersHold == ObservedSpec => [](TypedSteps /\ Counters)
<1>1. ObservedInit => TypedSteps /\ Grounded /\ Counters /\ OverlapsKnown
  BY ObservedSteps, TypedStepsInit, GroundedInit, CountersInit
<1>2. TypedSteps /\ Grounded /\ Counters /\ OverlapsKnown /\ [ObservedNext]_<<vars, history>> =>
        (TypedSteps /\ Grounded /\ Counters /\ OverlapsKnown)'
  BY ObservedSteps, TypedStepsNext, GroundedNext, CountersNext, OverlapsKnownNext
<1> QED BY <1>1, <1>2, PTL DEF ObservedSpec

\* More than one element is one besides any given one.
LEMMA MoreThanOne ==
  ASSUME NEW S \in SUBSET Char, NEW c \in S
  PROVE  Cardinality(S) > 1 <=> \E d \in S : d # c
<1>1. IsFiniteSet(S)
  BY ConstantsAssumption, FS_Subset
<1>2. IsFiniteSet(S \ {c}) /\ Cardinality(S \ {c}) = Cardinality(S) - 1
  BY <1>1, FS_RemoveElement
<1>3. Cardinality(S) \in Nat /\ Cardinality(S \ {c}) \in Nat
  BY <1>1, <1>2, FS_CardinalityType
<1>4. Cardinality(S \ {c}) = 0 <=> S \ {c} = {}
  BY <1>2, FS_EmptySet
<1>5. S \ {c} = {} <=> ~\E d \in S : d # c
  OBVIOUS
<1> QED BY ONLY <1>2, <1>3, <1>4, <1>5

\* However jobs overlap, whatever fails and whatever the backfill does meanwhile,
\* the stored counter and collision flag of a block are those of its members, unless
\* the last job that counted them overlapped with another one on this very block.
THEOREM StatsAreExact == ObservedSpec => []StatsExact
<1>1. Counters => StatsExact
  <2> SUFFICES ASSUME Counters, NEW h \in HashB \ suspect, blocks[h] # NoRow
               PROVE  /\ blocks[h].charactersCount = Cardinality(RowsOf(h, members))
                      /\ blocks[h].isCollision = (Cardinality(RowsOf(h, members)) > MaxCharactersPerAccount)
    BY DEF StatsExact, CountedRight
  <2>1. Agrees(h, members, blocks[h])
    BY DEF Counters, AllAgree
  <2> QED BY <2>1 DEF Agrees, Stats
<1> QED BY <1>1, CountersHold, PTL

\* So it is with confirmations: a member is confirmed exactly when another member of
\* its block has its hashA, and confirmedCount counts those, but for such blocks.
THEOREM ConfirmationsAreExact == ObservedSpec => []ConfirmedExact
<1>1. TypedSteps /\ Counters => ConfirmedExact
  <2> SUFFICES ASSUME TypedSteps, Counters, NEW h \in HashB \ suspect, blocks[h] # NoRow
               PROVE  /\ \A c \in RowsOf(h, members) :
                           members[c].isConfirmed <=>
                             \E d \in RowsOf(h, members) \ {c} :
                               members[c].hashA \in {members[d].hashA} \ {NoHash}
                      /\ blocks[h].confirmedCount =
                           Cardinality({c \in RowsOf(h, members) : members[c].isConfirmed})
    BY DEF ConfirmedExact, ConfirmedRight
  <2>1. Agrees(h, members, blocks[h])
    BY DEF Counters, AllAgree
  <2>2. ASSUME NEW c \in RowsOf(h, members)
        PROVE  members[c].isConfirmed <=>
                 \E d \in RowsOf(h, members) \ {c} : members[c].hashA \in {members[d].hashA} \ {NoHash}
    <3> DEFINE S == {d \in RowsOf(h, members) : members[d].hashA = members[c].hashA}
    <3>1. S \in SUBSET Char /\ c \in S
      BY DEF RowsOf
    <3>2. members[c].isConfirmed <=> members[c].hashA # NoHash /\ Cardinality(S) > 1
      BY <2>1 DEF Agrees, Corroborated
    <3>3. Cardinality(S) > 1 <=> \E d \in S : d # c
      BY ONLY <3>1, MoreThanOne
    <3>4. (\E d \in S : d # c) <=> \E d \in RowsOf(h, members) \ {c} : members[d].hashA = members[c].hashA
      OBVIOUS
    <3> HIDE DEF S
    <3> QED BY <3>2, <3>3, <3>4
  <2>3. {c \in RowsOf(h, members) : members[c].isConfirmed} = Corroborated(h, members)
    BY <2>1 DEF Agrees, Corroborated
  <2>4. blocks[h].confirmedCount = Cardinality(Corroborated(h, members))
    BY <2>1 DEF Agrees, Stats
  <2> QED BY <2>2, <2>3, <2>4
<1> QED BY <1>1, CountersHold, PTL

\* What a worker read to be a collision block still is one, if no other transaction
\* concerned it since.
CollisionsStay ==
  \A w \in Worker : collision[w] =>
    /\ pc[w] \notin {"idle", "character", "member", "block"}
    /\ membership[w] # NoRow
    /\ blocks[membership[w].block] # NoRow
    /\ w \notin overtaken => blocks[membership[w].block].isCollision

LEMMA CollisionsStayNext ==
  TypedSteps /\ CollisionsStay /\ [ObservedNext]_<<vars, history>> => CollisionsStay'
<1> SUFFICES ASSUME TypedSteps, CollisionsStay, [ObservedNext]_<<vars, history>> PROVE CollisionsStay'
  OBVIOUS
<1> USE DEF tables, jobs, reads, others
<1>0. CASE UNCHANGED <<vars, history>>
  BY <1>0 DEF CollisionsStay, vars, history
<1> SUFFICES ASSUME ObservedNext PROVE CollisionsStay'
  BY <1>0
<1>1. \A v \in Worker : collision[v] /\ collision'[v] /\ v \notin overtaken' =>
        v \notin overtaken /\ \A u \in Worker \ {v} : membership[v].block \notin Concerned(u)
  BY DEF ObservedNext, Observe, ConcernedByOthers
<1>2. ASSUME NEW w \in Worker, NEW state, Release(w, state),
             \A v \in Worker \ {w} : collision[v] =>
               /\ blocks'[membership[v].block] # NoRow
               /\ membership[v].block \notin Concerned(w) =>
                    blocks'[membership[v].block] = blocks[membership[v].block]
      PROVE  CollisionsStay'
  <2>1. ~collision'[w]
    BY <1>2 DEF Release, TypedSteps, TypeOK
  <2>2. ASSUME NEW v \in Worker \ {w}
        PROVE  collision'[v] = collision[v] /\ membership'[v] = membership[v] /\ pc'[v] = pc[v]
    BY <1>2 DEF Release, Goto, TypedSteps, TypeOK
  <2> QED BY <1>1, <1>2, <2>1, <2>2 DEF CollisionsStay
<1>3. ASSUME NEW w \in Worker, NEW t, NEW step, Proceed(w, t, step),
             step \notin {"idle", "character", "member", "block"}
      PROVE  CollisionsStay'
  BY <1>1, <1>3 DEF Proceed, Goto, CollisionsStay, TypedSteps, TypeOK
<1>4. ASSUME NEW w \in Worker, NEW c \in Char, Take(w, c) PROVE CollisionsStay'
  BY <1>1, <1>4 DEF Take, Goto, CollisionsStay, TypedSteps, TypeOK
<1>5. ASSUME NEW w \in Worker, ReadCharacter(w) \/ LoadMember(w) \/ LoadBlock(w)
      PROVE  CollisionsStay'
  <2>1. CASE ReadCharacter(w)
    BY <1>1, <2>1 DEF ReadCharacter, Goto, CollisionsStay, TypedSteps, TypeOK
  <2>2. CASE LoadMember(w)
    BY <1>1, <2>2 DEF LoadMember, Goto, CollisionsStay, TypedSteps, TypeOK
  <2>3. CASE LoadBlock(w)
    <3> DEFINE block == membership[w].block
               isGone == blocks[block] = NoRow
    <3>1. /\ membership[w] # NoRow /\ UNCHANGED blocks
          /\ collision'[w] <=> ~isGone /\ blocks[block].isCollision
          /\ ~isGone => membership'[w] = membership[w]
          /\ ~isGone => pc'[w] \in {"leave", "touch", "update"}
      BY <2>3 DEF LoadBlock, Goto, TypedSteps, TypeOK, StepsInOrder, StepInOrder
    <3>2. \A v \in Worker \ {w} : collision'[v] = collision[v] /\ membership'[v] = membership[v] /\ pc'[v] = pc[v]
      BY <2>3 DEF LoadBlock, Goto, TypedSteps, TypeOK
    <3> QED BY <1>1, <2>3, <3>1, <3>2 DEF CollisionsStay, LoadBlock
  <2> QED BY <1>5, <2>1, <2>2, <2>3
<1>6. ASSUME NEW w \in Worker, Statement(w) PROVE CollisionsStay'
  <2>1. CASE UpdateMember(w)
    BY <1>3, <2>1 DEF UpdateMember
  <2>2. CASE Leave(w)
    BY <1>3, <2>2 DEF Leave
  <2>3. CASE Place(w)
    BY <1>1, <2>3 DEF Place, Goto, CollisionsStay, TypedSteps, TypeOK
  <2>4. CASE Join(w)
    BY <1>3, <2>4 DEF Join
  <2>5. CASE Genesis(w)
    BY <1>3, <2>5 DEF Genesis
  <2>6. CASE GenesisMembers(w)
    BY <1>3, <2>6 DEF GenesisMembers
  <2>7. CASE RecomputeLeft(w)
    BY <1>3, <2>7 DEF RecomputeLeft
  <2>8. CASE Touch(w) \/ UniqueViolation(w) \/ DeadlockVictim(w)
    BY <1>2, <2>8 DEF Touch, UniqueViolation, DeadlockVictim, Fail, CollisionsStay
  <2>9. CASE Commit(w)
    <3>1. ASSUME NEW v \in Worker \ {w}, collision[v]
          PROVE  /\ blocks'[membership[v].block] # NoRow
                 /\ membership[v].block \notin Concerned(w) =>
                      blocks'[membership[v].block] = blocks[membership[v].block]
      <4>1. membership[v] \in MemberRow /\ blocks[membership[v].block] # NoRow
        BY <3>1 DEF CollisionsStay, TypedSteps, TypeOK
      <4>2. membership[v].block \in HashB
        BY <4>1 DEF MemberRow
      <4> QED BY <2>9, <4>1, <4>2, CommitBlocks, CommitTables
    <3> QED BY <1>2, <2>9, <3>1 DEF Commit
  <2> QED BY <1>5, <1>6, <2>1, <2>2, <2>3, <2>4, <2>5, <2>6, <2>7, <2>8, <2>9 DEF Statement
<1>7. ASSUME NEW w \in Worker, QueryError(w) \/ Crash(w) PROVE CollisionsStay'
  BY <1>2, <1>7 DEF QueryError, Crash, Fail, CollisionsStay
<1>8. ASSUME NEW h \in HashB, Backfill(h) PROVE CollisionsStay'
  <2>1. CASE BackfillNext(h) \/ BackfillFails(h)
    BY <1>1, <2>1 DEF BackfillNext, BackfillFails, CollisionsStay
  <2>2. CASE BackfillGroup(h)
    <3>1. /\ UNCHANGED <<collision, pc, membership>> /\ blocks[h] = NoRow
          /\ \A g : g # h => blocks'[g] = blocks[g]
      BY <2>2 DEF BackfillGroup, BackfillConflict, TypedSteps, TypeOK
    <3> QED BY <1>1, <3>1 DEF CollisionsStay
  <2> QED BY <1>8, <2>1, <2>2 DEF Backfill
<1>9. ASSUME NEW c \in Char, NEW a \in HashA \cup {NoHash}, NEW b \in HashB, Refresh(c, a, b)
      PROVE  CollisionsStay'
  BY <1>1, <1>9 DEF Refresh, CollisionsStay
<1>10. ASSUME NEW c \in Char, Evict(c) PROVE CollisionsStay'
  BY <1>1, <1>10 DEF Evict, CollisionsStay
<1>11. Next
  BY DEF ObservedNext
<1> QED BY <1>4, <1>6, <1>7, <1>8, <1>9, <1>10, <1>11 DEF Next

\* Whatever runs beside it, a job that takes its character out of a block takes it
\* out of a collision block, unless another transaction concerned that very block
\* after the job had read the flag.
THEOREM AccurateBlocksKeepMembers == ObservedSpec => AccurateKeepsMembers
<1>1. ObservedInit => TypedSteps /\ CollisionsStay
  <2>1. ObservedInit => CollisionsStay
    BY DEF ObservedInit, Init, CollisionsStay
  <2> QED BY <2>1, ObservedSteps, TypedStepsInit
<1>2. TypedSteps /\ CollisionsStay /\ [ObservedNext]_<<vars, history>> => (TypedSteps /\ CollisionsStay)'
  BY ObservedSteps, TypedStepsNext, CollisionsStayNext
<1>3. TypedSteps /\ CollisionsStay /\ [ObservedNext]_<<vars, history>>
        /\ [\A c \in Char : Moves(c) => LeavesCollision(c)]_vars =>
        [\A c \in Char : Moves(c) => \/ blocks[members[c].block].isCollision
                                     \/ \E w \in overtaken : task[w] = c]_<<vars, history>>
  <2> SUFFICES ASSUME TypedSteps, CollisionsStay, [ObservedNext]_<<vars, history>>,
                      [\A c \in Char : Moves(c) => LeavesCollision(c)]_vars, NEW c \in Char, Moves(c)
               PROVE  blocks[members[c].block].isCollision \/ \E w \in overtaken : task[w] = c
    OBVIOUS
  <2>1. LeavesCollision(c)
    BY DEF Moves, vars, tables
  <2>2. PICK w \in Worker : task[w] = c /\ collision[w] /\ membership[w].block = members[c].block
    BY <2>1 DEF LeavesCollision
  <2> QED BY <2>2 DEF CollisionsStay
<1>4. ObservedSpec => Spec
  BY ObservedSteps, PTL DEF ObservedSpec, Spec
<1> QED BY <1>1, <1>2, <1>3, <1>4, LeavesAreCollisions, PTL
        DEF ObservedSpec, LeavesOnlyAsCollision, AccurateKeepsMembers
=============================================================================
