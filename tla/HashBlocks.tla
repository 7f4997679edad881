----------------------------- MODULE HashBlocks -----------------------------
(***************************************************************************)
(* Hash-block reconciliation: apps/osint/src/services/hash-block.service.ts *)
(* as the BullMQ workers of apps/osint/src/workers/hash.worker.ts run it.   *)
(*                                                                         *)
(* A hash block groups the characters that share a collection hash (hashB, *)
(* the block's anchor).  A job reconciles one character: it reads the      *)
(* character, its membership and that membership's block outside any       *)
(* transaction, and then joins, founds, updates or leaves blocks in one    *)
(* READ COMMITTED transaction.  Workers run concurrently; a character has  *)
(* at most one job because the job's id is the character's guid.           *)
(*                                                                         *)
(* A table is a function from its unique key to the committed row: a block *)
(* is known by its anchor (uq__hash_blocks__hash_value; blocks are never   *)
(* deleted), a membership by its character                                 *)
(* (uq__hash_block_members__character_guid).  A transaction keeps what it  *)
(* wrote to itself until it commits and holds the rows and index entries   *)
(* it wrote: a statement that needs what somebody else holds waits.        *)
(* Timestamps (scannedAt, joinedAt, lastSeenAt) are left out.              *)
(***************************************************************************)
EXTENDS Naturals, FiniteSets

CONSTANTS
  Char,                      \* character guids
  HashA, HashB,              \* values of the two collection hashes
  Worker,                    \* job slots of the hash workers
  MaxCharactersPerAccount,   \* a block with more members is a collision
  MaxAttempts,               \* attempts of a job before it has failed for good
  InitialCharacters,         \* the characters table when the service boots
  MaxRefreshes,              \* bound: refreshes of characters in a behaviour
  MaxFaults,                 \* bound: query errors and dead processes
  NoHash, NoRow, Unwritten   \* a null hash, no row, a row a transaction left alone

CharacterRow == [hashA : HashA \cup {NoHash}, hashB : HashB \cup {NoHash}]

MemberRow == [block : HashB, hashA : HashA \cup {NoHash}, hashB : HashB \cup {NoHash},
              isConfirmed : BOOLEAN]

BlockRow == [charactersCount : Nat, confirmedCount : Nat, isCollision : BOOLEAN]

\* an entry names one character, GENESIS counts the founders (membersCount): here
\* it names them
LogRow == [action : {"GENESIS", "JOIN", "MIGRATE", "HASH_A_CHANGE", "HASH_B_CHANGE"},
           block : HashB, chars : SUBSET Char]

ASSUME ConstantsAssumption ==
  /\ MaxCharactersPerAccount \in Nat
  /\ MaxAttempts \in Nat \ {0}
  /\ MaxRefreshes \in Nat
  /\ MaxFaults \in Nat
  /\ IsFiniteSet(Char)
  /\ NoHash \notin HashA \cup HashB
  /\ NoRow \notin MemberRow \cup BlockRow \cup Char \cup {Unwritten}
  /\ Unwritten \notin MemberRow \cup BlockRow
  /\ InitialCharacters \subseteq [Char -> CharacterRow]

VARIABLES
  characters,  \* the characters table: the two hashes of every character
  blocks,      \* the committed hash_blocks rows
  members,     \* the committed hash_block_members rows
  logs,        \* the committed hash_block_logs rows
  queue,       \* BullMQ's record of each character's job
  attempts,    \* failed attempts of each character's job
  pc,          \* the statement each worker runs next
  task,        \* the character whose job the worker runs
  character,   \* the hashes the worker read
  membership,  \* the membership the worker read
  collision,   \* the isCollision flag the worker read
  tx,          \* the worker's transaction
  backfill,    \* the boot-time backfill: groups to do, and the one being done
  refreshes, faults

tables == <<blocks, members, logs>>
jobs == <<queue, attempts>>
reads == <<character, membership, collision>>
others == <<characters, backfill, refreshes>>
vars == <<tables, jobs, pc, task, reads, tx, others, faults>>

-----------------------------------------------------------------------------
(* Transactions                                                            *)

NoHashes == [hashA |-> NoHash, hashB |-> NoHash]

\* members, blocks and logs are what the transaction wrote; it recomputes the
\* block `target` from the `rows` it read there, `confirmed` the corroborated
\* ones, and then commits or goes on to place the character
NoTx == [members |-> [c \in Char |-> Unwritten], blocks |-> [h \in HashB |-> Unwritten],
         logs |-> {}, target |-> NoHash, rows |-> {}, confirmed |-> {}, next |-> "commit"]

Overlay(written, committed) ==
  [k \in DOMAIN committed |-> IF written[k] = Unwritten THEN committed[k] ELSE written[k]]

\* what a statement of the transaction t sees
MembersSeen(t) == Overlay(t.members, members)
BlocksSeen(t) == Overlay(t.blocks, blocks)

HeldMembers(w) == {c \in Char : tx[w].members[c] # Unwritten}
HeldBlocks(w) == {h \in HashB : tx[w].blocks[h] # Unwritten}

Candidates(h) == {c \in Char : characters[c].hashB = h}

\* the rows and index entries the worker's next statement writes
MembersNeeded(w) ==
  CASE pc[w] \in {"update", "leave", "join"} -> {task[w]}
    [] pc[w] = "candidates" -> Candidates(character[w].hashB)
    [] pc[w] = "recompute"  -> tx[w].rows
    [] OTHER -> {}

BlocksNeeded(w) ==
  CASE pc[w] = "touch"     -> {membership[w].block}
    [] pc[w] = "genesis"   -> {character[w].hashB}
    [] pc[w] = "recompute" -> {tx[w].target}
    [] OTHER -> {}

WaitsFor(w) == {v \in Worker \ {w} : \/ MembersNeeded(w) \cap HeldMembers(v) # {}
                                     \/ BlocksNeeded(w) \cap HeldBlocks(v) # {}}

\* a set of transactions each of which waits for another one of the set
Deadlocked(w) == \E S \in SUBSET Worker : w \in S /\ \A v \in S : WaitsFor(v) \cap S # {}

-----------------------------------------------------------------------------
(* recomputeBlockState                                                     *)

RowsOf(h, rows) == {c \in Char : rows[c] # NoRow /\ rows[c].block = h}

\* mutant: a null hashA corroborates another null hashA
CorroboratedByNull(h, rows) ==
  {c \in RowsOf(h, rows) :
     Cardinality({d \in RowsOf(h, rows) : rows[d].hashA = rows[c].hashA}) > 1}

\* hashAFrequencies: the members whose hashA occurs more than once in the block
Corroborated(h, rows) ==
  {c \in RowsOf(h, rows) :
     /\ rows[c].hashA # NoHash
     /\ Cardinality({d \in RowsOf(h, rows) : rows[d].hashA = rows[c].hashA}) > 1}

\* mutant: the threshold is reached one member early
StatsAtLimit(size, confirmed) == [charactersCount |-> size, confirmedCount |-> confirmed,
                                  isCollision |-> size >= MaxCharactersPerAccount]

\* mutant: the character of the job is not counted
StatsOfTheOthers(size, confirmed) == [charactersCount |-> size - 1, confirmedCount |-> confirmed,
                                      isCollision |-> size > MaxCharactersPerAccount]

Stats(size, confirmed) == [charactersCount |-> size, confirmedCount |-> confirmed,
                           isCollision |-> size > MaxCharactersPerAccount]

\* the transaction t once it read the members of block h
Recomputing(t, h, next) ==
  [t EXCEPT !.target = h, !.next = next,
            !.rows = RowsOf(h, MembersSeen(t)),
            !.confirmed = Corroborated(h, MembersSeen(t))]

\* the transaction t once it wrote the result: a row that is gone is not updated
Recomputed(t) ==
  [t EXCEPT
     !.members = [c \in Char |->
        IF c \in t.rows \cap RowsOf(t.target, MembersSeen(t))
          THEN [MembersSeen(t)[c] EXCEPT !.isConfirmed = c \in t.confirmed]
          ELSE t.members[c]],
     !.blocks[t.target] = Stats(Cardinality(t.rows), Cardinality(t.confirmed))]

-----------------------------------------------------------------------------
Init ==
  /\ characters \in InitialCharacters
  /\ blocks = [h \in HashB |-> NoRow]
  /\ members = [c \in Char |-> NoRow]
  /\ logs = {}
  /\ queue = [c \in Char |-> "absent"]
  /\ attempts = [c \in Char |-> 0]
  /\ pc = [w \in Worker |-> "idle"]
  /\ task = [w \in Worker |-> NoRow]
  /\ character = [w \in Worker |-> NoHashes]
  /\ membership = [w \in Worker |-> NoRow]
  /\ collision = [w \in Worker |-> FALSE]
  /\ tx = [w \in Worker |-> NoTx]
  \* onApplicationBootstrap finds no block and groups the characters by hashB
  /\ backfill = [todo |-> {h \in HashB : Candidates(h) # {}}, group |-> NoHash]
  /\ refreshes = 0
  /\ faults = 0

-----------------------------------------------------------------------------
(* The queue and the worker's job                                          *)

\* mutant: the job has no id of its own, so a second one can run beside the first
RefreshWithoutJobId(c, a, b) ==
  /\ refreshes < MaxRefreshes
  /\ refreshes' = refreshes + 1
  /\ characters' = [characters EXCEPT ![c] =
       [hashA |-> IF a = NoHash THEN @.hashA ELSE a, hashB |-> b]]
  /\ queue' = [queue EXCEPT ![c] = "waiting"]
  /\ UNCHANGED <<tables, attempts, pc, task, reads, tx, backfill, faults>>

\* a refresh of the character saved its hashes (an undefined hashA is not
\* saved) and enqueued its job: Queue.add ignores an id it still knows, whether
\* that job waits, runs or ended and is retained
Refresh(c, a, b) ==
  /\ refreshes < MaxRefreshes
  /\ refreshes' = refreshes + 1
  /\ characters' = [characters EXCEPT ![c] =
       [hashA |-> IF a = NoHash THEN @.hashA ELSE a, hashB |-> b]]
  /\ IF queue[c] = "absent"
       THEN /\ queue' = [queue EXCEPT ![c] = "waiting"]
            /\ attempts' = [attempts EXCEPT ![c] = 0]
       ELSE UNCHANGED jobs
  /\ UNCHANGED <<tables, pc, task, reads, tx, backfill, faults>>

\* removeOnComplete, removeOnFail: enough later jobs ended, this one is forgotten
Evict(c) ==
  /\ queue[c] \in {"completed", "failed"}
  /\ queue' = [queue EXCEPT ![c] = "absent"]
  /\ UNCHANGED <<tables, attempts, pc, task, reads, tx, others, faults>>

Goto(w, step) == pc' = [pc EXCEPT ![w] = step]

Take(w, c) ==
  /\ pc[w] = "idle"
  /\ queue[c] = "waiting"
  /\ queue' = [queue EXCEPT ![c] = "active"]
  /\ task' = [task EXCEPT ![w] = c]
  /\ Goto(w, "character")
  /\ UNCHANGED <<tables, attempts, reads, tx, others, faults>>

\* the job is over for this worker, and so is its transaction
Release(w, state) ==
  /\ queue' = [queue EXCEPT ![task[w]] = state]
  /\ task' = [task EXCEPT ![w] = NoRow]
  /\ character' = [character EXCEPT ![w] = NoHashes]
  /\ membership' = [membership EXCEPT ![w] = NoRow]
  /\ collision' = [collision EXCEPT ![w] = FALSE]
  /\ tx' = [tx EXCEPT ![w] = NoTx]
  /\ Goto(w, "idle")
  /\ UNCHANGED others

\* mutant: a failed job is retried without end
FailWithoutLimit(w) == Release(w, "waiting") /\ UNCHANGED <<tables, attempts>>

\* an exception leaves process: the transaction is rolled back, the job retried
Fail(w) ==
  /\ attempts' = [attempts EXCEPT ![task[w]] = @ + 1]
  /\ Release(w, IF attempts[task[w]] + 1 < MaxAttempts THEN "waiting" ELSE "failed")
  /\ UNCHANGED tables

-----------------------------------------------------------------------------
(* reconcileCharacter: the reads outside the transaction                   *)

ReadCharacter(w) ==
  /\ pc[w] = "character"
  /\ character' = [character EXCEPT ![w] = characters[task[w]]]
  /\ Goto(w, "member")
  /\ UNCHANGED <<tables, jobs, task, membership, collision, tx, others, faults>>

\* without a membership, handleNoMembership goes straight to its transaction
LoadMember(w) ==
  /\ pc[w] = "member"
  /\ membership' = [membership EXCEPT ![w] = members[task[w]]]
  /\ Goto(w, IF members[task[w]] = NoRow THEN "place" ELSE "block")
  /\ UNCHANGED <<tables, jobs, task, character, collision, tx, others, faults>>

HashChanges(w) ==
  {a \in {"HASH_A_CHANGE", "HASH_B_CHANGE"} :
     IF a = "HASH_A_CHANGE" THEN membership[w].hashA # character[w].hashA
                            ELSE membership[w].hashB # character[w].hashB}

\* mutant: who changed its hash leaves an accurate block as well
LoadBlockIgnoringCollision(w) ==
  /\ pc[w] = "block"
  /\ LET block == membership[w].block
     IN /\ collision' = [collision EXCEPT ![w] = blocks[block].isCollision]
        /\ Goto(w, IF character[w].hashB # block THEN "leave"
                   ELSE IF HashChanges(w) = {} THEN "touch" ELSE "update")
  /\ UNCHANGED <<tables, jobs, task, character, membership, tx, others, faults>>

\* a collision block keeps the members that still have its anchor, an accurate
\* block keeps them all, and a membership whose block is gone counts for none
LoadBlock(w) ==
  /\ pc[w] = "block"
  /\ LET block == membership[w].block
         isGone == blocks[block] = NoRow
         isCollision == ~isGone /\ blocks[block].isCollision
     IN /\ collision' = [collision EXCEPT ![w] = isCollision]
        /\ membership' = [membership EXCEPT ![w] = IF isGone THEN NoRow ELSE @]
        /\ Goto(w, IF isGone THEN "place"
                   ELSE IF isCollision /\ character[w].hashB # block THEN "leave"
                   ELSE IF HashChanges(w) = {} THEN "touch" ELSE "update")
  /\ UNCHANGED <<tables, jobs, task, character, tx, others, faults>>

-----------------------------------------------------------------------------
(* The transactions                                                        *)

\* handleAccurateBlock without a change: only lastSeenAt is written
Touch(w) ==
  /\ pc[w] = "touch"
  /\ WaitsFor(w) = {}
  /\ Release(w, "completed")
  /\ UNCHANGED <<tables, attempts, faults>>

\* a statement of the transaction returned: the transaction is t now
Proceed(w, t, step) ==
  /\ tx' = [tx EXCEPT ![w] = t]
  /\ Goto(w, step)
  /\ UNCHANGED <<tables, jobs, task, reads, others, faults>>

\* mutant: the row is written, the log is not
WrittenUnlogged(w, row, block, actions) == [tx[w] EXCEPT !.members[task[w]] = row]

\* what the transaction is once it wrote the task's row and logged the actions
Written(w, row, block, actions) ==
  [tx[w] EXCEPT !.members[task[w]] = row,
                !.logs = @ \cup {[action |-> a, block |-> block, chars |-> {task[w]}] : a \in actions}]

\* handleAccurateBlock: the member, were it not gone, follows its character's
\* hashes, and stays
UpdateMember(w) ==
  /\ pc[w] = "update"
  /\ WaitsFor(w) = {}
  /\ LET block == membership[w].block
         row == IF members[task[w]] = NoRow THEN Unwritten
                ELSE [members[task[w]] EXCEPT !.hashA = character[w].hashA,
                                              !.hashB = character[w].hashB]
     IN Proceed(w, Recomputing(Written(w, row, block, HashChanges(w)), block, "commit"),
                "recompute")

\* handleCollisionDivergence, processLeave
Leave(w) ==
  /\ pc[w] = "leave"
  /\ WaitsFor(w) = {}
  /\ LET block == membership[w].block
     IN Proceed(w, Recomputing(Written(w, NoRow, block, {"MIGRATE"}), block, "place"),
                "recompute")

\* findAccurateBlockByHashValue
Place(w) ==
  /\ pc[w] = "place"
  /\ LET found == BlocksSeen(tx[w])[character[w].hashB]
     IN Goto(w, IF found # NoRow /\ ~found.isCollision THEN "join" ELSE "genesis")
  /\ UNCHANGED <<tables, jobs, task, reads, tx, others, faults>>

MemberOf(h, hashes) == [block |-> h, hashA |-> hashes.hashA, hashB |-> hashes.hashB,
                        isConfirmed |-> FALSE]

\* processJoin
Join(w) ==
  /\ pc[w] = "join"
  /\ WaitsFor(w) = {}
  /\ MembersSeen(tx[w])[task[w]] = NoRow
  /\ LET block == character[w].hashB
         row == MemberOf(block, character[w])
     IN Proceed(w, Recomputing(Written(w, row, block, {"JOIN"}), block, "commit"), "recompute")

\* processGenesis: the block's own row
Genesis(w) ==
  /\ pc[w] = "genesis"
  /\ WaitsFor(w) = {}
  /\ BlocksSeen(tx[w])[character[w].hashB] = NoRow
  /\ Proceed(w, [tx[w] EXCEPT !.blocks[character[w].hashB] = Stats(0, 0)], "candidates")

FoundingRows(h) == [c \in Candidates(h) |-> MemberOf(h, characters[c])]

Founded(w, rows) ==
  Recomputing([tx[w] EXCEPT
                 !.members = [c \in Char |-> IF c \in DOMAIN rows THEN rows[c] ELSE @[c]],
                 !.logs = @ \cup {[action |-> "GENESIS", block |-> character[w].hashB,
                                   chars |-> DOMAIN rows]}],
              character[w].hashB, "commit")

\* mutant: the memberships are saved with the repository, not with the transaction's manager
GenesisMembersOutsideTransaction(w) ==
  /\ pc[w] = "candidates"
  /\ LET rows == FoundingRows(character[w].hashB)
     IN /\ \A c \in DOMAIN rows : members[c] = NoRow
        /\ members' = [c \in Char |-> IF c \in DOMAIN rows THEN rows[c] ELSE members[c]]
        /\ tx' = [tx EXCEPT ![w] = Founded(w, rows)]
  /\ Goto(w, "recompute")
  /\ UNCHANGED <<blocks, logs, jobs, task, reads, others, faults>>

\* mutant: an upsert takes candidates out of the blocks they are in
GenesisMembersUpserted(w) ==
  /\ pc[w] = "candidates"
  /\ WaitsFor(w) = {}
  /\ Proceed(w, Founded(w, FoundingRows(character[w].hashB)), "recompute")

\* processGenesis: a membership for every character that has the hash now
GenesisMembers(w) ==
  /\ pc[w] = "candidates"
  /\ WaitsFor(w) = {}
  /\ \A c \in Candidates(character[w].hashB) : MembersSeen(tx[w])[c] = NoRow
  /\ Proceed(w, Founded(w, FoundingRows(character[w].hashB)), "recompute")

\* recomputeBlockState of the block the character left: the transaction goes on
RecomputeLeft(w) ==
  /\ pc[w] = "recompute"
  /\ tx[w].next = "place"
  /\ WaitsFor(w) = {}
  /\ Proceed(w, Recomputed(tx[w]), "place")

\* recomputeBlockState of the last block, and COMMIT
Commit(w) ==
  /\ pc[w] = "recompute"
  /\ tx[w].next = "commit"
  /\ WaitsFor(w) = {}
  /\ LET done == Recomputed(tx[w])
     IN /\ members' = Overlay(done.members, members)
        /\ blocks' = Overlay(done.blocks, blocks)
        /\ logs' = logs \cup done.logs
  /\ Release(w, "completed")
  /\ UNCHANGED <<attempts, faults>>

-----------------------------------------------------------------------------
(* Failures                                                                *)

\* an insert meets a row another transaction committed under the same key
UniqueViolation(w) ==
  /\ WaitsFor(w) = {}
  /\ \/ pc[w] = "join" /\ MembersSeen(tx[w])[task[w]] # NoRow
     \/ pc[w] = "genesis" /\ BlocksSeen(tx[w])[character[w].hashB] # NoRow
     \/ /\ pc[w] = "candidates"
        /\ \E c \in Candidates(character[w].hashB) : MembersSeen(tx[w])[c] # NoRow
  /\ Fail(w)
  /\ UNCHANGED faults

\* PostgreSQL breaks a cycle of waiting transactions
DeadlockVictim(w) ==
  /\ Deadlocked(w)
  /\ Fail(w)
  /\ UNCHANGED faults

Fault(w) ==
  /\ pc[w] # "idle"
  /\ faults < MaxFaults
  /\ faults' = faults + 1

\* a query fails (connection lost, statement timeout)
QueryError(w) == Fault(w) /\ Fail(w)

\* the process dies: the job stalls and is given to another worker
Crash(w) == Fault(w) /\ Release(w, "waiting") /\ UNCHANGED <<tables, attempts>>

-----------------------------------------------------------------------------
(* runBackfill, beside the workers that already run                        *)

\* a group nobody is in any more, or that has its block by now, is skipped
BackfillNext(h) ==
  /\ backfill.group = NoHash
  /\ h \in backfill.todo
  /\ backfill' = [todo |-> backfill.todo \ {h},
                  group |-> IF Candidates(h) = {} \/ blocks[h] # NoRow THEN NoHash ELSE h]
  /\ UNCHANGED <<tables, jobs, pc, task, reads, tx, characters, refreshes, faults>>

\* nobody holds what the group's transaction inserts
BackfillUnblocked(h) ==
  \A w \in Worker : Candidates(h) \cap HeldMembers(w) = {} /\ h \notin HeldBlocks(w)

BackfillConflict(h) ==
  blocks[h] # NoRow \/ \E c \in Candidates(h) : members[c] # NoRow

\* the group's transaction: the block, its founders, the log and recomputeBlockState
BackfillGroup(h) ==
  /\ backfill.group = h
  /\ BackfillUnblocked(h)
  /\ ~BackfillConflict(h)
  /\ LET rows == [c \in Char |-> IF c \in Candidates(h) THEN MemberOf(h, characters[c])
                                                        ELSE members[c]]
         confirmed == Corroborated(h, rows)
     IN /\ members' = [c \in Char |-> IF c \in confirmed
                                        THEN [rows[c] EXCEPT !.isConfirmed = TRUE] ELSE rows[c]]
        /\ blocks' = [blocks EXCEPT ![h] =
                        Stats(Cardinality(Candidates(h)), Cardinality(confirmed))]
  /\ logs' = logs \cup {[action |-> "GENESIS", block |-> h, chars |-> Candidates(h)]}
  /\ backfill' = [backfill EXCEPT !.group = NoHash]
  /\ UNCHANGED <<jobs, pc, task, reads, tx, characters, refreshes, faults>>

\* one group's failure ends the whole backfill: bootstrap catches and logs it
BackfillFails(h) ==
  /\ backfill.group = h
  /\ BackfillUnblocked(h)
  /\ BackfillConflict(h)
  /\ backfill' = [todo |-> {}, group |-> NoHash]
  /\ UNCHANGED <<tables, jobs, pc, task, reads, tx, characters, refreshes, faults>>

-----------------------------------------------------------------------------
\* one statement of a worker's job
Statement(w) ==
  \/ ReadCharacter(w) \/ LoadMember(w) \/ LoadBlock(w)
  \/ Touch(w) \/ UpdateMember(w) \/ Leave(w) \/ Place(w) \/ Join(w)
  \/ Genesis(w) \/ GenesisMembers(w) \/ RecomputeLeft(w) \/ Commit(w)
  \/ UniqueViolation(w) \/ DeadlockVictim(w)

Backfill(h) == BackfillNext(h) \/ BackfillGroup(h) \/ BackfillFails(h)

Next ==
  \/ \E c \in Char, a \in HashA \cup {NoHash}, b \in HashB : Refresh(c, a, b)
  \/ \E c \in Char : Evict(c)
  \/ \E w \in Worker, c \in Char : Take(w, c)
  \/ \E w \in Worker : Statement(w) \/ QueryError(w) \/ Crash(w)
  \/ \E h \in HashB : Backfill(h)

Spec == Init /\ [][Next]_vars

\* BullMQ gives waiting jobs to idle workers, a statement that need not wait
\* returns, and the backfill loop goes on; refreshes, faults and evictions are
\* not promised
Fairness ==
  /\ \A w \in Worker : WF_vars(Statement(w)) /\ WF_vars(\E c \in Char : Take(w, c))
  /\ \A h \in HashB : WF_vars(Backfill(h))

FairSpec == Spec /\ Fairness

-----------------------------------------------------------------------------
(* Properties                                                              *)

Transaction == [members : [Char -> MemberRow \cup {NoRow, Unwritten}],
                blocks : [HashB -> BlockRow \cup {Unwritten}],
                logs : SUBSET LogRow, target : HashB \cup {NoHash},
                rows : SUBSET Char, confirmed : SUBSET Char, next : {"place", "commit"}]

\* Every table, queue record and worker holds values of its type; in
\* particular the transactions of the service never write an ill-formed row.
TypeOK ==
  /\ characters \in [Char -> CharacterRow]
  /\ blocks \in [HashB -> BlockRow \cup {NoRow}]
  /\ members \in [Char -> MemberRow \cup {NoRow}]
  /\ logs \in SUBSET LogRow
  /\ queue \in [Char -> {"absent", "waiting", "active", "completed", "failed"}]
  /\ attempts \in [Char -> Nat]
  /\ pc \in [Worker -> {"idle", "character", "member", "block", "touch", "update", "leave",
                        "place", "join", "genesis", "candidates", "recompute"}]
  /\ task \in [Worker -> Char \cup {NoRow}]
  /\ character \in [Worker -> CharacterRow]
  /\ membership \in [Worker -> MemberRow \cup {NoRow}]
  /\ collision \in [Worker -> BOOLEAN]
  /\ tx \in [Worker -> Transaction]
  /\ backfill \in [todo : SUBSET HashB, group : HashB \cup {NoHash}]
  /\ refreshes \in Nat
  /\ faults \in Nat

\* block_id is a plain column without a foreign key: still, no committed
\* membership names a block that is not there, whichever transactions of other
\* workers and of the backfill founded blocks, failed or died in between.
MembersHaveBlocks == \A c \in Char : members[c] # NoRow => blocks[members[c].block] # NoRow

\* two versions of a membership that differ at most in isConfirmed
SameMember(r, s) == /\ r # NoRow /\ s # NoRow
                    /\ r.block = s.block /\ r.hashA = s.hashA /\ r.hashB = s.hashB

\* The membership a job read before its transaction is still that character's
\* membership, in that block, when the transaction updates or deletes it by id:
\* no genesis, backfill or recomputation of another job replaces it meanwhile.
ReadMembershipHolds ==
  \A w \in Worker : membership[w] # NoRow => SameMember(members[task[w]], membership[w])

Logged(c, h, entries) ==
  \E l \in entries : l.action \in {"GENESIS", "JOIN"} /\ l.block = h /\ c \in l.chars

\* Membership and history agree: a character is in a block only if the log
\* says that it joined the block or founded it.
MembershipIsLogged ==
  \A c \in Char : members[c] # NoRow => Logged(c, members[c].block, logs)

Moves(c) == members[c] # NoRow /\ (members'[c] = NoRow \/ members'[c].block # members[c].block)

LeavesCollision(c) ==
  /\ \E w \in Worker : task[w] = c /\ collision[w] /\ membership[w].block = members[c].block
  /\ [action |-> "MIGRATE", block |-> members[c].block, chars |-> {c}] \in logs'

\* A committed membership ends or moves only by a job of that very character
\* that read its block as a collision block, and the move is logged.
LeavesOnlyAsCollision == [][\A c \in Char : Moves(c) => LeavesCollision(c)]_vars

\* Every job ends, however the transactions wait for each other.
EveryJobEnds == \A c \in Char : queue[c] = "waiting" ~> queue[c] \in {"completed", "failed"}

\* nothing is queued, running or being backfilled
Quiet == /\ \A c \in Char : queue[c] \notin {"waiting", "active"}
         /\ backfill = [todo |-> {}, group |-> NoHash]

\* When the jobs are done, memberships carry the persisted hashes
\* (libs/resources/src/queues/hash.queue.ts:5-6: "to keep hash-block membership
\* and history in sync with the persisted character hashA/hashB values").
MembershipInSync ==
  Quiet => \A c \in Char : members[c] # NoRow =>
             /\ members[c].hashA = characters[c].hashA
             /\ members[c].hashB = characters[c].hashB

\* A character whose job is given up on is in a block all the same, where no
\* query failed: the same comment, for the characters that are in no block.
GivenUpIsPlaced ==
  faults = 0 => \A c \in Char : queue[c] = "failed" => members[c] # NoRow

-----------------------------------------------------------------------------
(* The inductive invariant of the properties about memberships             *)

\* a busy worker runs the active job of a character nobody else has
JobsAreOwned ==
  /\ \A w \in Worker : pc[w] = "idle" <=> task[w] = NoRow
  /\ \A w \in Worker : task[w] # NoRow => queue[task[w]] = "active"
  /\ \A v, w \in Worker : v # w /\ task[v] # NoRow => task[v] # task[w]

\* only characters with a hash are reconciled
QueuedHaveHash ==
  /\ \A c \in Char : queue[c] # "absent" => characters[c].hashB \in HashB
  /\ \A w \in Worker : pc[w] \notin {"idle", "character"} => character[w].hashB \in HashB

\* the block is there, for the transaction t at least
HasBlock(t, h) == t.blocks[h] # Unwritten \/ blocks[h] # NoRow

\* what a worker has read, and what its transaction has got, at each statement
StepInOrder(w) ==
  /\ pc[w] \in {"idle", "character", "member"} => membership[w] = NoRow
  /\ pc[w] \in {"block", "touch", "update", "leave"} => membership[w] # NoRow
  /\ pc[w] \in {"idle", "character", "member", "block", "touch", "update", "leave"} =>
       tx[w] = NoTx
  /\ pc[w] = "leave" => collision[w]
  /\ pc[w] \in {"join", "candidates"} => HasBlock(tx[w], character[w].hashB)
  /\ pc[w] = "recompute" => tx[w].target \in HashB

StepsInOrder == \A w \in Worker : StepInOrder(w)

\* a row has at most one writer
WritersExclude ==
  \A v, w \in Worker : v # w => HeldMembers(v) \cap HeldMembers(w) = {}

\* the transaction t took the worker's character out of a collision block
Left(w, t) ==
  /\ collision[w]
  /\ membership[w] # NoRow
  /\ membership[w].block = members[task[w]].block
  /\ [action |-> "MIGRATE", block |-> membership[w].block, chars |-> {task[w]}] \in t.logs

KeepsBlock(r, s) == r # NoRow /\ r.block = s.block

\* of a character that has a membership, a job of another character writes
\* isConfirmed only, its own job moves it out of a collision block only, and
\* every row the transaction will commit has its block and its log entry
Committable(w, t) ==
  \A c \in Char : t.members[c] # Unwritten =>
    /\ c # task[w] /\ members[c] # NoRow => SameMember(t.members[c], members[c])
    /\ c = task[w] /\ members[c] # NoRow =>
         Left(w, t) \/ KeepsBlock(t.members[c], members[c])
    /\ t.members[c] # NoRow => /\ HasBlock(t, t.members[c].block)
                               /\ Logged(c, t.members[c].block, logs \cup t.logs)

TransactionsCommittable == \A w \in Worker : Committable(w, tx[w])

\* Whatever the workers and the backfill do at the same time, memberships stay
\* grounded: a row has one writer, and each transaction may commit what it wrote.
Inv ==
  /\ JobsAreOwned /\ QueuedHaveHash /\ StepsInOrder
  /\ WritersExclude /\ TransactionsCommittable
  /\ ReadMembershipHolds /\ MembersHaveBlocks /\ MembershipIsLogged
=============================================================================
