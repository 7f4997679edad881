------------------------------ MODULE Overlaps ------------------------------
(***************************************************************************)
(* What hash blocks promise although their jobs run five at a time.         *)
(*                                                                         *)
(* recomputeBlockState counts the members that its transaction sees, and   *)
(* the flag isCollision is read before the transaction: two jobs on one    *)
(* block can spoil each other's result.  This module adds to HashBlocks    *)
(* the history that says where that may have happened, and states what     *)
(* holds everywhere else.  The variables are observed only: no action of   *)
(* HashBlocks looks at them.                                               *)
(***************************************************************************)
EXTENDS HashBlocks

VARIABLES
  disturbed,  \* of each worker's open transaction, the blocks another one concerned with it
  suspect,    \* blocks whose last counters were committed by a transaction disturbed there
  overtaken   \* workers since whose read of the flag another transaction concerned the block

history == <<disturbed, suspect, overtaken>>

-----------------------------------------------------------------------------
\* The row is not one of the block's.
IsOutside(h, row) == row = NoRow \/ row.block # h

\* The blocks that the worker's open transaction concerns: those it wrote or
\* recomputes, and those that a row it wrote is taken from or put into.
Concerned(w) ==
  {h \in HashB : \/ tx[w].blocks[h] # Unwritten \/ tx[w].target = h
                 \/ \E c \in HeldMembers(w) : ~IsOutside(h, members[c]) \/ ~IsOutside(h, tx[w].members[c])}

ConcernedByOthers(w) == UNION {Concerned(v) : v \in Worker \ {w}}

\* the blocks whose counters the worker's transaction has computed
Recounted(w) == HeldBlocks(w) \cup {tx[w].target}

\* the transactions of the workers `done` are committed in this step
Observe(done) ==
  /\ disturbed' = [w \in Worker |->
       IF tx'[w] = NoTx THEN {} ELSE disturbed[w] \cup (Concerned(w)' \cap ConcernedByOthers(w)')]
  /\ suspect' = (suspect \ UNION {Recounted(w) : w \in done}) \cup UNION {disturbed[w] : w \in done}
  /\ overtaken' = {w \in Worker : /\ collision[w] /\ collision'[w]
                                  /\ w \in overtaken \/ membership[w].block \in ConcernedByOthers(w)}

ObservedInit ==
  /\ Init
  /\ disturbed = [w \in Worker |-> {}]
  /\ suspect = {}
  /\ overtaken = {}

ObservedNext == Next /\ Observe({w \in Worker : Commit(w)})

ObservedSpec == ObservedInit /\ [][ObservedNext]_<<vars, history>>

-----------------------------------------------------------------------------
(* Properties                                                              *)

\* the counter and the flag of the block are those of its committed members
CountedRight(h) ==
  /\ blocks[h].charactersCount = Cardinality(RowsOf(h, members))
  /\ blocks[h].isCollision = (Cardinality(RowsOf(h, members)) > MaxCharactersPerAccount)

\* isConfirmed says whether another member of the block has the same hashA
\* (libs/resources/src/dto/character/character-response.dto.ts:62), and
\* confirmedCount counts the confirmed members
ConfirmedRight(h) ==
  /\ \A c \in RowsOf(h, members) :
       members[c].isConfirmed <=> \E d \in RowsOf(h, members) \ {c} :
                                     members[c].hashA \in {members[d].hashA} \ {NoHash}
  /\ blocks[h].confirmedCount = Cardinality({c \in RowsOf(h, members) : members[c].isConfirmed})

\* Jobs that overlap on a block can leave it with wrong counters, but nothing else
\* can, and not for good: the counters and flags of all other blocks are right, and
\* those of the block are again once a job has it to itself.  Reads of one job
\* during the transaction of another, rollbacks, dead processes and the backfill
\* do no harm.
StatsExact == \A h \in HashB \ suspect : blocks[h] # NoRow => CountedRight(h)

\* So it is with the confirmations of a block's members and with their number.
ConfirmedExact == \A h \in HashB \ suspect : blocks[h] # NoRow => ConfirmedRight(h)

\* The flag a job read before its transaction goes stale by another job's transaction
\* on that block only: whoever else leaves a block leaves it while it is a collision
\* block, and an accurate block keeps its members.
AccurateKeepsMembers ==
  [][\A c \in Char : Moves(c) => \/ blocks[members[c].block].isCollision
                                 \/ \E w \in overtaken : task[w] = c]_<<vars, history>>

\* When the jobs are done, isConfirmed is right in every block: what the DTO promises.
ConfirmedWhenQuiet == Quiet => \A h \in HashB : blocks[h] # NoRow => ConfirmedRight(h)
=============================================================================
