------------------------------ MODULE ExactTopK ------------------------------
(***************************************************************************)
(* exact_top_k (insights/embeddings/exact_top_k.py): every row's K best    *)
(* other rows, by score and then by position, over the whole catalog.      *)
(*                                                                         *)
(* Rows are cut into blocks.  For each block i in order, one task per      *)
(* block j >= i runs on a thread pool: it folds the scores of (i, j) into  *)
(* the lists of block i and, seen from the other side, of block j.  A      *)
(* task reads the thresholds of a block without its lock, row after row,   *)
(* picks candidates by them, and merges under the lock.  When the tasks of *)
(* block i are done its lists are handed to on_block, and after_block may  *)
(* save the state that a later run resumes from.                           *)
(*                                                                         *)
(* A list is the set of its positions: sorted_lists orders it by the rank  *)
(* that selected it.  A row's threshold is its list's lowest score, or the *)
(* floor while the list is not full, so a threshold read is written as the *)
(* list it was computed from.                                              *)
(*                                                                         *)
(* Init, Next, Spec and TypeOK carry the module's name here, so that the   *)
(* module can be extended beside another one.                              *)
(***************************************************************************)
EXTENDS Integers, FiniteSets

CONSTANTS
    NumRows,     \* vectors.shape[0]
    BlockRows,   \* block_rows
    K,           \* k
    Threads,     \* threads
    Catalogs,    \* the score matrices to consider, each a function of a row and a column
    MaxCrashes   \* bound: runs that die and are run again

Rows == 0 .. NumRows - 1
Blk(r) == r \div BlockRows
Last == Blk(NumRows - 1)
Blocks == 0 .. Last

ASSUME TopKAssumption ==
    /\ NumRows \in Nat \ {0} /\ BlockRows \in Nat \ {0} /\ K \in Nat \ {0}
    /\ Threads \in Nat \ {0} /\ MaxCrashes \in Nat
    /\ Catalogs \subseteq [Rows -> [Rows -> Int]]

VARIABLES
    score,      \* the catalog's scores, fixed for the run
    block,      \* i, the row block whose tasks run; Last + 1 when all have run
    stage,      \* per task j of block i
    read,       \* per task: the rows whose threshold it has read
    stale,      \* per task and row: the list that threshold was computed from
    lists,      \* TopKState: per row, its best positions so far
    seen,       \* history: per row, the positions folded into its list
    emitted,    \* blocks handed to on_block
    handed,     \* per row, the list on_block received
    saved,      \* the checkpoint: next_block and the state (next_block 0 when none)
    crashes

stateVars == <<lists, seen>>
taskVars == <<stage, read, stale>>
outVars == <<emitted, handed>>
topKVars == <<score, block, taskVars, stateVars, outVars, saved, crashes>>

RowsOf(b) == {r \in Rows : Blk(r) = b}

\* _rank_keys: score descending, then position ascending.
Better(r, c, d) == score[r][c] > score[r][d] \/ (score[r][c] = score[r][d] /\ c < d)

\* The K of a pool that fewer than K of the pool are better than.
TopK(r, pool) == {c \in pool : Cardinality({d \in pool : Better(r, d, c)}) < K}

Empty == [r \in Rows |-> {}]

TopKTypeOK ==
    /\ score \in Catalogs
    /\ block \in 0 .. Last + 1
    /\ stage \in [Blocks -> {"queued", "left", "right", "done"}]
    /\ read \in [Blocks -> SUBSET Rows]
    /\ stale \in [Blocks -> [Rows -> SUBSET Rows]]
    /\ lists \in [Rows -> SUBSET Rows]
    /\ seen \in [Rows -> SUBSET Rows]
    /\ emitted \subseteq Blocks
    /\ handed \in [Rows -> SUBSET Rows]
    /\ saved \in [next : 0 .. Last, lists : [Rows -> SUBSET Rows], seen : [Rows -> SUBSET Rows]]
    /\ crashes \in 0 .. MaxCrashes

\* Tasks of the blocks before i are over; those from i on are yet to be taken.
Submitted(i) == [j \in Blocks |-> IF j < i THEN "done" ELSE "queued"]

NothingRead == [j \in Blocks |-> {}]
NoThreshold == [j \in Blocks |-> Empty]

TopKInit ==
    /\ score \in Catalogs
    /\ block = 0
    /\ stage = Submitted(0) /\ read = NothingRead /\ stale = NoThreshold
    /\ lists = Empty /\ seen = Empty
    /\ emitted = {} /\ handed = Empty
    /\ saved = [next |-> 0, lists |-> Empty, seen |-> Empty]
    /\ crashes = 0

-----------------------------------------------------------------------------
(* A task.                                                                   *)

Running == {j \in Blocks : stage[j] \in {"left", "right"}}

\* The rows a task is folding into, and the columns it folds: block i's rows
\* first, then block j's, from the same scores transposed.
Target(j) == IF stage[j] = "left" THEN RowsOf(block) ELSE RowsOf(j)
Columns(j) == IF stage[j] = "left" THEN RowsOf(j) ELSE RowsOf(block)

\* The pool takes the tasks in the order they were submitted.
Start(j) ==
    /\ stage[j] = "queued" /\ block <= Last
    /\ \A k \in Blocks : k < j => stage[k] # "queued"
    /\ Cardinality(Running) < Threads
    /\ stage' = [stage EXCEPT ![j] = "left"]
    /\ UNCHANGED <<score, block, read, stale, stateVars, outVars, saved, crashes>>

\* thresholds[...] = state.thresholds[...], without the lock.
ReadThreshold(j, r) ==
    /\ j \in Running
    /\ r \in Target(j) \ read[j]
    /\ read' = [read EXCEPT ![j] = @ \cup {r}]
    /\ stale' = [stale EXCEPT ![j][r] = lists[r]]
    /\ UNCHANGED <<score, block, stage, stateVars, outVars, saved, crashes>>

\* A row that is not full takes the block's K best with all ties at the cut, a
\* full one every score that reaches the threshold it was read with.  A row is
\* no candidate of its own.
Candidates(r, columns, old) ==
    LET others == columns \ {r}
    IN  IF Cardinality(old) < K
          THEN {c \in others : Cardinality({d \in others : score[r][d] > score[r][c]}) < K}
          ELSE {c \in others : \E d \in old : score[r][c] >= score[r][d]}

\* _update picks its candidates and merges them into old, under the block's lock.
FoldInto(j, old) ==
    /\ j \in Running
    /\ read[j] = Target(j)
    /\ LET pool(r) == old[r] \cup Candidates(r, Columns(j), stale[j][r])
       IN  lists' = [r \in Rows |-> IF r \in Target(j) THEN TopK(r, pool(r)) ELSE lists[r]]
    /\ seen' = [r \in Rows |-> IF r \in Target(j) THEN seen[r] \cup (Columns(j) \ {r}) ELSE seen[r]]
    /\ stage' = [stage EXCEPT ![j] = IF @ = "left" /\ j # block THEN "right" ELSE "done"]
    /\ read' = [read EXCEPT ![j] = {}]
    /\ stale' = [stale EXCEPT ![j] = Empty]
    /\ UNCHANGED <<score, block, outVars, saved, crashes>>

\* Mutation of Fold: merged into the list that was read without the lock.
FoldUnlocked(j) == FoldInto(j, stale[j])

Fold(j) == FoldInto(j, lists)

-----------------------------------------------------------------------------
(* The end of a block.                                                       *)

BlockIsDone == block <= Last /\ \A j \in Blocks : stage[j] = "done"

\* on_block: the block's lists go out.
HandOver ==
    /\ BlockIsDone
    /\ block \notin emitted
    /\ emitted' = emitted \cup {block}
    /\ handed' = [r \in Rows |-> IF Blk(r) = block THEN lists[r] ELSE handed[r]]
    /\ UNCHANGED <<score, block, taskVars, stateVars, saved, crashes>>

EndBlock(maySave, next) ==
    /\ BlockIsDone /\ block \in emitted
    /\ block' = block + 1
    /\ stage' = Submitted(block + 1)
    /\ \/ UNCHANGED saved
       \/ maySave /\ saved' = [next |-> next, lists |-> lists, seen |-> seen]
    /\ UNCHANGED <<score, read, stale, stateVars, outVars, crashes>>

\* Mutation of AfterBlock: the checkpoint names the block after the next.
AfterBlockSavingNext == EndBlock(block + 1 < Last, block + 2)

\* after_block: a checkpoint when the interval has passed, none for the last block.
AfterBlock == EndBlock(block < Last, block + 1)

\* The run dies and is run again, from its checkpoint.  Without one it starts
\* over with nothing handed out; with one, the lists of the blocks from
\* next_block on will be handed out again.
Crash ==
    /\ crashes < MaxCrashes /\ block <= Last
    /\ crashes' = crashes + 1
    /\ block' = saved.next
    /\ stage' = Submitted(saved.next)
    /\ read' = NothingRead /\ stale' = NoThreshold
    /\ lists' = saved.lists /\ seen' = saved.seen
    /\ emitted' = {b \in emitted : b < saved.next}
    /\ handed' = IF saved.next = 0 THEN Empty ELSE handed
    /\ UNCHANGED <<score, saved>>

-----------------------------------------------------------------------------
Work ==
    \/ \E j \in Blocks : Start(j) \/ Fold(j) \/ \E r \in Rows : ReadThreshold(j, r)
    \/ HandOver \/ AfterBlock

Finished == block > Last /\ UNCHANGED topKVars

TopKNext == Work \/ Crash \/ Finished

TopKSpec == TopKInit /\ [][TopKNext]_topKVars

\* The pool's threads run, and the loop waits for nothing but their futures.
TopKFairSpec == TopKSpec /\ WF_topKVars(Work)

-----------------------------------------------------------------------------
(* Properties                                                                *)

(***************************************************************************)
(* Every list handed out is the row's exact K best of the whole catalog,   *)
(* ties included, whatever the order in which tasks read stale thresholds  *)
(* and merged, and through runs resumed from a checkpoint                  *)
(* (docs/similar_artists.md: "The order does not depend on block size,     *)
(* thread count, or the order in which blocks reach a row").               *)
(***************************************************************************)
HandedAreExact ==
    \A r \in Rows : Blk(r) \in emitted => handed[r] = TopK(r, Rows \ {r})

\* The pair of a row of block b and a column of block d has been folded into b.
FoldedInto(b, d) ==
    \/ b < block \/ d < block
    \/ b = block /\ stage[d] \in {"right", "done"} /\ (d = b => stage[d] = "done")
    \/ d = block /\ stage[b] = "done"

(***************************************************************************)
(* Every score is folded into each of its two lists once: a second fold    *)
(* would put a position in a list twice, which the merge does not detect.  *)
(***************************************************************************)
FoldedOnce ==
    \A r \in Rows : seen[r] = {c \in Rows \ {r} : FoldedInto(Blk(r), Blk(c))}

\* Every row's list is handed out, if the run is run again often enough.
EveryBlockIsHandedOut == <>(emitted = Blocks)
=============================================================================
