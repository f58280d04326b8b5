-------------------------- MODULE NeighbourProofs --------------------------
(***************************************************************************)
(* Proofs about the exact nearest neighbours and about the measurement of  *)
(* an index against them: ExactTopK and RecallChurn, which have no state   *)
(* and no constant in common.                                              *)
(*                                                                         *)
(* The lists of ExactTopK are exact for every catalog of integer scores,   *)
(* block size, K and number of threads.                                    *)
(*                                                                         *)
(* The inductive invariant is that a list is the TopK of the positions     *)
(* folded into it, and that a threshold read without the lock is that of   *)
(* the TopK of some of them.  It rests on two facts about TopK: what is    *)
(* left out of a pool may be left out before (MergeIsExact), and a stale   *)
(* threshold leaves out nothing that belongs to the list                   *)
(* (CandidatesSuffice).                                                    *)
(*                                                                         *)
(* RecallChurn, for any versions, any number of parts of a month and any   *)
(* number of deaths: measurements are of what they are reported for, a     *)
(* result is whole and of one version, and the partial one is there before *)
(* the step that may never finish.                                         *)
(***************************************************************************)
EXTENDS ExactTopK, RecallChurn, FiniteSetTheorems, WellFoundedInduction, TLAPS

(***************************************************************************)
(* The rows of a pool that are better than c.                              *)
(***************************************************************************)
Above(r, pool, c) == {d \in pool : Better(r, d, c)}

(***************************************************************************)
(* Blocks are intervals of rows.                                           *)
(***************************************************************************)
LEMMA Division ==
    ASSUME NEW a \in Nat, NEW b \in Nat \ {0}
    PROVE  a \div b \in Nat /\ b * (a \div b) <= a /\ a < b * ((a \div b) + 1)
BY SMT

(***************************************************************************)
(* Every row has a block.                                                  *)
(***************************************************************************)
LEMMA RowsHaveBlocks == Last \in Nat /\ \A r \in Rows : Blk(r) \in Blocks
<1>1. Last \in Nat
  BY TopKAssumption, Division DEF Last, Blk
<1>2. ASSUME NEW r \in Rows PROVE Blk(r) \in Blocks
  <2> DEFINE q == r \div BlockRows
             n == (NumRows - 1) \div BlockRows
  <2>1. r \in Nat /\ r <= NumRows - 1 /\ BlockRows \in Nat \ {0} /\ NumRows - 1 \in Nat
    BY TopKAssumption DEF Rows
  <2>2. q \in Nat /\ n \in Nat /\ BlockRows * q <= r /\ NumRows - 1 < BlockRows * (n + 1)
    BY <2>1, Division
  <2>3. q < n + 1
    <3>1. SUFFICES ASSUME q >= n + 1 PROVE FALSE
      BY <2>2
    <3>2. BlockRows * q >= BlockRows * (n + 1)
      BY <2>1, <2>2, <3>1
    <3> QED
      BY <2>1, <2>2, <3>2
  <2> QED
    BY <2>2, <2>3 DEF Blk, Blocks, Last
<1> QED
  BY <1>1, <1>2

(***************************************************************************)
(* Sets of rows are finite, and a larger one has at least as many rows.    *)
(***************************************************************************)
LEMMA RowsAreFinite ==
    ASSUME NEW S \in SUBSET Rows, NEW T \in SUBSET S
    PROVE  /\ IsFiniteSet(S) /\ Cardinality(S) \in Nat
           /\ IsFiniteSet(T) /\ Cardinality(T) \in Nat
           /\ Cardinality(T) <= Cardinality(S)
<1>1. IsFiniteSet(Rows)
  BY TopKAssumption, FS_Interval DEF Rows
<1>2. IsFiniteSet(S)
  BY <1>1, FS_Subset
<1> QED
  BY <1>2, FS_Subset, FS_CardinalityType

(***************************************************************************)
(* Better is a strict total order of the rows.                             *)
(***************************************************************************)
LEMMA BetterIsAnOrder ==
    ASSUME score \in Catalogs, NEW r \in Rows, NEW a \in Rows, NEW b \in Rows, NEW c \in Rows
    PROVE  /\ ~Better(r, a, a)
           /\ Better(r, a, b) /\ Better(r, b, c) => Better(r, a, c)
           /\ a = b \/ Better(r, a, b) \/ Better(r, b, a)
<1>1. score[r][a] \in Int /\ score[r][b] \in Int /\ score[r][c] \in Int
  BY TopKAssumption
<1>2. a \in Int /\ b \in Int /\ c \in Int
  BY TopKAssumption DEF Rows
<1> QED
  BY <1>1, <1>2 DEF Better

(***************************************************************************)
(* Some row of a set is the best one.                                      *)
(***************************************************************************)
LEMMA SomeRowIsBest ==
    ASSUME score \in Catalogs, NEW r \in Rows, NEW S \in SUBSET Rows, S # {}
    PROVE  \E m \in S : \A d \in S : ~Better(r, d, m)
<1> DEFINE A(c) == Above(r, Rows, c)
           T == {A(c) : c \in S}
<1>1. T \subseteq FiniteSubsetsOf(Rows) /\ T # {}
  BY RowsAreFinite DEF FiniteSubsetsOf, Above
<1>2. IsWellFoundedOn(StrictSubsetOrdering(Rows), FiniteSubsetsOf(Rows))
  BY FS_StrictSubsetOrderingWellFounded
<1>3. \E x \in T : \A y \in T : ~(<<y, x>> \in StrictSubsetOrdering(Rows))
  <2> HIDE DEF T
  <2> QED
    BY <1>1, <1>2, WFMin
<1>4. PICK m \in S : \A d \in S : ~(<<A(d), A(m)>> \in StrictSubsetOrdering(Rows))
  BY <1>3
<1>5. ASSUME NEW d \in S, Better(r, d, m) PROVE FALSE
  <2>1. A(d) \subseteq A(m)
    BY <1>5, BetterIsAnOrder DEF Above
  <2>2. d \in A(m) /\ d \notin A(d)
    BY <1>5, BetterIsAnOrder DEF Above
  <2>3. A(d) \in SUBSET Rows /\ A(m) \in SUBSET Rows /\ A(d) # A(m)
    BY <2>2 DEF Above
  <2> QED
    BY <2>1, <2>3, <1>4 DEF StrictSubsetOrdering
<1> QED
  BY <1>5

-----------------------------------------------------------------------------
(* The operators.                                                            *)

(***************************************************************************)
(* A TopK is part of its pool.                                             *)
(***************************************************************************)
LEMMA TopKOfPool ==
    ASSUME NEW r, NEW pool
    PROVE  /\ TopK(r, pool) \subseteq pool
           /\ \A c \in pool : c \in TopK(r, pool) <=> Cardinality(Above(r, pool, c)) < K
BY DEF TopK, Above

(***************************************************************************)
(* A row that a pool leaves out has K better ones in the pool's TopK.      *)
(***************************************************************************)
LEMMA LeftOutIsCovered ==
    ASSUME score \in Catalogs, NEW r \in Rows, NEW pool \in SUBSET Rows,
           NEW c \in pool \ TopK(r, pool)
    PROVE  Cardinality(Above(r, TopK(r, pool), c)) >= K
<1> DEFINE T == TopK(r, pool)
<1>1. PICK m \in pool \ T : \A d \in pool \ T : ~Better(r, d, m)
  BY SomeRowIsBest
<1>2. Above(r, pool, m) \subseteq T
  BY <1>1 DEF Above
<1>3. Above(r, pool, m) \subseteq Above(r, T, c)
  BY <1>1, <1>2, BetterIsAnOrder DEF Above
<1>4. Cardinality(Above(r, pool, m)) \in Nat /\ Cardinality(Above(r, pool, m)) >= K
  <2>1. Above(r, pool, m) \in SUBSET Rows
    BY DEF Above
  <2> QED
    BY <1>1, <2>1, TopKAssumption, RowsAreFinite, TopKOfPool
<1>5. Above(r, T, c) \in SUBSET Rows
  BY TopKOfPool DEF Above
<1>6. /\ Cardinality(Above(r, T, c)) \in Nat
      /\ Cardinality(Above(r, pool, m)) <= Cardinality(Above(r, T, c))
  BY <1>3, <1>5, RowsAreFinite
<1> QED
  BY <1>4, <1>6, TopKAssumption

(***************************************************************************)
(* _merge: rows may be left out of a pool as long as its TopK stays in it. *)
(***************************************************************************)
LEMMA MergeIsExact ==
    ASSUME score \in Catalogs, NEW r \in Rows, NEW pool \in SUBSET Rows,
           NEW some \in SUBSET pool, TopK(r, pool) \subseteq some
    PROVE  TopK(r, some) = TopK(r, pool)
<1>1. ASSUME NEW c \in TopK(r, pool) PROVE c \in TopK(r, some)
  <2>1. c \in some /\ c \in pool
    BY <1>1, TopKOfPool
  <2>2. Above(r, some, c) \subseteq Above(r, pool, c) /\ Above(r, pool, c) \in SUBSET Rows
    BY DEF Above
  <2>3. Cardinality(Above(r, pool, c)) < K
    BY <1>1, <2>1, TopKOfPool
  <2> QED
    BY <2>1, <2>2, <2>3, TopKAssumption, RowsAreFinite, TopKOfPool
<1>2. ASSUME NEW c \in TopK(r, some), c \notin TopK(r, pool) PROVE FALSE
  <2>1. c \in some /\ c \in pool \ TopK(r, pool)
    BY <1>2, TopKOfPool
  <2>2. Cardinality(Above(r, TopK(r, pool), c)) >= K
    BY <2>1, LeftOutIsCovered
  <2>3. Above(r, TopK(r, pool), c) \subseteq Above(r, some, c) /\ Above(r, some, c) \in SUBSET Rows
    BY DEF Above
  <2>4. Cardinality(Above(r, some, c)) < K
    BY <1>2, <2>1, TopKOfPool
  <2> QED
    BY <2>2, <2>3, <2>4, TopKAssumption, RowsAreFinite
<1> QED
  BY <1>1, <1>2

(***************************************************************************)
(* _update: candidates chosen by a stale threshold, that of the TopK of    *)
(* some of the positions seen so far, leave out nothing that belongs to    *)
(* the list of all of them and the columns.                                *)
(***************************************************************************)
LEMMA CandidatesSuffice ==
    ASSUME score \in Catalogs, NEW r \in Rows, NEW positions \in SUBSET Rows,
           NEW columns \in SUBSET Rows, NEW earlier \in SUBSET positions
    PROVE  TopK(r, TopK(r, positions) \cup Candidates(r, columns, TopK(r, earlier)))
               = TopK(r, positions \cup (columns \ {r}))
<1> DEFINE old == TopK(r, earlier)
           others == columns \ {r}
           all == positions \cup others
           chosen == TopK(r, positions) \cup Candidates(r, columns, old)
<1>1. all \in SUBSET Rows /\ chosen \in SUBSET all
  BY TopKOfPool DEF Candidates
<1>2. ASSUME NEW c \in TopK(r, all) PROVE c \in chosen
  <2>1. c \in all /\ c \in Rows /\ Cardinality(Above(r, all, c)) < K
    BY <1>1, <1>2, TopKOfPool
  <2>2. Above(r, all, c) \in SUBSET Rows
    BY <1>1 DEF Above
  <2>3. CASE c \in positions
    <3>1. Above(r, positions, c) \subseteq Above(r, all, c)
      BY DEF Above
    <3>2. /\ Cardinality(Above(r, positions, c)) \in Nat /\ Cardinality(Above(r, all, c)) \in Nat
          /\ Cardinality(Above(r, positions, c)) <= Cardinality(Above(r, all, c))
      BY <2>2, <3>1, RowsAreFinite
    <3>3. Cardinality(Above(r, positions, c)) < K
      BY <2>1, <3>2, TopKAssumption
    <3> QED
      BY <2>3, <3>3, TopKOfPool
  <2>4. CASE c \in others /\ Cardinality(old) < K
    <3> DEFINE higher == {d \in others : score[r][d] > score[r][c]}
    <3>1. higher \subseteq Above(r, all, c)
      BY DEF Above, Better
    <3>2. /\ Cardinality(higher) \in Nat /\ Cardinality(Above(r, all, c)) \in Nat
          /\ Cardinality(higher) <= Cardinality(Above(r, all, c))
      BY <2>2, <3>1, RowsAreFinite
    <3>3. Cardinality(higher) < K
      BY <2>1, <3>2, TopKAssumption
    <3> QED
      BY <2>4, <3>3 DEF Candidates
  <2>5. CASE c \in others /\ ~(Cardinality(old) < K)
    <3>1. \E d \in old : score[r][c] >= score[r][d]
      <4>1. SUFFICES ASSUME \A d \in old : ~(score[r][c] >= score[r][d]) PROVE FALSE
        OBVIOUS
      <4>2. old \in SUBSET Rows /\ old \subseteq all
        BY TopKOfPool
      <4>3. \A d \in old : score[r][c] \in Int /\ score[r][d] \in Int
        BY <2>1, <4>2, TopKAssumption
      <4>4. old \subseteq Above(r, all, c)
        BY <4>1, <4>2, <4>3 DEF Above, Better
      <4>5. /\ Cardinality(old) \in Nat /\ Cardinality(Above(r, all, c)) \in Nat
            /\ Cardinality(old) <= Cardinality(Above(r, all, c))
        BY <2>2, <4>4, RowsAreFinite
      <4> QED
        BY <2>1, <2>5, <4>5, TopKAssumption
    <3> QED
      BY <2>5, <3>1 DEF Candidates
  <2> QED
    BY <2>1, <2>3, <2>4, <2>5
<1> QED
  BY <1>1, <1>2, MergeIsExact

-----------------------------------------------------------------------------
(* The inductive invariant.                                                  *)

(***************************************************************************)
(* TopK of given scores, to be spoken of before and after a step.          *)
(***************************************************************************)
Best(s, r, pool) ==
    {c \in pool :
        Cardinality({d \in pool : s[r][d] > s[r][c] \/ (s[r][d] = s[r][c] /\ d < c)}) < K}

(* The two ways to write the K best agree. *)
LEMMA TopKIsBest == \A r, pool : TopK(r, pool) = Best(score, r, pool)
BY DEF TopK, Better, Best

(***************************************************************************)
(* Tasks of earlier blocks are over, and a block folds into itself once.   *)
(***************************************************************************)
StagesFit ==
    /\ \A j \in Blocks : j < block => stage[j] = "done"
    /\ block <= Last => stage[block] # "right"

(***************************************************************************)
(* A list is the best of what has been folded into it.                     *)
(***************************************************************************)
ListsAreBest == \A r \in Rows : lists[r] = Best(score, r, seen[r])

(***************************************************************************)
(* A list whose threshold was read is the best of part of it.              *)
(***************************************************************************)
StaleWereBest ==
    \A j \in Blocks : \A r \in read[j] :
        \E earlier \in SUBSET seen[r] : stale[j][r] = Best(score, r, earlier)

(***************************************************************************)
(* The positions a row has seen when blocks 0 .. n - 1 are done.           *)
(***************************************************************************)
SeenBefore(r, n) == {c \in Rows \ {r} : Blk(r) < n \/ Blk(c) < n}

(***************************************************************************)
(* A checkpoint is a state between two blocks.                             *)
(***************************************************************************)
SavedFits ==
    \A r \in Rows :
        /\ saved.seen[r] = SeenBefore(r, saved.next)
        /\ saved.lists[r] = Best(score, r, saved.seen[r])

HandedAreBest == \A r \in Rows : Blk(r) \in emitted => handed[r] = Best(score, r, Rows \ {r})

TopKInv ==
    /\ TopKTypeOK /\ StagesFit /\ FoldedOnce /\ ListsAreBest /\ StaleWereBest /\ SavedFits
    /\ HandedAreBest

(***************************************************************************)
(* At the start of block n, its tasks queued, a row has seen what the      *)
(* blocks before folded into it.                                           *)
(***************************************************************************)
LEMMA StartOfBlock ==
    ASSUME NEW n \in 0 .. Last + 1, block' = n, stage' = Submitted(n),
           \A r \in Rows : seen'[r] = SeenBefore(r, n)
    PROVE  StagesFit' /\ FoldedOnce'
<1>1. StagesFit'
  BY RowsHaveBlocks DEF StagesFit, Submitted, Blocks
<1>2. ASSUME NEW b \in Blocks, NEW d \in Blocks PROVE FoldedInto(b, d)' <=> b < n \/ d < n
  BY RowsHaveBlocks DEF FoldedInto, Submitted, Blocks
<1> QED
  BY <1>1, <1>2, RowsHaveBlocks DEF FoldedOnce, SeenBefore

(***************************************************************************)
(* When all tasks of a block are done, its rows have seen all the others,  *)
(* and every row has seen what a checkpoint for the next block expects.    *)
(***************************************************************************)
LEMMA EndOfBlock ==
    ASSUME TopKInv, BlockIsDone
    PROVE  /\ \A r \in Rows : seen[r] = SeenBefore(r, block + 1)
           /\ \A r \in Rows : Blk(r) = block => seen[r] = Rows \ {r}
<1>1. ASSUME NEW b \in Blocks, NEW d \in Blocks
      PROVE  FoldedInto(b, d) <=> b < block + 1 \/ d < block + 1
  BY RowsHaveBlocks DEF TopKInv, TopKTypeOK, BlockIsDone, FoldedInto, Blocks
<1>2. \A r \in Rows : seen[r] = SeenBefore(r, block + 1)
  BY <1>1, RowsHaveBlocks DEF TopKInv, FoldedOnce, SeenBefore
<1> QED
  BY <1>2, RowsHaveBlocks DEF SeenBefore, Blocks

(* The initial states. *)
LEMMA InitHolds == TopKInit => TopKInv
<1> SUFFICES ASSUME TopKInit PROVE TopKInv
  OBVIOUS
<1>1. TopKTypeOK
  BY TopKAssumption, RowsHaveBlocks
     DEF TopKInit, TopKTypeOK, Submitted, NothingRead, NoThreshold, Empty, Blocks
<1>2. \A r \in Rows : SeenBefore(r, 0) = {}
  BY RowsHaveBlocks DEF SeenBefore, Blocks
<1>3. \A b \in Blocks, d \in Blocks : ~FoldedInto(b, d)
  BY RowsHaveBlocks DEF TopKInit, FoldedInto, Submitted, Blocks
<1>4. FoldedOnce
  BY <1>3, RowsHaveBlocks DEF FoldedOnce, TopKInit, Empty
<1>5. StagesFit
  BY RowsHaveBlocks DEF StagesFit, TopKInit, Submitted, Blocks
<1>6. \A r : Best(score, r, {}) = {}
  BY DEF Best
<1>7. ListsAreBest /\ StaleWereBest /\ SavedFits /\ HandedAreBest
  BY <1>2, <1>6
     DEF TopKInit, ListsAreBest, StaleWereBest, SavedFits, HandedAreBest, Empty, NothingRead,
          NoThreshold
<1> QED
  BY <1>1, <1>4, <1>5, <1>7 DEF TopKInv

-----------------------------------------------------------------------------
(* The steps.                                                                *)

(***************************************************************************)
(* A task that begins has folded nothing.                                  *)
(***************************************************************************)
LEMMA StartKeeps ==
    ASSUME TopKInv, NEW j \in Blocks, Start(j) PROVE TopKInv'
<1>1. TopKTypeOK'
  BY DEF TopKInv, TopKTypeOK, Start, stateVars, outVars
<1>2. StagesFit'
  BY DEF TopKInv, TopKTypeOK, StagesFit, Start
<1>3. \A b \in Blocks, d \in Blocks : FoldedInto(b, d)' <=> FoldedInto(b, d)
  BY DEF TopKInv, TopKTypeOK, FoldedInto, Start
<1>4. FoldedOnce'
  BY <1>3, RowsHaveBlocks DEF TopKInv, FoldedOnce, Start, stateVars
<1>5. ListsAreBest' /\ StaleWereBest' /\ SavedFits' /\ HandedAreBest'
  BY DEF TopKInv, ListsAreBest, StaleWereBest, SavedFits, HandedAreBest, SeenBefore,
         Start, stateVars, outVars
<1> QED
  BY <1>1, <1>2, <1>4, <1>5 DEF TopKInv

(***************************************************************************)
(* A list that is read is the best of what it has been folded from.        *)
(***************************************************************************)
LEMMA ReadThresholdKeeps ==
    ASSUME TopKInv, NEW j \in Blocks, NEW r \in Rows, ReadThreshold(j, r) PROVE TopKInv'
<1>1. TopKTypeOK'
  BY DEF TopKInv, TopKTypeOK, ReadThreshold, stateVars, outVars
<1>2. StagesFit' /\ FoldedOnce'
  BY DEF TopKInv, StagesFit, FoldedOnce, FoldedInto, ReadThreshold, stateVars
<1>3. StaleWereBest'
  <2> SUFFICES ASSUME NEW i \in Blocks, NEW q \in read'[i]
               PROVE  \E earlier \in SUBSET seen'[q] : stale'[i][q] = Best(score', q, earlier)
    BY DEF StaleWereBest
  <2>1. CASE i = j /\ q = r
    <3>1. stale'[i][q] = lists[q] /\ seen' = seen /\ score' = score
      BY <2>1 DEF TopKInv, TopKTypeOK, ReadThreshold, stateVars
    <3>2. lists[q] = Best(score, q, seen[q])
      BY <2>1 DEF TopKInv, ListsAreBest
    <3> QED
      BY <3>1, <3>2
  <2>2. CASE ~(i = j /\ q = r)
    <3>1. q \in read[i] /\ q \in Rows /\ stale'[i][q] = stale[i][q]
      BY <2>2 DEF TopKInv, TopKTypeOK, ReadThreshold
    <3>2. seen' = seen /\ score' = score
      BY DEF ReadThreshold, stateVars
    <3> QED
      BY <3>1, <3>2 DEF TopKInv, StaleWereBest
  <2> QED
    BY <2>1, <2>2
<1>4. ListsAreBest' /\ SavedFits' /\ HandedAreBest'
  BY DEF TopKInv, ListsAreBest, SavedFits, HandedAreBest, SeenBefore,
         ReadThreshold, stateVars, outVars
<1> QED
  BY <1>1, <1>2, <1>3, <1>4 DEF TopKInv

(***************************************************************************)
(* The rows a task folds into see the columns it folds, and no others.     *)
(***************************************************************************)
LEMMA FoldIsOnce ==
    ASSUME TopKInv, NEW j \in Blocks, Fold(j) PROVE StagesFit' /\ FoldedOnce'
<1> USE DEF TopKInv
<1>1. /\ stage[j] \in {"left", "right"} /\ j >= block /\ block \in Blocks
      /\ block' = block
      /\ stage[j] = "right" => j # block
      /\ stage' = [stage EXCEPT ![j] = IF @ = "left" /\ j # block THEN "right" ELSE "done"]
  BY RowsHaveBlocks DEF TopKTypeOK, StagesFit, Fold, FoldInto, Running, Blocks
<1>2. StagesFit'
  BY <1>1 DEF TopKTypeOK, StagesFit, Blocks
<1>3. ASSUME NEW b \in Blocks, NEW d \in Blocks
      PROVE  FoldedInto(b, d)' <=>
                \/ FoldedInto(b, d)
                \/ stage[j] = "left" /\ b = block /\ d = j
                \/ stage[j] = "right" /\ b = j /\ d = block
  BY <1>1 DEF TopKTypeOK, FoldedInto, Blocks
<1>4. ASSUME NEW r \in Rows
      PROVE  seen'[r] = seen[r] \cup
                {c \in Rows \ {r} : \/ stage[j] = "left" /\ Blk(r) = block /\ Blk(c) = j
                                    \/ stage[j] = "right" /\ Blk(r) = j /\ Blk(c) = block}
  BY <1>1 DEF Fold, FoldInto, Target, Columns, RowsOf
<1>5. FoldedOnce'
  <2> SUFFICES ASSUME NEW r \in Rows
               PROVE  seen'[r] = {c \in Rows \ {r} : FoldedInto(Blk(r), Blk(c))'}
    BY DEF FoldedOnce
  <2>1. seen[r] = {c \in Rows \ {r} : FoldedInto(Blk(r), Blk(c))}
    BY DEF FoldedOnce
  <2> QED
    BY <1>3, <1>4, <2>1, RowsHaveBlocks
<1> QED
  BY <1>2, <1>5

(***************************************************************************)
(* A task merges by thresholds that others may have raised since.          *)
(***************************************************************************)
LEMMA FoldKeeps ==
    ASSUME TopKInv, NEW j \in Blocks, Fold(j) PROVE TopKInv'
<1>1. StagesFit' /\ FoldedOnce'
  BY FoldIsOnce
<1>2. /\ score' = score /\ score \in Catalogs /\ read[j] = Target(j)
      /\ Target(j) \in SUBSET Rows /\ Columns(j) \in SUBSET Rows
      /\ \A r \in Rows :
            /\ seen[r] \in SUBSET Rows
            /\ lists'[r] = IF r \in Target(j)
                           THEN TopK(r, lists[r] \cup Candidates(r, Columns(j), stale[j][r]))
                           ELSE lists[r]
            /\ seen'[r] = IF r \in Target(j) THEN seen[r] \cup (Columns(j) \ {r}) ELSE seen[r]
  BY DEF TopKInv, TopKTypeOK, Fold, FoldInto, Target, Columns, RowsOf
<1>3. ListsAreBest'
  <2> SUFFICES ASSUME NEW r \in Rows PROVE lists'[r] = Best(score', r, seen'[r])
    BY DEF ListsAreBest
  <2>1. lists[r] = TopK(r, seen[r])
    BY TopKIsBest DEF TopKInv, ListsAreBest
  <2>2. CASE r \notin Target(j)
    BY <1>2, <2>1, <2>2, TopKIsBest
  <2>3. CASE r \in Target(j)
    <3>1. PICK earlier \in SUBSET seen[r] : stale[j][r] = TopK(r, earlier)
      BY <1>2, <2>3, TopKIsBest DEF TopKInv, StaleWereBest
    <3>2. lists'[r] = TopK(r, TopK(r, seen[r]) \cup Candidates(r, Columns(j), TopK(r, earlier)))
      BY <1>2, <2>1, <2>3, <3>1
    <3>3. /\ score \in Catalogs /\ r \in Rows /\ seen[r] \in SUBSET Rows
          /\ Columns(j) \in SUBSET Rows /\ earlier \in SUBSET seen[r]
      BY <1>2, <3>1
    <3>4. TopK(r, TopK(r, seen[r]) \cup Candidates(r, Columns(j), TopK(r, earlier)))
              = TopK(r, seen[r] \cup (Columns(j) \ {r}))
      BY <3>3, CandidatesSuffice
    <3>5. lists'[r] = TopK(r, seen'[r])
      BY <1>2, <2>3, <3>2, <3>4, Zenon
    <3>6. TopK(r, seen'[r]) = Best(score, r, seen'[r])
      BY TopKIsBest, Zenon
    <3> QED
      BY <1>2, <3>5, <3>6, Zenon
  <2> QED
    BY <2>2, <2>3
<1>4. StaleWereBest'
  <2> SUFFICES ASSUME NEW i \in Blocks, NEW q \in read'[i]
               PROVE  \E earlier \in SUBSET seen'[q] : stale'[i][q] = Best(score', q, earlier)
    BY DEF StaleWereBest
  <2>1. i # j /\ read'[i] = read[i] /\ stale'[i] = stale[i] /\ q \in Rows
    BY DEF TopKInv, TopKTypeOK, Fold, FoldInto
  <2>2. seen[q] \subseteq seen'[q]
    BY <1>2, <2>1
  <2> QED
    BY <1>2, <2>1, <2>2 DEF TopKInv, StaleWereBest
<1>5. TopKTypeOK'
  <2>1. lists' \in [Rows -> SUBSET Rows]
    <3>1. \A r \in Rows : Best(score', r, seen'[r]) \subseteq seen'[r] /\ seen'[r] \subseteq Rows
      BY <1>2 DEF Best
    <3>2. \A r \in Rows : lists'[r] \in SUBSET Rows
      BY <1>3, <3>1 DEF ListsAreBest
    <3> QED
      BY <3>2 DEF Fold, FoldInto
  <2>2. seen' \in [Rows -> SUBSET Rows]
    BY <1>2 DEF Fold, FoldInto
  <2>3. /\ stage' \in [Blocks -> {"queued", "left", "right", "done"}]
        /\ read' \in [Blocks -> SUBSET Rows]
        /\ stale' \in [Blocks -> [Rows -> SUBSET Rows]]
    BY DEF TopKInv, TopKTypeOK, Fold, FoldInto, Empty
  <2> QED
    BY <2>1, <2>2, <2>3 DEF TopKInv, TopKTypeOK, Fold, FoldInto, outVars
<1>6. SavedFits' /\ HandedAreBest'
  BY DEF TopKInv, SavedFits, HandedAreBest, SeenBefore, Fold, FoldInto, outVars
<1> QED
  BY <1>1, <1>3, <1>4, <1>5, <1>6 DEF TopKInv

(***************************************************************************)
(* The lists of a block that is done have met every other row.             *)
(***************************************************************************)
LEMMA HandOverKeeps ==
    ASSUME TopKInv, HandOver PROVE TopKInv'
<1>1. TopKTypeOK'
  BY RowsHaveBlocks DEF TopKInv, TopKTypeOK, HandOver, BlockIsDone, Blocks, taskVars, stateVars
<1>2. StagesFit' /\ FoldedOnce' /\ ListsAreBest' /\ StaleWereBest' /\ SavedFits'
  BY DEF TopKInv, StagesFit, FoldedOnce, FoldedInto, ListsAreBest, StaleWereBest, SavedFits,
         SeenBefore, HandOver, taskVars, stateVars
<1>3. ASSUME NEW r \in Rows, Blk(r) \in emitted' PROVE handed'[r] = Best(score', r, Rows \ {r})
  <2>1. CASE Blk(r) = block
    <3>1. handed'[r] = lists[r] /\ score' = score
      BY <2>1 DEF HandOver
    <3>2. seen[r] = Rows \ {r}
      BY <2>1, EndOfBlock DEF HandOver
    <3> QED
      BY <3>1, <3>2 DEF TopKInv, ListsAreBest
  <2>2. CASE Blk(r) # block
    BY <1>3, <2>2 DEF TopKInv, HandedAreBest, HandOver
  <2> QED
    BY <2>1, <2>2
<1> QED
  BY <1>1, <1>2, <1>3 DEF TopKInv, HandedAreBest

(***************************************************************************)
(* The checkpoint of a block is the state in which the next one begins.    *)
(***************************************************************************)
LEMMA AfterBlockKeeps ==
    ASSUME TopKInv, AfterBlock PROVE TopKInv'
<1> USE DEF AfterBlock, EndBlock
<1>1. block + 1 \in 0 .. Last + 1 /\ (block < Last => block + 1 \in 0 .. Last)
  BY RowsHaveBlocks DEF TopKInv, TopKTypeOK, BlockIsDone
<1>2. TopKTypeOK'
  BY <1>1 DEF TopKInv, TopKTypeOK, Submitted, stateVars, outVars
<1>3. StagesFit' /\ FoldedOnce'
  <2>1. \A r \in Rows : seen'[r] = SeenBefore(r, block + 1)
    BY EndOfBlock DEF stateVars
  <2> QED
    BY <1>1, <2>1, StartOfBlock
<1>4. ListsAreBest' /\ StaleWereBest' /\ HandedAreBest'
  BY DEF TopKInv, ListsAreBest, StaleWereBest, HandedAreBest, stateVars, outVars
<1>5. SavedFits'
  <2>1. CASE UNCHANGED saved
    BY <2>1 DEF TopKInv, SavedFits, SeenBefore
  <2>2. CASE saved' = [next |-> block + 1, lists |-> lists, seen |-> seen]
    <3>1. \A r \in Rows : seen[r] = SeenBefore(r, block + 1) /\ lists[r] = Best(score, r, seen[r])
      BY EndOfBlock DEF TopKInv, ListsAreBest
    <3> QED
      BY <2>2, <3>1 DEF SavedFits, SeenBefore
  <2> QED
    BY <2>1, <2>2
<1> QED
  BY <1>2, <1>3, <1>4, <1>5 DEF TopKInv

(***************************************************************************)
(* A run that is run again begins as the run did that saved its state.     *)
(***************************************************************************)
LEMMA CrashKeeps ==
    ASSUME TopKInv, Crash PROVE TopKInv'
<1>1. saved.next \in 0 .. Last + 1
  BY RowsHaveBlocks DEF TopKInv, TopKTypeOK
<1>2. TopKTypeOK'
  BY <1>1, TopKAssumption DEF TopKInv, TopKTypeOK, Crash, Submitted, NothingRead, NoThreshold, Empty
<1>3. StagesFit' /\ FoldedOnce'
  <2>1. \A r \in Rows : seen'[r] = SeenBefore(r, saved.next)
    BY DEF TopKInv, SavedFits, Crash
  <2> QED
    BY <1>1, <2>1, StartOfBlock DEF Crash
<1>4. ListsAreBest' /\ StaleWereBest' /\ SavedFits'
  BY DEF TopKInv, ListsAreBest, StaleWereBest, SavedFits, SeenBefore, Crash, NothingRead
<1>5. HandedAreBest'
  BY RowsHaveBlocks DEF TopKInv, TopKTypeOK, HandedAreBest, Crash, Blocks
<1> QED
  BY <1>2, <1>3, <1>4, <1>5 DEF TopKInv

(* A step that changes nothing. *)
LEMMA StutterKeeps ==
    ASSUME TopKInv, UNCHANGED topKVars PROVE TopKInv'
BY DEF TopKInv, TopKTypeOK, StagesFit, FoldedOnce, FoldedInto, ListsAreBest, StaleWereBest, SavedFits,
       SeenBefore, HandedAreBest, topKVars, taskVars, stateVars, outVars

(* The invariant is inductive. *)
LEMMA StepKeeps == TopKInv /\ [TopKNext]_topKVars => TopKInv'
<1> SUFFICES ASSUME TopKInv, [TopKNext]_topKVars PROVE TopKInv'
  OBVIOUS
<1>1. CASE \E j \in Blocks : Start(j)
  BY <1>1, StartKeeps
<1>2. CASE \E j \in Blocks : Fold(j)
  BY <1>2, FoldKeeps
<1>3. CASE \E j \in Blocks : \E r \in Rows : ReadThreshold(j, r)
  BY <1>3, ReadThresholdKeeps
<1>4. CASE HandOver
  BY <1>4, HandOverKeeps
<1>5. CASE AfterBlock
  BY <1>5, AfterBlockKeeps
<1>6. CASE Crash
  BY <1>6, CrashKeeps
<1>7. CASE UNCHANGED topKVars
  BY <1>7, StutterKeeps
<1> QED
  BY <1>1, <1>2, <1>3, <1>4, <1>5, <1>6, <1>7 DEF TopKNext, Work, Finished

(* The invariant holds in every reachable state. *)
LEMMA InvHolds == TopKSpec => []TopKInv
BY InitHolds, StepKeeps, PTL DEF TopKSpec

-----------------------------------------------------------------------------
(* The theorems.                                                             *)

(***************************************************************************)
(* The type invariant of the computation, its tasks and its checkpoint.    *)
(***************************************************************************)
THEOREM TypeCorrect == TopKSpec => []TopKTypeOK
<1>1. TopKInv => TopKTypeOK
  BY DEF TopKInv
<1> QED
  BY <1>1, InvHolds, PTL

(***************************************************************************)
(* exact_top_k hands out exact lists, for every catalog of integer scores, *)
(* every block size, K and number of threads, and any number of crashes.   *)
(***************************************************************************)
THEOREM HandedExact == TopKSpec => []HandedAreExact
<1>1. TopKInv => HandedAreExact
  BY TopKIsBest DEF TopKInv, HandedAreBest, HandedAreExact
<1> QED
  BY <1>1, InvHolds, PTL

(***************************************************************************)
(* The tasks and the resumed runs fold every score into each of its two    *)
(* lists once.                                                             *)
(***************************************************************************)
THEOREM EachFoldedOnce == TopKSpec => []FoldedOnce
<1>1. TopKInv => FoldedOnce
  BY DEF TopKInv
<1> QED
  BY <1>1, InvHolds, PTL

-----------------------------------------------------------------------------
(* RecallChurn: where a run is, its container, its measurements, its files.  *)

\* Where a run is in its month, and what its switches let it do there.
Between ==
    {"checkpoint", "save_checkpoint", "stop_container", "start_container", "drop_august", "truncate"}
Finishing == {"partial", "save_partial", "result", "save_result"}
Larger == {"build_larger", "sweep_larger", "drop_larger"}

RunIsInPlace ==
    /\ phase = "write" => part <= Parts
    /\ phase \in Between => month = "august"
    /\ phase \in Finishing => month = "september"
    /\ phase \in Larger => ~SkipsLarger(month)
    /\ phase = "drop" /\ month = "september" => ~SkipsLarger(month)
    /\ args.trimmed /\ phase # "off" => month = "september"

\* A container that is gone is empty, and no run works in it.
GoneIsEmpty ==
    ~up => rows = Fresh({}) /\ index = Fresh("none") /\ phase \in {"off", "start_container"}

\* In a container in which no run has died only the run that measures the larger
\* variant has it, and the run that measures the standard one has that.
IndexIsKnown ==
    /\ \A v \in Versions, m \in Months : index[v][m] = "larger" =>
           v = version /\ m = month /\ phase \in {"sweep_larger", "drop_larger"}
    /\ phase \in {"sweep", "churn", "partial", "save_partial"} => index[version][month] = "standard"
    /\ phase = "build_larger" => index[version][month] = "none"
    /\ phase = "sweep_larger" => index[version][month] = "larger"

\* If moreover each month was written by COPY, a month is there as a whole or
\* not at all, except for the one that is being written.
OthersAreWhole ==
    \A v \in Versions, m \in Months :
        rows[v][m] \in {{}, Whole} \/ (phase = "write" /\ part > 1 /\ v = version /\ m = month)
WrittenSoFar == phase = "write" /\ part > 1 => rows[version][month] = 1 .. part - 1
Indexed ==
    {"build", "sweep", "churn", "partial", "save_partial", "drop", "build_larger", "sweep_larger"}
IndexedIsWhole == phase \in Indexed => rows[version][month] = Whole
RowsAreKnown == OthersAreWhole /\ WrittenSoFar /\ IndexedIsWhole

ContainerIsKnown == ~died => IndexIsKnown /\ (~hasty => RowsAreKnown)

\* What a measurement is taken over when it can be trusted, in memory and in the
\* files.
Sound(f) ==
    ~f.died /\ f.of # "exact" =>
        /\ f.of = "larger" => f.index = "larger"
        /\ f.of # "larger" => f.index = "standard"
        /\ ~f.hasty => f.rows = Whole
FoundIsSound == \A f \in found : Sound(f)
CheckpointIsSound == Readable(checkpoint) => \A f \in checkpoint.found : Sound(f)
OutIsSound == Readable(out) => \A f \in out.found : Sound(f)

\* The measurements of a set by month and kind, of which there is one each, and
\* all of one version.
Keys(S) == {<<f.month, f.of>> : f \in S}
OneEach(S) == \A f, g \in S : f.month = g.month /\ f.of = g.of => f = g
OfVersion(S, v) == \A f \in S : f.version = v

\* What has been measured before a month, and in it before the larger variant.
OfAugust ==
    {"august"} \X ({"standard", "churn"} \cup (IF SkipsLarger("august") THEN {} ELSE {"larger"}))
Before == IF month = "august" \/ args.trimmed THEN {} ELSE OfAugust
Standard == {<<month, "standard">>}
Both == Standard \cup {<<month, IF args.trimmed THEN "exact" ELSE "churn">>}
All == Both \cup (IF SkipsLarger(month) THEN {} ELSE {<<month, "larger">>})

\* What a run has found where it is.
FoundOnce == OneEach(found)
FoundOfVersion == phase # "off" => OfVersion(found, version)
FoundSoFar ==
    /\ phase = "off" => found = {}
    /\ phase \in {"write", "build", "sweep"} => Keys(found) = Before
    /\ phase = "churn" => Keys(found) = Before \cup Standard
    /\ phase \in {"drop", "build_larger", "sweep_larger", "partial", "save_partial"} =>
           Keys(found) = Before \cup Both
    /\ phase \in Between \cup {"drop_larger", "result", "save_result"} =>
           Keys(found) = Before \cup All

\* A checkpoint that can be read holds what was asked of August, of its version.
CheckpointIsWhole ==
    Readable(checkpoint) =>
        /\ ~args.trimmed /\ Keys(checkpoint.found) = OfAugust
        /\ OneEach(checkpoint.found) /\ OfVersion(checkpoint.found, checkpoint.version)

\* The inductive invariant.
ChurnInv ==
    /\ TypeOK
    /\ RunIsInPlace
    /\ GoneIsEmpty
    /\ ContainerIsKnown
    /\ FoundIsSound /\ CheckpointIsSound /\ OutIsSound
    /\ FoundOnce /\ FoundOfVersion /\ FoundSoFar
    /\ CheckpointIsWhole
    /\ ResultIsWhole
    /\ LargerVariantRisksNothing
-----------------------------------------------------------------------------
(* Types and places.                                                         *)

(* An empty table and a table without indexes are of their types.             *)
LEMMA FreshType ==
    /\ Fresh({}) \in [Versions -> [Months -> SUBSET Whole]]
    /\ Fresh("none") \in [Versions -> [Months -> Indexes]]
BY DEF Fresh, Indexes

(* What a run measures is a measurement of what is in its container.         *)
LEMMA SeenType ==
    ASSUME TypeOK, NEW of \in {"standard", "larger", "churn", "exact"}
    PROVE  /\ Seen(of) \in Measurement
           /\ Seen(of).of = of /\ Seen(of).month = month /\ Seen(of).version = version
           /\ Seen(of).rows = rows[version][month] /\ Seen(of).index = index[version][month]
           /\ Seen(of).died = died /\ Seen(of).hasty = hasty
BY DEF TypeOK, Seen, Measurement, Indexes

(* What it computes from the files is one too, of no index.                  *)
LEMMA ExactChurnType ==
    ASSUME TypeOK
    PROVE  /\ ExactChurn \in Measurement
           /\ ExactChurn.of = "exact"
           /\ ExactChurn.month = month /\ ExactChurn.version = version
<1>1. Seen("exact") \in Measurement /\ Seen("exact").of = "exact"
      /\ Seen("exact").month = month /\ Seen("exact").version = version
  BY SeenType
<1>2. Whole \in SUBSET Whole /\ "none" \in Indexes
  BY DEF Indexes
<1>3. QED
  BY <1>1, <1>2 DEF ExactChurn, Measurement

(* A file that is written whole is neither missing nor cut short.             *)
LEMMA FilesAreReadable ==
    /\ \A c \in Checkpoint : Readable(c)
    /\ \A o \in Output : Readable(o)
    /\ ~Readable(None) /\ ~Readable(Torn)
BY RecallAssumption DEF Readable

(* The switches a run is started with never change.                           *)
LEMMA ArgsStay ==
    ASSUME Next \/ UNCHANGED vars
    PROVE  args' = args
BY DEF Next, Run, Step, SkipWrite, WriteTrial, WriteRest, Written, BuildIndex, BuildVariant,
   SweepRecall, SweepVariant, Churn, DropIndex, OpenCheckpoint, SaveCheckpoint, StopContainer,
   StartContainer, DropAugust, Truncate, OpenPartial, OpenOut, SavePartial, OpenResult, SaveResult,
   Die, Provision, vars

(* The files are of their types.                                              *)
LEMMA FileTypes ==
    ASSUME TypeOK, Next \/ UNCHANGED vars
    PROVE  /\ checkpoint' \in Checkpoint \cup {None, Torn}
           /\ out' \in Output \cup {None, Torn}
<1>1. /\ args \in Args /\ version \in Versions /\ found \subseteq Measurement
      /\ checkpoint \in Checkpoint \cup {None, Torn}
      /\ out \in Output \cup {None, Torn}
  BY DEF TypeOK
<1>2. CASE OpenCheckpoint \/ SaveCheckpoint
  BY <1>1, <1>2 DEF OpenCheckpoint, SaveCheckpoint, Checkpoint
<1>3. CASE OpenPartial \/ SavePartial \/ OpenResult \/ SaveResult
  BY <1>1, <1>3 DEF OpenPartial, OpenOut, SavePartial, OpenResult, SaveResult, Result, Output
<1>4. CASE UNCHANGED fileVars
  BY <1>1, <1>4 DEF fileVars
<1>5. \/ OpenCheckpoint \/ SaveCheckpoint
      \/ OpenPartial \/ SavePartial \/ OpenResult \/ SaveResult
      \/ UNCHANGED fileVars
  BY DEF Next, Run, Step, SkipWrite, WriteTrial, WriteRest, Written, BuildIndex, BuildVariant,
     SweepRecall, SweepVariant, Churn, DropIndex, StopContainer, StartContainer, DropAugust,
     Truncate, Die, Provision, vars
<1>6. QED
  BY <1>2, <1>3, <1>4, <1>5

(* So are the table and its indexes.                                          *)
LEMMA TableTypes ==
    ASSUME TypeOK, RunIsInPlace, Next \/ UNCHANGED vars
    PROVE  /\ rows' \in [Versions -> [Months -> SUBSET Whole]]
           /\ index' \in [Versions -> [Months -> Indexes]]
<1>1. /\ rows \in [Versions -> [Months -> SUBSET Whole]]
      /\ index \in [Versions -> [Months -> Indexes]]
      /\ version \in Versions /\ month \in Months /\ part \in 1 .. Parts + 1 /\ Parts \in Nat \ {0}
      /\ (phase = "write" => part <= Parts)
  BY RecallAssumption DEF TypeOK, RunIsInPlace
<1>2. CASE WriteTrial
  <2>1. rows' = [rows EXCEPT ![version][month] = {1}] /\ index' = index
    BY <1>2 DEF WriteTrial, Written
  <2>2. {1} \in SUBSET Whole
    BY <1>1 DEF Whole
  <2>3. QED
    BY <1>1, <2>1, <2>2
<1>3. CASE WriteRest
  <2>1. /\ rows' = [rows EXCEPT ![version][month] = IF useCopy THEN @ \cup {part} ELSE {part}]
        /\ index' = index /\ phase = "write"
    BY <1>3 DEF WriteRest, Written
  <2>2. {part} \in SUBSET Whole
    BY <1>1, <2>1 DEF Whole
  <2>3. QED
    BY <1>1, <2>1, <2>2
<1>4. CASE BuildIndex \/ DropIndex \/ DropAugust
  BY <1>1, <1>4 DEF BuildIndex, BuildVariant, DropIndex, DropAugust, Indexes, Months
<1>5. CASE StopContainer \/ Provision \/ Truncate
  BY <1>1, <1>5, FreshType DEF StopContainer, Provision, EmptyContainer, Truncate
<1>6. CASE UNCHANGED tableVars
  BY <1>1, <1>6 DEF tableVars
<1>7. \/ WriteTrial \/ WriteRest \/ BuildIndex \/ DropIndex \/ DropAugust
      \/ StopContainer \/ Provision \/ Truncate \/ UNCHANGED tableVars
  BY DEF Next, Run, Step, SkipWrite, SweepRecall, SweepVariant, Churn, OpenCheckpoint,
     SaveCheckpoint, StartContainer, OpenPartial, OpenOut, SavePartial, OpenResult, SaveResult, Die,
     vars, containerVars
<1>8. QED
  BY <1>2, <1>3, <1>4, <1>5, <1>6, <1>7

(* What is found is a set of measurements.                                    *)
LEMMA FoundType ==
    ASSUME TypeOK, Next \/ UNCHANGED vars
    PROVE  found' \subseteq Measurement
<1>1. found \subseteq Measurement
  BY DEF TypeOK
<1>2. ASSUME NEW v \in Versions, Run(v) PROVE found' \subseteq Measurement
  <2>1. found' = found \/ (Readable(checkpoint) /\ found' = checkpoint.found)
    BY <1>2 DEF Run, Resumable
  <2>2. Readable(checkpoint) => checkpoint.found \subseteq Measurement
    BY DEF TypeOK, Checkpoint, Readable
  <2>3. QED
    BY <1>1, <2>1, <2>2
<1>3. CASE SweepRecall \/ Churn
  BY <1>1, <1>3, SeenType, ExactChurnType DEF SweepRecall, SweepVariant, Churn
<1>4. CASE SaveResult \/ Die
  BY <1>4 DEF SaveResult, Die, Stop
<1>5. CASE UNCHANGED found
  BY <1>1, <1>5
<1>6. \/ \E v \in Versions : Run(v)
      \/ SweepRecall \/ Churn \/ SaveResult \/ Die \/ UNCHANGED found
  BY DEF Next, Step, SkipWrite, WriteTrial, WriteRest, Written, BuildIndex, BuildVariant, DropIndex,
     OpenCheckpoint, SaveCheckpoint, StopContainer, StartContainer, DropAugust, Truncate,
     OpenPartial, OpenOut, SavePartial, OpenResult, Provision, vars, runVars
<1>7. QED
  BY <1>2, <1>3, <1>4, <1>5, <1>6

(* Where a run is, and where its switches let it be.                          *)
LEMMA PlaceStep ==
    ASSUME TypeOK, RunIsInPlace, Next \/ UNCHANGED vars
    PROVE  /\ RunIsInPlace'
           /\ phase' \in Phases /\ month' \in Months /\ version' \in Versions
           /\ resumed' \in BOOLEAN /\ useCopy' \in BOOLEAN /\ part' \in 1 .. Parts + 1
<1> USE DEF RunIsInPlace, SkipsLarger
<1>1. /\ args \in Args /\ phase \in Phases /\ month \in Months /\ version \in Versions
      /\ resumed \in BOOLEAN /\ useCopy \in BOOLEAN /\ part \in 1 .. Parts + 1 /\ Parts \in Nat
      /\ 1 \in 1 .. Parts + 1 /\ 1 <= Parts
  BY RecallAssumption DEF TypeOK
<1>2. args' = args
  BY ArgsStay
<1>3. ASSUME NEW v \in Versions, Run(v)
      PROVE  /\ phase' = "write" /\ part' = 1 /\ month' \in Months /\ version' = v
             /\ resumed' \in BOOLEAN /\ useCopy' = FALSE /\ (args.trimmed => month' = "september")
  BY <1>1, <1>3 DEF Run, StartMonth, Months
<1>4. CASE \E v \in Versions : Run(v)
  BY <1>1, <1>2, <1>3, <1>4 DEF Phases, Between, Finishing, Larger
<1>5. CASE WriteTrial \/ WriteRest
  <2>1. /\ phase = "write" /\ part' = part + 1 /\ phase' = IF part = Parts THEN "build" ELSE "write"
        /\ month' = month /\ version' = version /\ resumed' = resumed /\ useCopy' \in BOOLEAN
    BY <1>1, <1>5 DEF WriteTrial, WriteRest, Written
  <2>2. QED
    BY <1>1, <1>2, <2>1 DEF Phases, Between, Finishing, Larger
<1>6. CASE SkipWrite \/ BuildIndex \/ SweepRecall \/ Churn
  BY <1>1, <1>2, <1>6 DEF SkipWrite, BuildIndex, BuildVariant, SweepRecall, SweepVariant, Churn,
     Goto, Phases, Between, Finishing, Larger, Months
<1>7. CASE DropIndex
  BY <1>1, <1>2, <1>7 DEF DropIndex, AfterLarger, Goto, Phases, Between, Finishing, Larger, Months
<1>8. CASE OpenCheckpoint \/ SaveCheckpoint \/ StopContainer \/ DropAugust
  BY <1>1, <1>2, <1>8 DEF OpenCheckpoint, SaveCheckpoint, StopContainer, DropAugust, Goto, Phases,
     Between, Finishing, Larger
<1>9. CASE StartContainer \/ Truncate
  BY <1>1, <1>2, <1>9 DEF StartContainer, Truncate, StartMonth, Phases, Between, Finishing, Larger,
     Months
<1>10. CASE OpenPartial \/ SavePartial \/ OpenResult
  BY <1>1, <1>2, <1>10 DEF OpenPartial, OpenOut, SavePartial, OpenResult, Goto, Phases, Between,
     Finishing, Larger
<1>11. CASE SaveResult \/ Die
  BY <1>1, <1>2, <1>11 DEF SaveResult, Die, Stop, Phases, Between, Finishing, Larger, Months
<1>12. CASE Provision \/ UNCHANGED vars
  BY <1>1, <1>2, <1>12 DEF Provision, vars, runVars
<1>13. QED
  BY <1>4, <1>5, <1>6, <1>7, <1>8, <1>9, <1>10, <1>11, <1>12 DEF Next, Step

(* What is known of the container.                                            *)
LEMMA ContainerTypes ==
    ASSUME TypeOK, Next \/ UNCHANGED vars
    PROVE  up' \in BOOLEAN /\ died' \in BOOLEAN /\ hasty' \in BOOLEAN /\ deaths' \in 0 .. MaxDeaths
<1>1. up \in BOOLEAN /\ died \in BOOLEAN /\ hasty \in BOOLEAN /\ deaths \in 0 .. MaxDeaths
  BY DEF TypeOK
<1>2. useCopy \in BOOLEAN
  BY DEF TypeOK
<1>3. CASE WriteRest
  BY <1>1, <1>2, <1>3 DEF WriteRest, Written
<1>4. CASE Die
  BY <1>1, <1>4, RecallAssumption DEF Die
<1>5. CASE StopContainer \/ StartContainer \/ Provision
  BY <1>1, <1>5 DEF StopContainer, StartContainer, Provision, EmptyContainer, historyVars
<1>6. CASE up' = up /\ died' = died /\ hasty' = hasty /\ deaths' = deaths
  BY <1>1, <1>6
<1>7. \/ WriteRest \/ Die \/ StopContainer \/ StartContainer \/ Provision
      \/ up' = up /\ died' = died /\ hasty' = hasty /\ deaths' = deaths
  BY DEF Next, Run, Step, SkipWrite, WriteTrial, Written, BuildIndex, BuildVariant, SweepRecall,
     SweepVariant, Churn, DropIndex, OpenCheckpoint, SaveCheckpoint, DropAugust, Truncate,
     OpenPartial, OpenOut, SavePartial, OpenResult, SaveResult, vars, containerVars, historyVars
<1>8. QED
  BY <1>3, <1>4, <1>5, <1>6, <1>7

(* Types are kept.                                                            *)
LEMMA TypeStep ==
    ASSUME TypeOK, RunIsInPlace, Next \/ UNCHANGED vars
    PROVE  TypeOK'
<1>1. args' \in Args
  BY ArgsStay DEF TypeOK
<1>2. QED
  BY <1>1, FileTypes, TableTypes, FoundType, PlaceStep, ContainerTypes DEF TypeOK

-----------------------------------------------------------------------------
(* The container.                                                            *)

(* A container that is gone is empty until the next one is there.             *)
LEMMA GoneStep ==
    ASSUME GoneIsEmpty, Next \/ UNCHANGED vars
    PROVE  GoneIsEmpty'
<1> USE DEF GoneIsEmpty
<1>1. CASE \E v \in Versions : Run(v)
  BY <1>1 DEF Run, containerVars
<1>2. CASE \/ SkipWrite \/ WriteTrial \/ WriteRest
           \/ BuildIndex \/ SweepRecall \/ Churn \/ DropIndex
  BY <1>2 DEF SkipWrite, WriteTrial, WriteRest, Written, BuildIndex, BuildVariant, SweepRecall,
     SweepVariant, Churn, DropIndex, containerVars
<1>3. CASE \/ OpenCheckpoint \/ SaveCheckpoint \/ DropAugust \/ Truncate
           \/ OpenPartial \/ SavePartial \/ OpenResult \/ SaveResult
  BY <1>3 DEF OpenCheckpoint, SaveCheckpoint, DropAugust, Truncate, OpenPartial, OpenOut,
     SavePartial, OpenResult, SaveResult, containerVars
<1>4. CASE StopContainer \/ StartContainer
  BY <1>4 DEF StopContainer, StartContainer, EmptyContainer, Goto
<1>5. CASE Die
  BY <1>5 DEF Die, Stop, tableVars
<1>6. CASE Provision
  BY <1>6 DEF Provision
<1>7. CASE UNCHANGED vars
  BY <1>7 DEF vars, runVars, containerVars, tableVars
<1>8. QED
  BY <1>1, <1>2, <1>3, <1>4, <1>5, <1>6, <1>7 DEF Next, Step

(* A step that leaves the history of the container alone tells no more of it  *)
(* than what was known.                                                       *)
LEMMA SameHistory ==
    ASSUME died' = died, hasty' = hasty,
           ~died /\ IndexIsKnown => IndexIsKnown',
           ~died /\ ~hasty /\ IndexIsKnown /\ RowsAreKnown => RowsAreKnown',
           ContainerIsKnown
    PROVE  ContainerIsKnown'
BY DEF ContainerIsKnown

(* An empty container is known.                                               *)
LEMMA EmptyIsKnown ==
    ASSUME rows' = Fresh({}), index' = Fresh("none"), phase' \in {"off", "start_container"}
    PROVE  IndexIsKnown' /\ RowsAreKnown'
BY DEF Fresh, IndexIsKnown, RowsAreKnown, OthersAreWhole, WrittenSoFar, IndexedIsWhole, Indexed

(* A month that is written by COPY is there as a whole in the end.            *)
LEMMA WriteKeepsContainer ==
    ASSUME TypeOK, RunIsInPlace, ContainerIsKnown,
           SkipWrite \/ WriteTrial \/ WriteRest
    PROVE  ContainerIsKnown'
<1>1. /\ rows \in [Versions -> [Months -> SUBSET Whole]]
      /\ index \in [Versions -> [Months -> Indexes]]
      /\ version \in Versions /\ month \in Months /\ part \in Nat /\ part >= 1 /\ Parts \in Nat
      /\ 1 <= Parts /\ (phase = "write" => part <= Parts)
      /\ useCopy \in BOOLEAN /\ hasty \in BOOLEAN /\ Whole = 1 .. Parts
  BY RecallAssumption DEF TypeOK, RunIsInPlace, Whole
<1>2. CASE SkipWrite
  <2>1. /\ phase = "write" /\ part = 1 /\ rows[version][month] # {} /\ phase' = "build"
        /\ version' = version /\ month' = month /\ part' = part
        /\ rows' = rows /\ index' = index /\ died' = died /\ hasty' = hasty
    BY <1>2 DEF SkipWrite, Loaded, Goto, containerVars, tableVars, historyVars
  <2>2. IndexIsKnown => IndexIsKnown'
    BY <2>1 DEF IndexIsKnown
  <2>3. RowsAreKnown => RowsAreKnown'
    BY <1>1, <2>1 DEF RowsAreKnown, OthersAreWhole, WrittenSoFar, IndexedIsWhole, Indexed
  <2>4. QED
    BY <2>1, <2>2, <2>3, SameHistory
<1>3. CASE WriteTrial
  <2>1. /\ phase = "write" /\ part = 1 /\ rows[version][month] = {}
        /\ phase' = IF part = Parts THEN "build" ELSE "write"
        /\ rows' = [rows EXCEPT ![version][month] = {1}] /\ part' = 2
        /\ version' = version /\ month' = month /\ index' = index /\ died' = died /\ hasty' = hasty
    BY <1>1, <1>3 DEF WriteTrial, Written, Loaded
  <2>2. IndexIsKnown => IndexIsKnown'
    BY <2>1 DEF IndexIsKnown
  <2>3. ASSUME RowsAreKnown PROVE RowsAreKnown'
    <3>1. rows'[version][month] = {1} /\ {1} = 1 .. 2 - 1 /\ (Parts = 1 => Whole = {1})
      BY <1>1, <2>1
    <3>2. ASSUME NEW v \in Versions, NEW m \in Months, v # version \/ m # month
          PROVE  rows'[v][m] \in {{}, Whole}
      BY <1>1, <2>1, <2>3, <3>2 DEF RowsAreKnown, OthersAreWhole
    <3>3. OthersAreWhole'
      <4>1. (phase' = "write" /\ part' > 1) \/ rows'[version][month] \in {{}, Whole}
        BY <1>1, <2>1, <3>1
      <4>2. QED
        BY <2>1, <3>2, <4>1 DEF OthersAreWhole
    <3>4. WrittenSoFar'
      BY <2>1, <3>1 DEF WrittenSoFar
    <3>5. IndexedIsWhole'
      BY <2>1, <3>1 DEF IndexedIsWhole, Indexed
    <3>6. QED
      BY <3>3, <3>4, <3>5 DEF RowsAreKnown
  <2>4. QED
    BY <2>1, <2>2, <2>3, SameHistory
<1>4. CASE WriteRest
  <2>1. /\ phase = "write" /\ part > 1
        /\ phase' = IF part = Parts THEN "build" ELSE "write"
        /\ rows' = [rows EXCEPT ![version][month] = IF useCopy THEN @ \cup {part} ELSE {part}]
        /\ part' = part + 1 /\ hasty' = (hasty \/ ~useCopy)
        /\ version' = version /\ month' = month /\ index' = index /\ died' = died
    BY <1>4 DEF WriteRest, Written
  <2>2. IndexIsKnown => IndexIsKnown'
    BY <2>1 DEF IndexIsKnown
  <2>3. ASSUME RowsAreKnown, useCopy PROVE RowsAreKnown'
    <3>1. rows[version][month] = 1 .. part - 1
      BY <2>1, <2>3 DEF RowsAreKnown, WrittenSoFar
    <3>2. rows'[version][month] = (1 .. part - 1) \cup {part}
      BY <1>1, <2>1, <2>3, <3>1
    <3>3. (1 .. part - 1) \cup {part} = 1 .. part
      BY <1>1
    <3>4. part' - 1 = part /\ part' > 1
      BY <1>1, <2>1
    <3>10. rows'[version][month] = 1 .. part /\ (part = Parts => rows'[version][month] = Whole)
      BY <1>1, <3>2, <3>3
    <3>5. ASSUME NEW v \in Versions, NEW m \in Months, v # version \/ m # month
          PROVE  rows'[v][m] \in {{}, Whole}
      BY <1>1, <2>1, <2>3, <3>5 DEF RowsAreKnown, OthersAreWhole
    <3>6. OthersAreWhole'
      <4>1. (phase' = "write" /\ part' > 1) \/ rows'[version][month] \in {{}, Whole}
        BY <2>1, <3>4, <3>10
      <4>2. QED
        BY <2>1, <3>5, <4>1 DEF OthersAreWhole
    <3>7. WrittenSoFar'
      BY <2>1, <3>4, <3>10 DEF WrittenSoFar
    <3>8. IndexedIsWhole'
      BY <2>1, <3>10 DEF IndexedIsWhole, Indexed
    <3>9. QED
      BY <3>6, <3>7, <3>8 DEF RowsAreKnown
  <2>4. QED
    BY <1>1, <2>1, <2>2, <2>3 DEF ContainerIsKnown
<1>5. QED
  BY <1>2, <1>3, <1>4

(* The index is built, measured and dropped by the run that knows which it is. *)
LEMMA IndexKeepsContainer ==
    ASSUME TypeOK, ContainerIsKnown, BuildIndex \/ SweepRecall \/ Churn \/ DropIndex
    PROVE  ContainerIsKnown'
<1> USE DEF IndexIsKnown
<1>1. /\ index \in [Versions -> [Months -> Indexes]] /\ version \in Versions /\ month \in Months
  BY DEF TypeOK
<1>2. /\ version' = version /\ month' = month /\ part' = part /\ rows' = rows
      /\ died' = died /\ hasty' = hasty
  BY DEF BuildIndex, BuildVariant, SweepRecall, SweepVariant, Churn, DropIndex, Goto, containerVars,
     tableVars, historyVars
<1>3. /\ (phase' \in Indexed => phase \in Indexed)
      /\ phase # "write" /\ phase' # "write"
  BY DEF BuildIndex, BuildVariant, SweepRecall, SweepVariant, Churn, DropIndex, Goto, AfterLarger,
     Indexed
<1>4. RowsAreKnown => RowsAreKnown'
  BY <1>2, <1>3 DEF RowsAreKnown, OthersAreWhole, WrittenSoFar, IndexedIsWhole
<1>5. ASSUME IndexIsKnown, BuildVariant("standard", "build", "sweep") PROVE IndexIsKnown'
  <2>1. /\ phase = "build" /\ phase' = "sweep"
        /\ index' = [index EXCEPT ![version][month] = IF @ = "none" THEN "standard" ELSE @]
    BY <1>5 DEF BuildVariant, Goto
  <2>2. \A v \in Versions, m \in Months : index[v][m] # "larger"
    BY <1>5, <2>1
  <2>3. index[version][month] \in {"none", "standard"}
    BY <1>1, <2>2 DEF Indexes
  <2>4. index'[version][month] = "standard"
    BY <1>1, <2>1, <2>3
  <2>5. ASSUME NEW v \in Versions, NEW m \in Months PROVE index'[v][m] # "larger"
    <3>1. CASE v = version /\ m = month
      BY <2>4, <3>1
    <3>2. CASE v # version \/ m # month
      BY <1>1, <2>1, <2>2, <3>2
    <3>3. QED
      BY <3>1, <3>2
  <2>6. QED
    BY <1>2, <2>1, <2>4, <2>5
<1>6. ASSUME IndexIsKnown, BuildVariant("larger", "build_larger", "sweep_larger")
      PROVE  IndexIsKnown'
  <2>1. /\ phase = "build_larger" /\ phase' = "sweep_larger"
        /\ index' = [index EXCEPT ![version][month] = IF @ = "none" THEN "larger" ELSE @]
    BY <1>6 DEF BuildVariant, Goto
  <2>2. \A v \in Versions, m \in Months : index[v][m] # "larger"
    BY <1>6, <2>1
  <2>3. index[version][month] = "none"
    BY <1>6, <2>1
  <2>4. index'[version][month] = "larger"
    BY <1>1, <2>1, <2>3
  <2>5. ASSUME NEW v \in Versions, NEW m \in Months, v # version \/ m # month
        PROVE  index'[v][m] # "larger"
    BY <1>1, <2>1, <2>2, <2>5
  <2>6. QED
    BY <1>2, <2>1, <2>4, <2>5
<1>7. ASSUME IndexIsKnown, SweepRecall \/ Churn PROVE IndexIsKnown'
  <2>1. index' = index
    BY <1>7 DEF SweepRecall, SweepVariant, Churn, containerVars, tableVars
  <2>2. \/ phase = "sweep" /\ phase' = "churn"
        \/ phase = "sweep_larger" /\ phase' = "drop_larger"
        \/ phase = "churn" /\ phase' \in {"drop", "partial"}
    BY <1>7 DEF SweepRecall, SweepVariant, Churn, Goto
  <2>3. QED
    BY <1>2, <1>7, <2>1, <2>2
<1>8. ASSUME IndexIsKnown, DropIndex PROVE IndexIsKnown'
  <2>1. /\ phase \in {"drop", "drop_larger"} /\ phase' \in {"checkpoint", "result", "build_larger"}
        /\ index' = [index EXCEPT ![version][month] = "none"]
    BY <1>8 DEF DropIndex, Goto, AfterLarger
  <2>2. index'[version][month] = "none"
    BY <1>1, <2>1
  <2>3. ASSUME NEW v \in Versions, NEW m \in Months PROVE index'[v][m] # "larger"
    <3>1. CASE v = version /\ m = month
      BY <2>2, <3>1
    <3>2. CASE v # version \/ m # month
      <4>1. index'[v][m] = index[v][m]
        BY <1>1, <2>1, <3>2
      <4>2. QED
        BY <1>8, <3>2, <4>1
    <3>3. QED
      BY <3>1, <3>2
  <2>4. QED
    BY <1>2, <2>1, <2>2, <2>3
<1>9. IndexIsKnown => IndexIsKnown'
  BY <1>5, <1>6, <1>7, <1>8 DEF BuildIndex
<1>10. QED
  BY <1>2, <1>4, <1>9, SameHistory

(* The steps that write files leave the container as it is.                   *)
LEMMA FilesKeepContainer ==
    ASSUME ContainerIsKnown,
           \/ OpenCheckpoint \/ SaveCheckpoint
           \/ OpenPartial \/ SavePartial \/ OpenResult \/ SaveResult
    PROVE  ContainerIsKnown'
<1>1. /\ version' = version /\ rows' = rows /\ index' = index /\ died' = died /\ hasty' = hasty
  BY DEF OpenCheckpoint, SaveCheckpoint, OpenPartial, OpenOut, SavePartial, OpenResult, SaveResult,
     Goto, containerVars, tableVars, historyVars
<1>2. \/ /\ month' = month
         /\ \/ phase = "checkpoint" /\ phase' = "save_checkpoint"
            \/ phase = "save_checkpoint" /\ phase' \in {"drop_august", "stop_container"}
            \/ phase = "partial" /\ phase' = "save_partial"
            \/ phase = "save_partial" /\ phase' \in {"result", "drop"}
            \/ phase = "result" /\ phase' = "save_result"
      \/ phase = "save_result" /\ phase' = "off"
  BY DEF OpenCheckpoint, SaveCheckpoint, OpenPartial, OpenOut, SavePartial, OpenResult, SaveResult,
     Goto, Stop
<1>3. IndexIsKnown => IndexIsKnown'
  BY <1>1, <1>2 DEF IndexIsKnown
<1>4. RowsAreKnown => RowsAreKnown'
  <2>1. OthersAreWhole => OthersAreWhole'
    BY <1>1, <1>2 DEF OthersAreWhole
  <2>2. WrittenSoFar'
    BY <1>2 DEF WrittenSoFar
  <2>3. IndexedIsWhole => IndexedIsWhole'
    BY <1>1, <1>2 DEF IndexedIsWhole, Indexed
  <2>4. QED
    BY <2>1, <2>2, <2>3 DEF RowsAreKnown
<1>5. QED
  BY <1>1, <1>3, <1>4, SameHistory

(* A run begins in a container that has no larger index and no month half     *)
(* written, and it goes from one month to the next in such a one.             *)
LEMMA BeginKeepsContainer ==
    ASSUME TypeOK, ContainerIsKnown,
           (\E v \in Versions : Run(v)) \/ StartContainer \/ DropAugust \/ Truncate
    PROVE  ContainerIsKnown'
<1>1. /\ rows \in [Versions -> [Months -> SUBSET Whole]]
      /\ index \in [Versions -> [Months -> Indexes]]
      /\ version \in Versions /\ "august" \in Months
  BY DEF TypeOK, Months
<1>2. /\ phase \in {"off", "start_container", "drop_august", "truncate"}
      /\ died' = died /\ hasty' = hasty
  BY DEF Run, StartContainer, DropAugust, Truncate, Goto, containerVars, historyVars
<1>3. phase' = "truncate" \/ (phase' = "write" /\ part' = 1)
  <2>1. ASSUME NEW v \in Versions, Run(v) PROVE phase' = "write" /\ part' = 1
    BY <2>1 DEF Run, StartMonth
  <2>2. CASE StartContainer
    BY <2>2 DEF StartContainer, StartMonth
  <2>3. CASE DropAugust
    BY <2>3 DEF DropAugust, Goto
  <2>4. CASE Truncate
    BY <2>4 DEF Truncate, StartMonth
  <2>5. QED
    BY <2>1, <2>2, <2>3, <2>4
<1>4. index' = index \/ index' = [index EXCEPT ![version]["august"] = "none"]
  BY DEF Run, StartContainer, DropAugust, Truncate, containerVars, tableVars
<1>5. rows' = rows \/ rows' = Fresh({})
  BY DEF Run, StartContainer, DropAugust, Truncate, containerVars, tableVars
<1>6. IndexIsKnown => IndexIsKnown'
  <2>1. SUFFICES ASSUME IndexIsKnown, NEW v \in Versions, NEW m \in Months
                 PROVE  index'[v][m] # "larger"
    BY <1>3 DEF IndexIsKnown
  <2>2. index[v][m] # "larger"
    BY <1>2, <2>1 DEF IndexIsKnown
  <2>3. QED
    BY <1>1, <1>4, <2>2
<1>7. RowsAreKnown => RowsAreKnown'
  <2>1. SUFFICES ASSUME OthersAreWhole PROVE RowsAreKnown'
    BY DEF RowsAreKnown
  <2>2. ASSUME NEW v \in Versions, NEW m \in Months PROVE rows'[v][m] \in {{}, Whole}
    <3>1. rows[v][m] \in {{}, Whole}
      BY <1>2, <2>1 DEF OthersAreWhole
    <3>2. QED
      BY <1>5, <3>1 DEF Fresh
  <2>3. QED
    BY <1>3, <2>2 DEF RowsAreKnown, OthersAreWhole, WrittenSoFar, IndexedIsWhole, Indexed
<1>8. QED
  BY <1>2, <1>6, <1>7, SameHistory

(* What is known of the container is kept by every step.                      *)
LEMMA ContainerStep ==
    ASSUME TypeOK, RunIsInPlace, GoneIsEmpty, ContainerIsKnown, Next \/ UNCHANGED vars
    PROVE  ContainerIsKnown'
<1>1. CASE SkipWrite \/ WriteTrial \/ WriteRest
  BY <1>1, WriteKeepsContainer
<1>2. CASE BuildIndex \/ SweepRecall \/ Churn \/ DropIndex
  BY <1>2, IndexKeepsContainer
<1>3. CASE \/ OpenCheckpoint \/ SaveCheckpoint
           \/ OpenPartial \/ SavePartial \/ OpenResult \/ SaveResult
  BY <1>3, FilesKeepContainer
<1>4. CASE (\E v \in Versions : Run(v)) \/ StartContainer \/ DropAugust \/ Truncate
  BY <1>4, BeginKeepsContainer
<1>5. CASE StopContainer
  BY <1>5, EmptyIsKnown DEF StopContainer, EmptyContainer, Goto, ContainerIsKnown
<1>6. CASE Provision
  BY <1>6, EmptyIsKnown DEF Provision, EmptyContainer, runVars, ContainerIsKnown
<1>7. CASE Die
  <2>1. died' = up /\ rows' = rows /\ index' = index /\ phase' = "off"
    BY <1>7 DEF Die, Stop, tableVars
  <2>2. up \in BOOLEAN
    BY DEF TypeOK
  <2>3. CASE up
    BY <2>1, <2>3 DEF ContainerIsKnown
  <2>4. CASE ~up
    <3>1. rows' = Fresh({}) /\ index' = Fresh("none")
      BY <2>1, <2>4 DEF GoneIsEmpty
    <3>2. QED
      BY <2>1, <3>1, EmptyIsKnown DEF ContainerIsKnown
  <2>5. QED
    BY <2>2, <2>3, <2>4
<1>8. CASE UNCHANGED vars
  <2>1. /\ version' = version /\ month' = month /\ part' = part /\ phase' = phase
        /\ rows' = rows /\ index' = index /\ died' = died /\ hasty' = hasty
    BY <1>8 DEF vars, runVars, containerVars, tableVars, historyVars
  <2>2. QED
    BY <2>1 DEF ContainerIsKnown, IndexIsKnown, RowsAreKnown, OthersAreWhole, WrittenSoFar,
       IndexedIsWhole
<1>9. QED
  BY <1>1, <1>2, <1>3, <1>4, <1>5, <1>6, <1>7, <1>8 DEF Next, Step

-----------------------------------------------------------------------------
(* Measurements.                                                             *)

(* A measurement that is taken in a known container can be trusted.           *)
LEMMA SeenIsSound ==
    ASSUME TypeOK, ContainerIsKnown, NEW of \in {"standard", "larger", "churn"},
           of = "larger" => phase = "sweep_larger",
           of # "larger" => phase \in {"sweep", "churn"}
    PROVE  Sound(Seen(of))
<1>1. /\ Seen(of).of = of
      /\ Seen(of).rows = rows[version][month] /\ Seen(of).index = index[version][month]
      /\ Seen(of).died = died /\ Seen(of).hasty = hasty
  BY SeenType
<1>2. ~died => /\ of = "larger" => index[version][month] = "larger"
               /\ of # "larger" => index[version][month] = "standard"
  BY DEF ContainerIsKnown, IndexIsKnown
<1>3. ~died /\ ~hasty => rows[version][month] = Whole
  BY DEF ContainerIsKnown, RowsAreKnown, IndexedIsWhole, Indexed
<1>4. QED
  BY <1>1, <1>2, <1>3 DEF Sound

(* What a run has found stays sound, and so do the files.                     *)
LEMMA SoundStep ==
    ASSUME TypeOK, ContainerIsKnown, FoundIsSound, CheckpointIsSound, OutIsSound,
           Next \/ UNCHANGED vars
    PROVE  FoundIsSound' /\ CheckpointIsSound' /\ OutIsSound'
<1>1. CASE \E v \in Versions : Run(v)
  <2>1. PICK v \in Versions : Run(v)
    BY <1>1
  <2>2. checkpoint' = checkpoint /\ out' = out
        /\ (found' = found \/ (Readable(checkpoint) /\ found' = checkpoint.found))
    BY <2>1 DEF Run, fileVars, Resumable
  <2>3. QED
    BY <2>2 DEF FoundIsSound, CheckpointIsSound, OutIsSound
<1>2. CASE SweepRecall \/ Churn
  <2>1. checkpoint' = checkpoint /\ out' = out
    BY <1>2 DEF SweepRecall, SweepVariant, Churn, fileVars
  <2>2. CASE SweepRecall
    <3>1. \/ phase = "sweep" /\ found' = found \cup {Seen("standard")}
          \/ phase = "sweep_larger" /\ found' = found \cup {Seen("larger")}
      BY <2>2 DEF SweepRecall, SweepVariant
    <3>2. phase = "sweep" => Sound(Seen("standard"))
      BY SeenIsSound
    <3>3. phase = "sweep_larger" => Sound(Seen("larger"))
      BY SeenIsSound
    <3>4. QED
      BY <2>1, <3>1, <3>2, <3>3 DEF FoundIsSound, CheckpointIsSound, OutIsSound
  <2>3. CASE Churn
    <3>1. /\ phase = "churn"
          /\ found' = found \cup {ExactChurn} \/ found' = found \cup {Seen("churn")}
      BY <2>3 DEF Churn
    <3>2. Sound(Seen("churn"))
      BY <3>1, SeenIsSound
    <3>3. Sound(ExactChurn)
      BY ExactChurnType DEF Sound
    <3>4. QED
      BY <2>1, <3>1, <3>2, <3>3 DEF FoundIsSound, CheckpointIsSound, OutIsSound
  <2>4. QED
    BY <1>2, <2>2, <2>3
<1>3. CASE OpenCheckpoint \/ SaveCheckpoint
  <2>1. /\ found' = found /\ out' = out
        /\ checkpoint' = Torn \/ checkpoint' = [version |-> version, found |-> found]
    BY <1>3 DEF OpenCheckpoint, SaveCheckpoint
  <2>2. ~Readable(Torn)
    BY FilesAreReadable
  <2>3. QED
    BY <2>1, <2>2 DEF FoundIsSound, CheckpointIsSound, OutIsSound
<1>4. CASE OpenPartial \/ SavePartial \/ OpenResult \/ SaveResult
  <2>1. /\ found' = found \/ found' = {}
        /\ checkpoint' = checkpoint
        /\ out' = Torn \/ out'.found = found
    BY <1>4 DEF OpenPartial, OpenOut, SavePartial, OpenResult, SaveResult, Result, Stop
  <2>2. ~Readable(Torn)
    BY FilesAreReadable
  <2>3. QED
    BY <2>1, <2>2 DEF FoundIsSound, CheckpointIsSound, OutIsSound
<1>5. CASE Die
  BY <1>5 DEF Die, Stop, fileVars, FoundIsSound, CheckpointIsSound, OutIsSound
<1>6. CASE UNCHANGED <<found, fileVars>>
  BY <1>6 DEF fileVars, FoundIsSound, CheckpointIsSound, OutIsSound
<1>7. \/ SkipWrite \/ WriteTrial \/ WriteRest \/ BuildIndex \/ DropIndex
      \/ StopContainer \/ StartContainer \/ DropAugust \/ Truncate
      \/ Provision \/ UNCHANGED vars
      => UNCHANGED <<found, fileVars>>
  BY DEF SkipWrite, WriteTrial, WriteRest, Written, BuildIndex, BuildVariant, DropIndex,
     StopContainer, StartContainer, DropAugust, Truncate, Provision, vars, runVars, fileVars
<1>8. QED
  BY <1>1, <1>2, <1>3, <1>4, <1>5, <1>6, <1>7 DEF Next, Step

(* The parts make the property.                                               *)
LEMMA SoundnessFollows ==
    FoundIsSound /\ CheckpointIsSound /\ OutIsSound => MeasurementsAreSound
<1>1. ASSUME FoundIsSound, CheckpointIsSound, OutIsSound, NEW f \in Measured PROVE Sound(f)
  BY <1>1 DEF Measured, FoundIsSound, CheckpointIsSound, OutIsSound
<1>2. QED
  BY <1>1 DEF MeasurementsAreSound, Sound

-----------------------------------------------------------------------------
(* What has been found.                                                      *)

(* A measurement of a new kind is added to a set that has one of each.        *)
LEMMA AddedOnce ==
    ASSUME NEW S \in SUBSET Measurement, NEW f \in Measurement,
           OneEach(S), <<f.month, f.of>> \notin Keys(S)
    PROVE  OneEach(S \cup {f}) /\ Keys(S \cup {f}) = Keys(S) \cup {<<f.month, f.of>>}
<1>1. ASSUME NEW g \in S, g.month = f.month, g.of = f.of PROVE FALSE
  BY <1>1 DEF Keys
<1>2. OneEach(S \cup {f})
  BY <1>1 DEF OneEach
<1>3. Keys(S \cup {f}) = Keys(S) \cup {<<f.month, f.of>>}
  BY DEF Keys
<1>4. QED
  BY <1>2, <1>3

(* The kinds a run is yet to measure are not among those it has measured.     *)
LEMMA NotYetMeasured ==
    ASSUME TypeOK
    PROVE  /\ <<month, "standard">> \notin Before
           /\ <<month, "churn">> \notin Before \cup Standard
           /\ <<month, "exact">> \notin Before \cup Standard
           /\ <<month, "larger">> \notin Before \cup Both
<1>1. ASSUME NEW of \in {"standard", "larger", "churn", "exact"} PROVE <<month, of>> \notin Before
  <2>1. CASE month = "august" \/ args.trimmed
    BY <2>1 DEF Before
  <2>2. CASE month # "august"
    BY <2>2 DEF Before, OfAugust
  <2>3. QED
    BY <2>1, <2>2
<1>2. QED
  BY <1>1 DEF Standard, Both

(* What August leaves is what was asked of it.                                *)
LEMMA AugustIsWhole ==
    ASSUME month = "august", ~args.trimmed
    PROVE  Before \cup All = OfAugust
<1>1. Before = {}
  BY DEF Before
<1>2. All = {<<"august", "standard">>, <<"august", "churn">>}
            \cup (IF SkipsLarger("august") THEN {} ELSE {<<"august", "larger">>})
  BY DEF All, Both, Standard
<1>3. QED
  BY <1>1, <1>2 DEF OfAugust

(* What the switches make of a month.                                         *)
LEMMA SwitchesStay ==
    ASSUME args' = args
    PROVE  /\ SkipsLarger(month)' = SkipsLarger(month') /\ OfAugust' = OfAugust
           /\ month' = month =>
                  Before' = Before /\ Standard' = Standard /\ Both' = Both /\ All' = All
           /\ month' = "august" => Before' = {}
           /\ args.trimmed => Before' = {}
           /\ month' = "september" /\ ~args.trimmed => Before' = OfAugust
BY DEF SkipsLarger, OfAugust, Before, Standard, Both, All

(* A run begins with nothing, or with what its checkpoint holds.              *)
LEMMA RunFound ==
    ASSUME TypeOK, FoundOnce, FoundSoFar, CheckpointIsWhole, NEW v \in Versions, Run(v)
    PROVE  FoundOnce' /\ FoundOfVersion' /\ FoundSoFar'
<1>1. /\ phase = "off" /\ phase' = "write" /\ version' = v /\ args' = args /\ found = {}
  BY DEF Run, StartMonth, FoundSoFar
<1>2. \/ args.trimmed /\ found' = found
      \/ /\ ~args.trimmed /\ Resumable(v) /\ found' = checkpoint.found /\ month' = "september"
      \/ /\ ~args.trimmed /\ month' = "august" /\ found' = found
  BY DEF Run, StartMonth
<1>3. OneEach(found') /\ OfVersion(found', v) /\ Keys(found') = Before'
  <2>1. OneEach({}) /\ OfVersion({}, v) /\ Keys({}) = {}
    BY DEF OneEach, OfVersion, Keys
  <2>2. Resumable(v) => /\ OneEach(checkpoint.found) /\ OfVersion(checkpoint.found, v)
                        /\ Keys(checkpoint.found) = OfAugust
    BY DEF CheckpointIsWhole, Resumable
  <2>3. QED
    BY <1>1, <1>2, <2>1, <2>2, SwitchesStay
<1>4. QED
  BY <1>1, <1>3 DEF FoundOnce, FoundOfVersion, FoundSoFar, Between

(* A sweep finds one measurement more.                                        *)
LEMMA SweepFound ==
    ASSUME TypeOK, RunIsInPlace, FoundOnce, FoundOfVersion, FoundSoFar, SweepRecall \/ Churn
    PROVE  FoundOnce' /\ FoundOfVersion' /\ FoundSoFar'
<1>1. /\ month' = month /\ version' = version /\ args' = args
      /\ phase # "off" /\ found \subseteq Measurement
  BY DEF SweepRecall, SweepVariant, Churn, Goto, TypeOK
<1>2. /\ Before' = Before /\ Standard' = Standard /\ Both' = Both /\ All' = All
  BY <1>1, SwitchesStay
<1>3. ASSUME NEW f \in Measurement, f.month = month, f.version = version,
             <<f.month, f.of>> \notin Keys(found), found' = found \cup {f}
      PROVE  FoundOnce' /\ FoundOfVersion' /\ Keys(found') = Keys(found) \cup {<<month, f.of>>}
  <2>1. OneEach(found') /\ Keys(found') = Keys(found) \cup {<<month, f.of>>}
    BY <1>1, <1>3, AddedOnce DEF FoundOnce
  <2>2. OfVersion(found', version)
    BY <1>1, <1>3 DEF FoundOfVersion, OfVersion
  <2>3. QED
    BY <1>1, <2>1, <2>2 DEF FoundOnce, FoundOfVersion
<1>4. CASE SweepVariant("standard", "sweep", "churn")
  <2>1. /\ phase = "sweep" /\ phase' = "churn" /\ found' = found \cup {Seen("standard")}
    BY <1>4 DEF SweepVariant, Goto
  <2>2. Keys(found) = Before /\ <<month, "standard">> \notin Before
    BY <2>1, NotYetMeasured DEF FoundSoFar
  <2>3. FoundOnce' /\ FoundOfVersion' /\ Keys(found') = Before' \cup Standard'
    BY <1>2, <1>3, <2>1, <2>2, SeenType DEF Standard
  <2>4. QED
    BY <2>1, <2>3 DEF FoundSoFar, Between
<1>5. CASE SweepVariant("larger", "sweep_larger", "drop_larger")
  <2>1. /\ phase = "sweep_larger" /\ phase' = "drop_larger" /\ found' = found \cup {Seen("larger")}
        /\ ~SkipsLarger(month)
    BY <1>5 DEF SweepVariant, Goto, RunIsInPlace, Larger
  <2>2. Keys(found) = Before \cup Both /\ <<month, "larger">> \notin Before \cup Both
    BY <2>1, NotYetMeasured DEF FoundSoFar
  <2>3. Before \cup Both \cup {<<month, "larger">>} = Before \cup All
    BY <2>1 DEF All
  <2>4. FoundOnce' /\ FoundOfVersion' /\ Keys(found') = Before' \cup All'
    BY <1>2, <1>3, <2>1, <2>2, <2>3, SeenType
  <2>5. QED
    BY <2>1, <2>4 DEF FoundSoFar, Between
<1>6. CASE Churn
  <2>1. /\ phase = "churn" /\ phase' \in {"drop", "partial"}
        /\ args.trimmed => found' = found \cup {ExactChurn}
        /\ ~args.trimmed => found' = found \cup {Seen("churn")}
    BY <1>6 DEF Churn, Goto
  <2>2. Keys(found) = Before \cup Standard
    BY <2>1 DEF FoundSoFar
  <2>3. /\ <<month, "churn">> \notin Before \cup Standard
        /\ <<month, "exact">> \notin Before \cup Standard
    BY NotYetMeasured
  <2>4. FoundOnce' /\ FoundOfVersion' /\ Keys(found') = Before' \cup Both'
    <3>1. CASE args.trimmed
      <4>1. Before \cup Standard \cup {<<month, "exact">>} = Before \cup Both
        BY <3>1 DEF Both
      <4>2. QED
        BY <1>2, <1>3, <2>1, <2>2, <2>3, <3>1, <4>1, ExactChurnType
    <3>2. CASE ~args.trimmed
      <4>1. Before \cup Standard \cup {<<month, "churn">>} = Before \cup Both
        BY <3>2 DEF Both
      <4>2. QED
        BY <1>2, <1>3, <2>1, <2>2, <2>3, <3>2, <4>1, SeenType
    <3>3. QED
      BY <3>1, <3>2
  <2>5. QED
    BY <2>1, <2>4 DEF FoundSoFar, Between
<1>7. QED
  BY <1>4, <1>5, <1>6 DEF SweepRecall

(* Which measurements have been made is known after every step.               *)
LEMMA FoundStep ==
    ASSUME TypeOK, RunIsInPlace, FoundOnce, FoundOfVersion, FoundSoFar, CheckpointIsWhole,
           Next \/ UNCHANGED vars
    PROVE  FoundOnce' /\ FoundOfVersion' /\ FoundSoFar'
<1>1. args' = args
  BY ArgsStay
<1>2. CASE \E v \in Versions : Run(v)
  BY <1>2, RunFound
<1>3. CASE SweepRecall \/ Churn
  BY <1>3, SweepFound
<1>4. CASE SaveResult \/ Die
  <2>1. found' = {} /\ phase' = "off"
    BY <1>4 DEF SaveResult, Die, Stop
  <2>2. QED
    BY <2>1 DEF FoundOnce, FoundOfVersion, FoundSoFar, OneEach, Between
<1>5. CASE StartContainer \/ Truncate
  <2>1. /\ phase \in Between /\ phase' = "write" /\ month = "august" /\ month' = "september"
        /\ found' = found /\ version' = version /\ ~args.trimmed
    BY <1>5 DEF StartContainer, Truncate, StartMonth, RunIsInPlace, Between
  <2>2. Keys(found) = OfAugust
    BY <2>1, AugustIsWhole DEF FoundSoFar, Between
  <2>3. Before' = OfAugust
    BY <1>1, <2>1, SwitchesStay
  <2>4. Keys(found') = Before'
    BY <2>1, <2>2, <2>3
  <2>5. QED
    BY <2>1, <2>4 DEF FoundOnce, FoundOfVersion, FoundSoFar, OfVersion, Between
<1>6. ASSUME found' = found, version' = version, month' = month, phase # "off" \/ phase' = "off"
      PROVE  /\ FoundOnce' /\ FoundOfVersion'
             /\ Before' = Before /\ Standard' = Standard /\ Both' = Both /\ All' = All
  BY <1>1, <1>6, SwitchesStay DEF FoundOnce, FoundOfVersion
<1>7. CASE SkipWrite \/ WriteTrial \/ WriteRest \/ BuildIndex
  <2>1. /\ found' = found /\ version' = version /\ month' = month /\ phase # "off"
        /\ \/ phase \in {"write", "build", "sweep"} /\ phase' \in {"write", "build", "sweep"}
           \/ phase = "build_larger" /\ phase' = "sweep_larger"
    BY <1>7 DEF SkipWrite, WriteTrial, WriteRest, Written, BuildIndex, BuildVariant, Goto
  <2>2. QED
    BY <1>6, <2>1 DEF FoundSoFar, Between
<1>8. CASE DropIndex \/ SavePartial
  <2>1. /\ found' = found /\ version' = version /\ month' = month
        /\ \/ phase \in {"drop", "save_partial"} /\ phase' \in {"drop", "build_larger"}
           \/ /\ phase \in {"drop", "save_partial"} /\ phase' \in {"checkpoint", "result"}
              /\ SkipsLarger(month)
           \/ phase = "drop_larger" /\ phase' \in {"checkpoint", "result"}
    BY <1>8 DEF DropIndex, SavePartial, AfterLarger, Goto
  <2>2. SkipsLarger(month) => Before \cup Both = Before \cup All
    BY DEF All
  <2>3. QED
    BY <1>6, <2>1, <2>2 DEF FoundSoFar, Between
<1>9. CASE \/ OpenCheckpoint \/ SaveCheckpoint \/ StopContainer \/ DropAugust
           \/ OpenPartial \/ OpenResult
  <2>1. /\ found' = found /\ version' = version /\ month' = month
        /\ \/ phase \in Between /\ phase' \in Between
           \/ phase = "partial" /\ phase' = "save_partial"
           \/ phase = "result" /\ phase' = "save_result"
    BY <1>9 DEF OpenCheckpoint, SaveCheckpoint, StopContainer, DropAugust, OpenPartial, OpenResult,
       OpenOut, Goto, Between
  <2>2. QED
    BY <1>6, <2>1 DEF FoundSoFar, Between
<1>10. CASE Provision \/ UNCHANGED vars
  <2>1. found' = found /\ version' = version /\ month' = month /\ phase' = phase
    BY <1>10 DEF Provision, vars, runVars
  <2>2. QED
    BY <1>6, <2>1 DEF FoundSoFar
<1>11. QED
  BY <1>2, <1>3, <1>4, <1>5, <1>7, <1>8, <1>9, <1>10 DEF Next, Step

-----------------------------------------------------------------------------
(* The files.                                                                *)

(* A checkpoint is written when all of August has been found.                 *)
LEMMA CheckpointStep ==
    ASSUME TypeOK, RunIsInPlace, FoundOnce, FoundOfVersion, FoundSoFar, CheckpointIsWhole,
           Next \/ UNCHANGED vars
    PROVE  CheckpointIsWhole'
<1>1. args' = args /\ OfAugust' = OfAugust
  BY ArgsStay, SwitchesStay
<1>2. CASE OpenCheckpoint
  BY <1>2, FilesAreReadable DEF OpenCheckpoint, CheckpointIsWhole
<1>3. CASE SaveCheckpoint
  <2>1. /\ phase = "save_checkpoint" /\ month = "august" /\ ~args.trimmed
        /\ checkpoint' = [version |-> version, found |-> found]
    BY <1>3 DEF SaveCheckpoint, RunIsInPlace, Between
  <2>2. Keys(found) = OfAugust
    BY <2>1, AugustIsWhole DEF FoundSoFar, Between
  <2>3. OneEach(found) /\ OfVersion(found, version)
    BY <2>1 DEF FoundOnce, FoundOfVersion
  <2>4. checkpoint'.version = version /\ checkpoint'.found = found
    BY <2>1
  <2>5. QED
    BY <1>1, <2>1, <2>2, <2>3, <2>4 DEF CheckpointIsWhole
<1>4. CASE checkpoint' = checkpoint
  BY <1>1, <1>4 DEF CheckpointIsWhole
<1>5. OpenCheckpoint \/ SaveCheckpoint \/ checkpoint' = checkpoint
  BY DEF Next, Run, Step, SkipWrite, WriteTrial, WriteRest, Written, BuildIndex, BuildVariant,
     SweepRecall, SweepVariant, Churn, DropIndex, StopContainer, StartContainer, DropAugust,
     Truncate, OpenPartial, OpenOut, SavePartial, OpenResult, SaveResult, Die, Provision, vars,
     fileVars
<1>6. QED
  BY <1>2, <1>3, <1>4, <1>5

(* The measurements of a set with one of each kind are as many as the kinds.  *)
LEMMA AsManyAsKinds ==
    ASSUME NEW S \in SUBSET Measurement, OneEach(S), IsFiniteSet(Keys(S))
    PROVE  Cardinality(S) = Cardinality(Keys(S))
<1> DEFINE Made(k) == CHOOSE f \in S : <<f.month, f.of>> = k
           made == [k \in Keys(S) |-> Made(k)]
<1>1. ASSUME NEW k \in Keys(S) PROVE Made(k) \in S /\ <<Made(k).month, Made(k).of>> = k
  <2>1. \E f \in S : <<f.month, f.of>> = k
    BY DEF Keys
  <2>2. QED
    BY <2>1
<1>2. ASSUME NEW f \in S PROVE <<f.month, f.of>> \in Keys(S) /\ Made(<<f.month, f.of>>) = f
  <2>1. <<f.month, f.of>> \in Keys(S)
    BY DEF Keys
  <2>2. /\ Made(<<f.month, f.of>>) \in S
        /\ Made(<<f.month, f.of>>).month = f.month /\ Made(<<f.month, f.of>>).of = f.of
    BY <1>1, <2>1
  <2>3. QED
    BY <2>1, <2>2 DEF OneEach
<1> HIDE DEF Made
<1>3. made \in [Keys(S) -> S]
  BY <1>1
<1>4. \A k, l \in Keys(S) : made[k] = made[l] => k = l
  BY <1>1
<1>5. \A f \in S : \E k \in Keys(S) : made[k] = f
  BY <1>2
<1>6. made \in Bijection(Keys(S), S)
  BY <1>3, <1>4, <1>5 DEF Bijection, Injection, Surjection, IsInjective
<1>7. ExistsBijection(Keys(S), S)
  BY <1>6 DEF ExistsBijection
<1> HIDE DEF made
<1>8. QED
  BY <1>7, FS_Bijection

(* There are finitely many measurements to be made.                           *)
LEMMA AskedIsFinite ==
    IsFiniteSet(Asked)
<1>1. IsFiniteSet(Months \X {"standard", "larger", "churn", "exact"})
  <2>1. ASSUME NEW x, NEW y PROVE IsFiniteSet({x, y})
    <3>1. {x, y} = {x} \cup {y}
      OBVIOUS
    <3>2. IsFiniteSet({x})
      BY FS_Singleton
    <3>3. QED
      BY <3>1, <3>2, FS_AddElement
  <2>2. {"standard", "larger", "churn", "exact"} = {"standard", "larger"} \cup {"churn", "exact"}
    OBVIOUS
  <2>3. IsFiniteSet({"standard", "larger", "churn", "exact"})
    <3>1. IsFiniteSet({"standard", "larger"}) /\ IsFiniteSet({"churn", "exact"})
      BY <2>1
    <3>2. IsFiniteSet({"standard", "larger"} \cup {"churn", "exact"})
      BY <3>1, FS_Union
    <3>3. QED
      BY <2>2, <3>2
  <2>4. QED
    BY <2>1, <2>3, FS_Product DEF Months
<1>2. Asked \subseteq Months \X {"standard", "larger", "churn", "exact"}
  <2>1. CASE args.trimmed
    BY <2>1 DEF Asked, Months
  <2>2. CASE ~args.trimmed
    BY <2>2 DEF Asked, Months
  <2>3. QED
    BY <2>1, <2>2
<1>3. QED
  BY <1>1, <1>2, FS_Subset

(* When September is over, all that was asked for has been measured.          *)
LEMMA SeptemberIsWhole ==
    ASSUME TypeOK, month = "september"
    PROVE  Before \cup All = Asked
<1>1. CASE args.trimmed
  <2>1. SkipsLarger(month) <=> args.skipLarger
    BY DEF SkipsLarger
  <2>2. Before = {}
    BY <1>1 DEF Before
  <2>3. All = {<<"september", "standard">>, <<"september", "exact">>}
              \cup (IF args.skipLarger THEN {} ELSE {<<"september", "larger">>})
    BY <1>1, <2>1 DEF All, Both, Standard
  <2>4. QED
    BY <1>1, <2>2, <2>3 DEF Asked
<1>2. CASE ~args.trimmed
  <2>1. Before = OfAugust
    BY <1>2 DEF Before
  <2>2. All = {<<"september", "standard">>, <<"september", "churn">>}
              \cup (IF SkipsLarger("september") THEN {} ELSE {<<"september", "larger">>})
    BY <1>2 DEF All, Both, Standard
  <2>3. QED
    BY <1>2, <2>1, <2>2 DEF Asked, OfAugust, Months
<1>3. QED
  BY <1>1, <1>2

(* A full result is saved when all that was asked for has been found.         *)
LEMMA SavedIsWhole ==
    ASSUME TypeOK, RunIsInPlace, FoundOnce, FoundOfVersion, FoundSoFar,
           Next \/ UNCHANGED vars, SaveResult
    PROVE  ResultIsWhole'
<1>1. Asked' = Asked
  BY ArgsStay DEF Asked, SkipsLarger
<1>2. phase = "save_result" /\ month = "september" /\ out'.found = found
  BY DEF SaveResult, Result, RunIsInPlace, Finishing
<1>3. Keys(found) = Asked
  BY <1>2, SeptemberIsWhole DEF FoundSoFar
<1>4. Cardinality(found) = Cardinality(Asked)
  BY <1>3, AsManyAsKinds, AskedIsFinite DEF FoundOnce, TypeOK
<1>5. \E v \in Versions : \A f \in found : f.version = v
  BY <1>2 DEF FoundOfVersion, OfVersion, TypeOK
<1>6. {<<f.month, f.of>> : f \in out'.found} = Asked'
  BY <1>1, <1>2, <1>3 DEF Keys
<1>7. Cardinality(out'.found) = Cardinality(Asked')
  BY <1>1, <1>2, <1>4
<1>8. \E v \in Versions : \A f \in out'.found : f.version = v
  BY <1>2, <1>5
<1>9. QED
  BY <1>6, <1>7, <1>8 DEF ResultIsWhole

(* A result that is not partial is whole.                                     *)
LEMMA ResultStep ==
    ASSUME TypeOK, RunIsInPlace, FoundOnce, FoundOfVersion, FoundSoFar, ResultIsWhole,
           Next \/ UNCHANGED vars
    PROVE  ResultIsWhole'
<1>1. Asked' = Asked
  BY ArgsStay DEF Asked, SkipsLarger
<1>2. CASE OpenPartial \/ OpenResult
  BY <1>2, FilesAreReadable DEF OpenPartial, OpenResult, OpenOut, ResultIsWhole
<1>3. CASE SavePartial
  BY <1>3 DEF SavePartial, Result, ResultIsWhole
<1>4. CASE SaveResult
  BY <1>4, SavedIsWhole
<1>5. CASE out' = out
  BY <1>1, <1>5 DEF ResultIsWhole
<1>6. OpenPartial \/ OpenResult \/ SavePartial \/ SaveResult \/ out' = out
  BY DEF Next, Run, Step, SkipWrite, WriteTrial, WriteRest, Written, BuildIndex, BuildVariant,
     SweepRecall, SweepVariant, Churn, DropIndex, OpenCheckpoint, SaveCheckpoint, StopContainer,
     StartContainer, DropAugust, Truncate, Die, Provision, vars, fileVars
<1>7. QED
  BY <1>2, <1>3, <1>4, <1>5, <1>6

(* While the larger variant is measured, what there was before it is on file. *)
LEMMA RiskStep ==
    ASSUME TypeOK, RunIsInPlace, FoundOnce, FoundSoFar, LargerVariantRisksNothing,
           Next \/ UNCHANGED vars
    PROVE  LargerVariantRisksNothing'
<1> DEFINE Risky == {"drop", "build_larger", "sweep_larger", "drop_larger"}
           Rest(S) == {f \in S : f.month = "september" => f.of # "larger"}
<1>1. CASE SavePartial
  <2>1. /\ phase = "save_partial" /\ found' = found /\ out' = [partial |-> "yes", found |-> found]
        /\ found \subseteq Measurement
    BY <1>1 DEF SavePartial, Result, TypeOK
  <2>2. Readable(out') /\ out'.found = found
    <3>1. out' \in Output
      BY <2>1 DEF Output
    <3>2. QED
      BY <2>1, <3>1, FilesAreReadable
  <2>3. ASSUME NEW f \in found, f.month = "september" PROVE f.of # "larger"
    <3>1. <<f.month, f.of>> \in Before \cup Both
      BY <2>1 DEF FoundSoFar, Keys
    <3>2. <<"september", "larger">> \notin Before \cup Both
      BY DEF Before, OfAugust, Both, Standard
    <3>3. QED
      BY <2>3, <3>1, <3>2
  <2>4. QED
    BY <2>1, <2>2, <2>3 DEF LargerVariantRisksNothing
<1>2. CASE SweepRecall
  <2>1. CASE phase = "sweep"
    BY <1>2, <2>1 DEF SweepRecall, SweepVariant, Goto, LargerVariantRisksNothing
  <2>2. CASE phase = "sweep_larger"
    <3>1. /\ phase' = "drop_larger" /\ month' = month /\ out' = out
          /\ found' = found \cup {Seen("larger")}
      BY <1>2, <2>2 DEF SweepRecall, SweepVariant, Goto, fileVars
    <3>2. Seen("larger").month = month /\ Seen("larger").of = "larger"
      BY SeenType
    <3>3. QED
      BY <2>2, <3>1, <3>2 DEF LargerVariantRisksNothing
  <2>3. QED
    BY <1>2, <2>1, <2>2 DEF SweepRecall, SweepVariant
<1>3. CASE Churn
  BY <1>3 DEF Churn, Goto, LargerVariantRisksNothing
<1>4. CASE BuildIndex \/ DropIndex
  <2>1. /\ month' = month /\ found' = found /\ out' = out
        /\ phase' \in Risky => phase \in Risky
    BY <1>4 DEF BuildIndex, BuildVariant, DropIndex, Goto, AfterLarger, fileVars
  <2>2. QED
    BY <2>1 DEF LargerVariantRisksNothing
<1>5. CASE UNCHANGED vars \/ Provision
  BY <1>5 DEF vars, runVars, fileVars, Provision, LargerVariantRisksNothing
<1>6. CASE phase' \notin Risky
  BY <1>6 DEF LargerVariantRisksNothing
<1>7. \/ SavePartial \/ SweepRecall \/ Churn \/ BuildIndex \/ DropIndex
      \/ UNCHANGED vars \/ Provision \/ phase' \notin Risky
  <2>1. ASSUME NEW v \in Versions, Run(v) PROVE phase' \notin Risky
    BY <2>1 DEF Run, StartMonth
  <2>2. SkipWrite \/ WriteTrial \/ WriteRest => phase' \notin Risky
    BY DEF SkipWrite, WriteTrial, WriteRest, Written, Goto
  <2>3. \/ OpenCheckpoint \/ SaveCheckpoint \/ StopContainer
        \/ StartContainer \/ DropAugust \/ Truncate
        => phase' \notin Risky
    BY DEF OpenCheckpoint, SaveCheckpoint, StopContainer, StartContainer, DropAugust, Truncate,
       Goto, StartMonth
  <2>4. OpenPartial \/ OpenResult \/ SaveResult \/ Die => phase' \notin Risky
    BY DEF OpenPartial, OpenResult, OpenOut, SaveResult, Die, Goto, Stop
  <2>5. QED
    BY <2>1, <2>2, <2>3, <2>4 DEF Next, Step
<1>8. QED
  BY <1>1, <1>2, <1>3, <1>4, <1>5, <1>6, <1>7

-----------------------------------------------------------------------------
(* The theorems.                                                             *)

(* The invariant holds at the start.                                          *)
LEMMA ChurnInit ==
    ASSUME Init
    PROVE  ChurnInv
<1> USE DEF Init
<1>1. /\ 1 \in 1 .. Parts + 1 /\ 0 \in 0 .. MaxDeaths /\ 1 <= Parts
  BY RecallAssumption
<1>2. TypeOK
  BY <1>1, FreshType DEF TypeOK, Phases, Months
<1>3. RunIsInPlace /\ GoneIsEmpty
  BY DEF RunIsInPlace, GoneIsEmpty, Between, Finishing, Larger
<1>4. ContainerIsKnown
  BY DEF ContainerIsKnown, IndexIsKnown, RowsAreKnown, OthersAreWhole, WrittenSoFar, IndexedIsWhole,
     Indexed, Fresh
<1>5. FoundIsSound /\ CheckpointIsSound /\ OutIsSound
  BY FilesAreReadable DEF FoundIsSound, CheckpointIsSound, OutIsSound
<1>6. FoundOnce /\ FoundOfVersion /\ FoundSoFar
  BY DEF FoundOnce, OneEach, FoundOfVersion, FoundSoFar, Between
<1>7. CheckpointIsWhole /\ ResultIsWhole /\ LargerVariantRisksNothing
  BY FilesAreReadable DEF CheckpointIsWhole, ResultIsWhole, LargerVariantRisksNothing
<1>8. QED
  BY <1>2, <1>3, <1>4, <1>5, <1>6, <1>7 DEF ChurnInv

(* It is kept by every step.                                                  *)
LEMMA ChurnStep ==
    ASSUME ChurnInv, Next \/ UNCHANGED vars
    PROVE  ChurnInv'
<1> USE DEF ChurnInv
<1>1. TypeOK' /\ RunIsInPlace'
  BY TypeStep, PlaceStep
<1>2. GoneIsEmpty' /\ ContainerIsKnown'
  BY GoneStep, ContainerStep
<1>3. FoundIsSound' /\ CheckpointIsSound' /\ OutIsSound'
  BY SoundStep
<1>4. FoundOnce' /\ FoundOfVersion' /\ FoundSoFar'
  BY FoundStep
<1>5. CheckpointIsWhole' /\ ResultIsWhole' /\ LargerVariantRisksNothing'
  BY CheckpointStep, ResultStep, RiskStep
<1>6. QED
  BY <1>1, <1>2, <1>3, <1>4, <1>5

(* It holds always.                                                           *)
LEMMA ChurnInvariant ==
    Spec => []ChurnInv
<1>1. Init => ChurnInv
  BY ChurnInit
<1>2. ChurnInv /\ [Next]_vars => ChurnInv'
  BY ChurnStep
<1>3. QED
  BY <1>1, <1>2, PTL DEF Spec

(* The types of the measurement's state.                                      *)
THEOREM MeasurementTypeCorrect ==
    Spec => []TypeOK
<1>1. ChurnInv => TypeOK
  BY DEF ChurnInv
<1>2. QED
  BY <1>1, ChurnInvariant, PTL

(* In a container in which no run has died, a measurement is taken over the   *)
(* index it is reported for and, when its month was written by COPY, over all *)
(* of the month's rows.                                                       *)
THEOREM MeasurementsCorrect ==
    Spec => []MeasurementsAreSound
<1>1. ChurnInv => MeasurementsAreSound
  BY SoundnessFollows DEF ChurnInv
<1>2. QED
  BY <1>1, ChurnInvariant, PTL

(* A result that is not partial has exactly what was asked for, of one version. *)
THEOREM ResultsWhole ==
    Spec => []ResultIsWhole
<1>1. ChurnInv => ResultIsWhole
  BY DEF ChurnInv
<1>2. QED
  BY <1>1, ChurnInvariant, PTL

(* While September's larger variant is built and measured, everything that    *)
(* was measured before it is in the result file.                              *)
THEOREM PartialResultFirst ==
    Spec => []LargerVariantRisksNothing
<1>1. ChurnInv => LargerVariantRisksNothing
  BY DEF ChurnInv
<1>2. QED
  BY <1>1, ChurnInvariant, PTL
=============================================================================
