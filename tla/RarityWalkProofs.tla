-------------------------- MODULE RarityWalkProofs --------------------------
(***************************************************************************)
(* Proofs about RarityWalk, for any number of walks, releases and          *)
(* attempts and any page size.                                             *)
(***************************************************************************)
EXTENDS RarityWalk, FiniteSetTheorems, TLAPS

\* A walk that is not under way holds nothing.
NothingHeld ==
    \A w \in Walks :
        /\ ~Active(w) => present[w] = {}
        /\ step[w] \in {"idle", "delete", "deleting"} => after[w] = 0
        /\ ~Open(w) => copied[w] = {} /\ target[w] = {} /\ deleted[w] = {}
        /\ step[w] = "deleting" => copied[w] = {} /\ deleted[w] = {}

\* What was in the catalog all along and lies behind the cursor has been seen.
CountedSoFar ==
    \A w \in Walks :
        /\ present[w] \subseteq catalog
        /\ step[w] = "count" => \A r \in present[w] : r <= after[w] => r \in counted[w]
        /\ Counted(w) => present[w] \subseteq counted[w]

CopiedSoFar ==
    \A w \in Walks :
        /\ step[w] \in {"copy", "store"} => \A r \in present[w] : r <= after[w] => r \in copied[w]
        /\ step[w] = "store" =>
              \A r \in present[w] :
                  last[w] \/ (\E n \in page[w] : r <= n) => r \in copied[w] \cup page[w]
        /\ step[w] = "commit" => present[w] \subseteq copied[w]

\* A walk that gets to its second pass has counted at least one release.
TotalIsPositive == \A w \in Walks : Counted(w) => total[w] \in Nat \ {0}

WalkInv == TypeOK /\ NothingHeld /\ CountedSoFar /\ CopiedSoFar /\ TotalIsPositive

-----------------------------------------------------------------------------
\* A release that was always there is in the table a walk has committed ...
OnlyEarlier == \A row \in table : row.walk = Earlier

AnchorsStay ==
    /\ anchors \subseteq catalog
    /\ \A w \in Walks : Active(w) => anchors \subseteq present[w]
    /\ OnlyEarlier \/ anchors \subseteq Ids(table)

\* ... committed rows are those of walks that are over ...
Ended(row) == row.walk = Earlier \/ (row.walk \in Walks /\ step[row.walk] = "done")

RowsAreOfEndedWalks ==
    /\ \A row \in table : Ended(row)
    /\ \A w \in Walks : \A row \in target[w] : Ended(row)

\* ... what a transaction saw or deleted of the table is all of it or nothing ...
WholeOrNothing ==
    \A w \in Walks :
        /\ deleted[w] \subseteq target[w]
        /\ table \subseteq target[w] \/ table \cap target[w] = {}
        /\ table \subseteq deleted[w] \/ table \cap deleted[w] = {}

\* ... no release is copied by two open transactions ...
CopiesAreDisjoint == \A u, w \in Walks : u # w => copied[u] \cap copied[w] = {}

\* ... until the first commit a transaction saw the whole table ...
EarlierIsDeleted ==
    OnlyEarlier =>
        \A w \in Walks :
            /\ Open(w) => table \subseteq target[w]
            /\ Open(w) /\ step[w] # "deleting" => table \subseteq deleted[w]

\* ... and a walk that has copied an anchor has deleted the table.
AnchorsReplaceTheTable ==
    \A w \in Walks : copied[w] \cap anchors # {} => table \subseteq deleted[w]

AnchorInv ==
    /\ WholeOrNothing /\ EarlierIsDeleted /\ AnchorsReplaceTheTable
    /\ \A a, b \in table : a.walk = b.walk

TableInv ==
    /\ WalkInv /\ AnchorsStay /\ RowsAreOfEndedWalks /\ CopiesAreDisjoint
    /\ anchors # {} => AnchorInv

-----------------------------------------------------------------------------
(* Types                                                                     *)

LEMMA CatalogIsFinite == ASSUME TypeOK PROVE Cardinality(catalog) \in Nat
<1>1. IsFiniteSet(Releases)
  BY FS_Interval, RarityAssumption DEF Releases, RarityAssumption
<1>2. IsFiniteSet(catalog)
  BY <1>1, FS_Subset DEF TypeOK
<1>3. QED
  BY <1>2, FS_CardinalityType

(* The total of a walk after a page. *)
LEMMA TotalType == ASSUME TypeOK, NEW w \in Walks PROVE TotalAfter(w) \in {NoTotal} \cup Nat
BY CatalogIsFinite DEF TypeOK, TotalAfter

(* The end of a walk keeps the types. *)
LEMMA EndType ==
    ASSUME TypeOK, NEW w \in Walks, End(w), table' \subseteq Rows
    PROVE  TypeOK'
<1>1. 0 \in 0 .. NumReleases /\ 1 \in 1 .. MaxAttempts
  BY RarityAssumption DEF RarityAssumption
<1>2. QED
  BY <1>1 DEF End, Goto, TypeOK, catalogVars

(* Every step keeps the types. *)
LEMMA TypeStep ==
    ASSUME TypeOK, [Next]_vars
    PROVE  TypeOK'
<1> USE DEF catalogVars, countVars, pageVars, txnVars
<1>0. 0 \in 0 .. NumReleases /\ 1 \in 1 .. MaxAttempts /\ Releases \subseteq 0 .. NumReleases
  BY RarityAssumption DEF RarityAssumption, Releases
<1>1. ASSUME NEW r \in Releases, Add(r) PROVE TypeOK'
  BY <1>1 DEF Add, TypeOK
<1>2. ASSUME NEW r \in Releases, Remove(r) PROVE TypeOK'
  BY <1>2 DEF Remove, TypeOK
<1>3. ASSUME NEW w \in Walks, Begin(w) PROVE TypeOK'
  BY <1>3 DEF Begin, Goto, TypeOK
<1>4. ASSUME NEW w \in Walks, CountPage(w) PROVE TypeOK'
  <2>1. step' = step \/ step' = [step EXCEPT ![w] = "delete"]
    BY <1>4 DEF CountPage, Goto
  <2>2. after' \in [Walks -> 0 .. NumReleases]
    <3>1. \E next \in 0 .. NumReleases : after' = [after EXCEPT ![w] = next]
      BY <1>0, <1>4 DEF CountPage
    <3>2. QED
      BY <3>1 DEF TypeOK
  <2>3. counted' \in [Walks -> SUBSET Releases]
    BY <1>4 DEF CountPage, TypeOK
  <2>4. total' \in [Walks -> {NoTotal} \cup Nat] /\ attempt' \in [Walks -> 1 .. MaxAttempts]
    BY <1>0, <1>4, TotalType DEF CountPage, TypeOK
  <2>5. QED
    BY <1>4, <2>1, <2>2, <2>3, <2>4 DEF CountPage, TypeOK
<1>5. ASSUME NEW w \in Walks, BeginDelete(w) PROVE TypeOK'
  BY <1>5 DEF BeginDelete, Goto, TypeOK
<1>6. ASSUME NEW w \in Walks, FinishDelete(w) PROVE TypeOK'
  BY <1>6 DEF FinishDelete, Goto, TypeOK
<1>7. ASSUME NEW w \in Walks, FetchPage(w) PROVE TypeOK'
  BY <1>0, <1>7 DEF FetchPage, Goto, TypeOK
<1>8. ASSUME NEW w \in Walks, StorePage(w) PROVE TypeOK'
  BY <1>0, <1>8 DEF StorePage, Goto, TypeOK
<1>9. ASSUME NEW w \in Walks, Commit(w) PROVE TypeOK'
  <2>1. table' \subseteq Rows
    BY <1>9 DEF Commit, TypeOK, Rows
  <2>2. QED
    BY <1>9, <2>1, EndType DEF Commit
<1>10. ASSUME NEW w \in Walks, RetryPage(w) PROVE TypeOK'
  <2>1. attempt[w] + 1 \in 1 .. MaxAttempts
    BY <1>10, RarityAssumption DEF RetryPage, TypeOK, RarityAssumption
  <2>2. QED
    BY <1>10, <2>1 DEF RetryPage, TypeOK
<1>11. ASSUME NEW w \in Walks, Rollback(w) PROVE TypeOK'
  BY <1>11, EndType DEF Rollback, TypeOK
<1>12. CASE UNCHANGED vars
  BY <1>12 DEF vars, TypeOK
<1>13. QED
  BY <1>1, <1>2, <1>3, <1>4, <1>5, <1>6, <1>7, <1>8, <1>9, <1>10, <1>11, <1>12
     DEF Next, Walk, NothingToStore, DuplicateKey, WalkShort, GiveUp, Fails

(* A walk keeps to its types at every step.                                  *)
THEOREM TypeCorrect == Spec => []TypeOK
<1>1. Init => TypeOK
  <2>1. 0 \in 0 .. NumReleases /\ 1 \in 1 .. MaxAttempts
    BY RarityAssumption DEF RarityAssumption
  <2>2. QED
    BY <2>1 DEF Init, TypeOK, Rows
<1>2. TypeOK /\ [Next]_vars => TypeOK'
  BY TypeStep
<1>3. QED
  BY <1>1, <1>2, PTL DEF Spec

-----------------------------------------------------------------------------
(* The walk.                                                                 *)

(* A walk that is not under way holds nothing. *)
LEMMA HeldStep ==
    ASSUME TypeOK, TypeOK', NothingHeld, [Next]_vars
    PROVE  NothingHeld'
<1> USE RarityAssumption DEF catalogVars, countVars, pageVars, txnVars, Open, Counted, Active, TypeOK, NothingHeld
<1>1. ASSUME NEW r \in Releases, Add(r) PROVE NothingHeld'
  BY <1>1 DEF Add
<1>2. ASSUME NEW r \in Releases, Remove(r) PROVE NothingHeld'
  BY <1>2 DEF Remove
<1>3. ASSUME NEW w \in Walks, Begin(w) PROVE NothingHeld'
  BY <1>3 DEF Begin, Goto
<1>4. ASSUME NEW w \in Walks, CountPage(w) PROVE NothingHeld'
  <2>1. /\ step[w] = "count" /\ UNCHANGED <<present, copied, target, deleted>>
        /\ \/ step' = step /\ \E next \in Releases : after' = [after EXCEPT ![w] = next]
           \/ step' = [step EXCEPT ![w] = "delete"] /\ after' = [after EXCEPT ![w] = 0]
    BY <1>4 DEF CountPage, Goto
  <2>2. QED
    BY <2>1
<1>5. ASSUME NEW w \in Walks, BeginDelete(w) PROVE NothingHeld'
  BY <1>5 DEF BeginDelete, Goto
<1>6. ASSUME NEW w \in Walks, FinishDelete(w) PROVE NothingHeld'
  BY <1>6 DEF FinishDelete, Goto
<1>7. ASSUME NEW w \in Walks, FetchPage(w) PROVE NothingHeld'
  BY <1>7 DEF FetchPage, Goto
<1>8. ASSUME NEW w \in Walks, StorePage(w) PROVE NothingHeld'
  BY <1>8 DEF StorePage, Goto
<1>9. ASSUME NEW w \in Walks, Commit(w) PROVE NothingHeld'
  BY <1>9 DEF Commit, End, Goto
<1>10. ASSUME NEW w \in Walks, RetryPage(w) PROVE NothingHeld'
  BY <1>10 DEF RetryPage
<1>11. ASSUME NEW w \in Walks, Rollback(w) PROVE NothingHeld'
  BY <1>11 DEF Rollback, End, Goto
<1>12. CASE UNCHANGED vars
  BY <1>12 DEF vars
<1>13. QED
  BY <1>1, <1>2, <1>3, <1>4, <1>5, <1>6, <1>7, <1>8, <1>9, <1>10, <1>11, <1>12
     DEF Next, Walk, NothingToStore, DuplicateKey, WalkShort, GiveUp, Fails

(* The first pass passes over nothing that stays. *)
LEMMA CountedStep ==
    ASSUME TypeOK, TypeOK', NothingHeld, CountedSoFar, [Next]_vars
    PROVE  CountedSoFar'
<1> USE DEF catalogVars, countVars, pageVars, txnVars, Open, Counted, Active, TypeOK, NothingHeld, CountedSoFar, Releases, IsLast, IsCursor, IsPage
<1>1. ASSUME NEW r \in Releases, Add(r) PROVE CountedSoFar'
  BY <1>1 DEF Add
<1>2. ASSUME NEW r \in Releases, Remove(r) PROVE CountedSoFar'
  BY <1>2 DEF Remove
<1>3. ASSUME NEW w \in Walks, Begin(w) PROVE CountedSoFar'
  BY <1>3 DEF Begin, Goto
<1>4. ASSUME NEW w \in Walks, CountPage(w) PROVE CountedSoFar'
  BY <1>4 DEF CountPage, Goto
<1>5. ASSUME NEW w \in Walks, BeginDelete(w) PROVE CountedSoFar'
  BY <1>5 DEF BeginDelete, Goto
<1>6. ASSUME NEW w \in Walks, FinishDelete(w) PROVE CountedSoFar'
  BY <1>6 DEF FinishDelete, Goto
<1>7. ASSUME NEW w \in Walks, FetchPage(w) PROVE CountedSoFar'
  BY <1>7 DEF FetchPage, Goto
<1>8. ASSUME NEW w \in Walks, StorePage(w) PROVE CountedSoFar'
  BY <1>8 DEF StorePage, Goto
<1>9. ASSUME NEW w \in Walks, Commit(w) PROVE CountedSoFar'
  BY <1>9 DEF Commit, End, Goto
<1>10. ASSUME NEW w \in Walks, RetryPage(w) PROVE CountedSoFar'
  BY <1>10 DEF RetryPage
<1>11. ASSUME NEW w \in Walks, Rollback(w) PROVE CountedSoFar'
  BY <1>11 DEF Rollback, End, Goto
<1>12. CASE UNCHANGED vars
  BY <1>12 DEF vars
<1>13. QED
  BY <1>1, <1>2, <1>3, <1>4, <1>5, <1>6, <1>7, <1>8, <1>9, <1>10, <1>11, <1>12
     DEF Next, Walk, NothingToStore, DuplicateKey, WalkShort, GiveUp, Fails

(* Neither does the second. *)
LEMMA CopiedStep ==
    ASSUME TypeOK, TypeOK', NothingHeld, CountedSoFar, CopiedSoFar, [Next]_vars
    PROVE  CopiedSoFar'
<1> USE DEF catalogVars, countVars, pageVars, txnVars, Open, Counted, Active, TypeOK, NothingHeld, CountedSoFar, CopiedSoFar, Releases, IsLast, IsCursor, IsPage
<1>1. ASSUME NEW r \in Releases, Add(r) PROVE CopiedSoFar'
  BY <1>1 DEF Add
<1>2. ASSUME NEW r \in Releases, Remove(r) PROVE CopiedSoFar'
  BY <1>2 DEF Remove
<1>3. ASSUME NEW w \in Walks, Begin(w) PROVE CopiedSoFar'
  BY <1>3 DEF Begin, Goto
<1>4. ASSUME NEW w \in Walks, CountPage(w) PROVE CopiedSoFar'
  BY <1>4 DEF CountPage, Goto
<1>5. ASSUME NEW w \in Walks, BeginDelete(w) PROVE CopiedSoFar'
  BY <1>5 DEF BeginDelete, Goto
<1>6. ASSUME NEW w \in Walks, FinishDelete(w) PROVE CopiedSoFar'
  BY <1>6 DEF FinishDelete, Goto
<1>7. ASSUME NEW w \in Walks, FetchPage(w) PROVE CopiedSoFar'
  BY <1>7 DEF FetchPage, Goto
<1>8. ASSUME NEW w \in Walks, StorePage(w) PROVE CopiedSoFar'
  BY <1>8 DEF StorePage, Goto
<1>9. ASSUME NEW w \in Walks, Commit(w) PROVE CopiedSoFar'
  BY <1>9 DEF Commit, End, Goto
<1>10. ASSUME NEW w \in Walks, RetryPage(w) PROVE CopiedSoFar'
  BY <1>10 DEF RetryPage
<1>11. ASSUME NEW w \in Walks, Rollback(w) PROVE CopiedSoFar'
  BY <1>11 DEF Rollback, End, Goto
<1>12. CASE UNCHANGED vars
  BY <1>12 DEF vars
<1>13. QED
  BY <1>1, <1>2, <1>3, <1>4, <1>5, <1>6, <1>7, <1>8, <1>9, <1>10, <1>11, <1>12
     DEF Next, Walk, NothingToStore, DuplicateKey, WalkShort, GiveUp, Fails

(* A page of the first pass may be its last. *)
LEMMA CountPageSteps ==
    ASSUME NEW w \in Walks, CountPage(w)
    PROVE  step' = step \/ step' = [step EXCEPT ![w] = "delete"]
BY DEF CountPage, Goto

(* The second pass begins with a positive total. *)
LEMMA TotalStep ==
    ASSUME TypeOK, TypeOK', TotalIsPositive, [Next]_vars
    PROVE  TotalIsPositive'
<1> USE DEF catalogVars, countVars, pageVars, txnVars, Open, Counted, Active, TypeOK, TotalIsPositive, NoTotal
<1>1. ASSUME NEW r \in Releases, Add(r) PROVE TotalIsPositive'
  BY <1>1 DEF Add
<1>2. ASSUME NEW r \in Releases, Remove(r) PROVE TotalIsPositive'
  BY <1>2 DEF Remove
<1>3. ASSUME NEW w \in Walks, Begin(w) PROVE TotalIsPositive'
  BY <1>3 DEF Begin, Goto
<1>4. ASSUME NEW w \in Walks, CountPage(w) PROVE TotalIsPositive'
  <2>1. total' = [total EXCEPT ![w] = TotalAfter(w)] /\ TotalAfter(w) \in {NoTotal} \cup Nat
    BY <1>4, TotalType DEF CountPage
  <2>2. step'[w] = "delete" => TotalAfter(w) # 0
    BY <1>4 DEF CountPage, Goto
  <2>3. TotalAfter(w) # NoTotal
    BY CatalogIsFinite DEF TotalAfter
  <2>4. \A u \in Walks \ {w} : step'[u] = step[u] /\ total'[u] = total[u]
    BY <1>4, <2>1, CountPageSteps
  <2>5. step'[w] \in {"count", "delete"}
    BY <1>4 DEF CountPage, Goto
  <2>6. \A u \in Walks \ {w} : Counted(u)' => total'[u] \in Nat \ {0}
    BY <2>4
  <2>7. total'[w] = TotalAfter(w)
    BY <2>1
  <2>8. Counted(w)' => step'[w] = "delete"
    BY <2>5
  <2>9. Counted(w)' => total'[w] \in Nat \ {0}
    BY <2>1, <2>2, <2>3, <2>7, <2>8
  <2>10. QED
    BY <2>6, <2>9
<1>5. ASSUME NEW w \in Walks, BeginDelete(w) PROVE TotalIsPositive'
  BY <1>5 DEF BeginDelete, Goto
<1>6. ASSUME NEW w \in Walks, FinishDelete(w) PROVE TotalIsPositive'
  BY <1>6 DEF FinishDelete, Goto
<1>7. ASSUME NEW w \in Walks, FetchPage(w) PROVE TotalIsPositive'
  BY <1>7 DEF FetchPage, Goto
<1>8. ASSUME NEW w \in Walks, StorePage(w) PROVE TotalIsPositive'
  BY <1>8 DEF StorePage, Goto
<1>9. ASSUME NEW w \in Walks, Commit(w) PROVE TotalIsPositive'
  BY <1>9 DEF Commit, End, Goto
<1>10. ASSUME NEW w \in Walks, RetryPage(w) PROVE TotalIsPositive'
  BY <1>10 DEF RetryPage
<1>11. ASSUME NEW w \in Walks, Rollback(w) PROVE TotalIsPositive'
  BY <1>11 DEF Rollback, End, Goto
<1>12. CASE UNCHANGED vars
  BY <1>12 DEF vars
<1>13. QED
  BY <1>1, <1>2, <1>3, <1>4, <1>5, <1>6, <1>7, <1>8, <1>9, <1>10, <1>11, <1>12
     DEF Next, Walk, NothingToStore, DuplicateKey, WalkShort, GiveUp, Fails

(* The walk's invariant holds whatever the catalog and the other walks do.   *)
LEMMA WalkStep ==
    ASSUME WalkInv, [Next]_vars
    PROVE  WalkInv'
BY TypeStep, HeldStep, CountedStep, CopiedStep, TotalStep DEF WalkInv

(* The invariant holds in every reachable state. *)
LEMMA WalkInvHolds == Spec => []WalkInv
<1>1. Init => WalkInv
  <2>1. Init => TypeOK
    <3>1. 0 \in 0 .. NumReleases /\ 1 \in 1 .. MaxAttempts
      BY RarityAssumption DEF RarityAssumption
    <3>2. QED
      BY <3>1 DEF Init, TypeOK, Rows
  <2>2. Init => NothingHeld /\ CountedSoFar /\ CopiedSoFar /\ TotalIsPositive
    BY DEF Init, NothingHeld, CountedSoFar, CopiedSoFar, TotalIsPositive, Active, Counted, Open
  <2>3. QED
    BY <2>1, <2>2 DEF WalkInv
<1>2. WalkInv /\ [Next]_vars => WalkInv'
  BY WalkStep
<1>3. QED
  BY <1>1, <1>2, PTL DEF Spec

(* The distributions of the second pass cover every release that stays.      *)
THEOREM RankedAgainstEveryStayer == Spec => []RankedAgainstAll
<1>1. WalkInv => RankedAgainstAll
  BY DEF WalkInv, CountedSoFar, RankedAgainstAll
<1>2. QED
  BY <1>1, WalkInvHolds, PTL

\* Only a commit changes the table.
LEMMA OnlyCommits ==
    ASSUME WalkInv, [Next]_vars, table' # table
    PROVE  \E w \in Walks : Commit(w)
BY DEF Next, Walk, Add, Remove, Begin, CountPage, NothingToStore, BeginDelete, FinishDelete,
       FetchPage, StorePage, DuplicateKey, WalkShort, RetryPage, GiveUp, Fails, Rollback, vars

(* A commit stores what was copied. *)
LEMMA CopiedIsStored ==
    ASSUME NEW w \in Walks, Commit(w)
    PROVE  copied[w] \subseteq Ids(table')
<1>1. SUFFICES ASSUME NEW r \in copied[w]
               PROVE  r \in Ids(table')
  OBVIOUS
<1> DEFINE row == [id |-> r, walk |-> w]
<1>2. row \in table'
  BY DEF Commit
<1>3. row.id = r
  OBVIOUS
<1>4. QED
  BY <1>2, <1>3 DEF Ids

(* A table that is replaced holds every release that was there all along.    *)
THEOREM StoredComplete == Spec => StoredIsComplete
<1>1. ASSUME WalkInv, [Next]_vars
      PROVE  table' # table =>
                \E w \in Walks : step[w] = "commit" /\ present[w] \subseteq Ids(table')
  <2>1. SUFFICES ASSUME table' # table
                 PROVE  \E w \in Walks : step[w] = "commit" /\ present[w] \subseteq Ids(table')
    OBVIOUS
  <2>2. PICK w \in Walks : Commit(w)
    BY <1>1, <2>1, OnlyCommits
  <2>3. step[w] = "commit" /\ present[w] \subseteq copied[w]
    BY <1>1, <2>2 DEF Commit, WalkInv, CopiedSoFar
  <2>4. copied[w] \subseteq Ids(table')
    BY <2>2, CopiedIsStored
  <2>5. QED
    BY <2>3, <2>4
<1>2. QED
  BY <1>1, WalkInvHolds, PTL DEF Spec, StoredIsComplete

(* A filled table is never emptied: a short walk is not stored.              *)
THEOREM TableFilled == Spec => TableStaysFilled
<1>1. ASSUME WalkInv, [Next]_vars
      PROVE  table # {} => table' # {}
  <2>1. SUFFICES ASSUME table' # table
                 PROVE  table' # {}
    OBVIOUS
  <2>2. PICK w \in Walks : Commit(w)
    BY <1>1, <2>1, OnlyCommits
  <2>3. Cardinality(copied[w]) >= 1
    <3>1. Cardinality(copied[w]) >= total[w] /\ total[w] \in Nat \ {0}
      BY <1>1, <2>2 DEF Commit, WalkInv, TotalIsPositive, Counted, Open
    <3>2. IsFiniteSet(Releases)
      BY FS_Interval, RarityAssumption DEF Releases, RarityAssumption
    <3>3. Cardinality(copied[w]) \in Nat
      BY <1>1, <3>2, FS_Subset, FS_CardinalityType DEF WalkInv, TypeOK
    <3>4. QED
      BY <3>1, <3>3
  <2>4. copied[w] # {}
    BY <2>3, FS_EmptySet
  <2>5. QED
    BY <2>2, <2>4 DEF Commit
<1>2. QED
  BY <1>1, WalkInvHolds, PTL DEF Spec, TableStaysFilled

-----------------------------------------------------------------------------
(* Two walks at once.                                                        *)

(* What the actions do to the walk that takes them, and not to the others.   *)
LEMMA Effects ==
    ASSUME TypeOK, NEW w \in Walks
    PROVE  /\ Begin(w) => step'[w] = "count" /\ present'[w] = catalog
           /\ CountPage(w) => step'[w] \in {"count", "delete"} /\ UNCHANGED present
           /\ BeginDelete(w) => step'[w] = "deleting" /\ target'[w] = table
           /\ FinishDelete(w) => step'[w] = "copy" /\ deleted'[w] = target[w] \cap table
           /\ FetchPage(w) => step'[w] = "store"
           /\ StorePage(w) => /\ step'[w] \in {"copy", "commit"}
                              /\ copied'[w] = copied[w] \cup page[w]
           /\ End(w) => /\ step'[w] = "done" /\ present'[w] = {}
                        /\ copied'[w] = {} /\ target'[w] = {} /\ deleted'[w] = {}
<1>1. Begin(w) => step'[w] = "count" /\ present'[w] = catalog
  BY DEF TypeOK, Begin, Goto
<1>2. CountPage(w) => step'[w] \in {"count", "delete"} /\ UNCHANGED present
  BY DEF TypeOK, CountPage, Goto
<1>3. BeginDelete(w) => step'[w] = "deleting" /\ target'[w] = table
  BY DEF TypeOK, BeginDelete, Goto
<1>4. FinishDelete(w) => step'[w] = "copy" /\ deleted'[w] = target[w] \cap table
  BY DEF TypeOK, FinishDelete, Goto
<1>5. FetchPage(w) => step'[w] = "store"
  BY DEF TypeOK, FetchPage, Goto
<1>6. StorePage(w) => /\ step'[w] \in {"copy", "commit"}
                      /\ copied'[w] = copied[w] \cup page[w]
  BY DEF TypeOK, StorePage, Goto
<1>7. End(w) => /\ step'[w] = "done" /\ present'[w] = {}
                /\ copied'[w] = {} /\ target'[w] = {} /\ deleted'[w] = {}
  BY DEF TypeOK, End, Goto
<1> QED
  BY <1>1, <1>2, <1>3, <1>4, <1>5, <1>6, <1>7

(* A step of one walk leaves the others as they are. *)
LEMMA OthersKeep ==
    ASSUME TypeOK, NEW w \in Walks, Begin(w) \/ Walk(w) \/ Fails(w),
           NEW u \in Walks \ {w}
    PROVE  /\ step'[u] = step[u] /\ present'[u] = present[u]
           /\ copied'[u] = copied[u] /\ target'[u] = target[u] /\ deleted'[u] = deleted[u]
<1> USE DEF TypeOK, Goto, End, Rollback, countVars, pageVars, txnVars
<1>1. CASE Begin(w)
  BY <1>1 DEF Begin
<1>2. CASE CountPage(w)
  BY <1>2 DEF CountPage
<1>3. CASE Rollback(w)
  BY <1>3
<1>4. CASE BeginDelete(w)
  BY <1>4 DEF BeginDelete
<1>5. CASE FinishDelete(w)
  BY <1>5 DEF FinishDelete
<1>6. CASE FetchPage(w)
  BY <1>6 DEF FetchPage
<1>7. CASE StorePage(w)
  BY <1>7 DEF StorePage
<1>8. CASE Commit(w)
  BY <1>8 DEF Commit
<1>9. CASE RetryPage(w)
  BY <1>9 DEF RetryPage
<1>10. QED
  BY <1>1, <1>2, <1>3, <1>4, <1>5, <1>6, <1>7, <1>8, <1>9
     DEF Walk, NothingToStore, DuplicateKey, WalkShort, GiveUp, Fails

\* A walk that is over stays over.
LEMMA DoneStays ==
    ASSUME TypeOK, [Next]_vars, NEW u \in Walks, step[u] = "done"
    PROVE  step'[u] = "done"
<1>1. ASSUME NEW w \in Walks, Begin(w) \/ Walk(w) \/ Fails(w)
      PROVE  step'[u] = "done"
  <2>1. step[w] # "done"
    BY <1>1 DEF Begin, Walk, CountPage, NothingToStore, BeginDelete, FinishDelete, FetchPage,
                StorePage, DuplicateKey, Commit, WalkShort, RetryPage, GiveUp, Requesting,
                Fails, Active, Counted, Open
  <2>2. QED
    BY <1>1, <2>1, OthersKeep
<1>2. CASE UNCHANGED step
  BY <1>2
<1>3. QED
  BY <1>1, <1>2 DEF Next, Add, Remove, vars

(* A walk changes no catalog, and the table only by its commit. *)
LEMMA WalksKeepTheCatalog ==
    ASSUME NEW w \in Walks, Begin(w) \/ Walk(w) \/ Fails(w)
    PROVE  /\ catalog' = catalog /\ anchors' = anchors
           /\ Commit(w) \/ table' = table
BY DEF Walk, Begin, CountPage, NothingToStore, BeginDelete, FinishDelete, FetchPage, StorePage,
       DuplicateKey, Commit, WalkShort, RetryPage, GiveUp, Fails, Rollback, End, catalogVars

\* Only the catalog loses anchors.
LEMMA AnchorsShrink == ASSUME [Next]_vars PROVE anchors' \subseteq anchors
<1>1. ASSUME NEW w \in Walks, Begin(w) \/ Walk(w) \/ Fails(w) PROVE anchors' = anchors
  BY <1>1, WalksKeepTheCatalog
<1>2. ASSUME NEW r \in Releases, Add(r) \/ Remove(r) PROVE anchors' \subseteq anchors
  BY <1>2 DEF Add, Remove
<1>3. CASE UNCHANGED vars
  BY <1>3 DEF vars, catalogVars
<1>4. QED
  BY <1>1, <1>2, <1>3 DEF Next

(* The catalog keeps its anchors, and so does the table.                     *)
LEMMA AnchorsStep ==
    ASSUME WalkInv, AnchorsStay, [Next]_vars
    PROVE  AnchorsStay'
<1> USE DEF Open, Counted, Active, AnchorsStay, OnlyEarlier
<1> TypeOK
  BY DEF WalkInv
<1>1. ASSUME NEW r \in Releases, Add(r) PROVE AnchorsStay'
  BY <1>1 DEF Add, Ids
<1>2. ASSUME NEW r \in Releases, Remove(r) PROVE AnchorsStay'
  BY <1>2 DEF Remove, Ids, TypeOK
<1>3. ASSUME NEW w \in Walks, Begin(w) \/ Walk(w) \/ Fails(w), ~Commit(w)
      PROVE  AnchorsStay'
  <2>0. catalog' = catalog /\ anchors' = anchors /\ table' = table
    BY <1>3, WalksKeepTheCatalog
  <2>1. Active(w)' => anchors \subseteq present'[w]
    <3>1. CASE Begin(w)
      BY <3>1, Effects
    <3>2. CASE Rollback(w)
      BY <3>2, Effects DEF Rollback
    <3>3. CASE ~Begin(w) /\ ~Rollback(w)
      <4>1. present' = present /\ Active(w)
        BY <1>3, <3>3 DEF Walk, CountPage, NothingToStore, BeginDelete, FinishDelete, FetchPage,
                          StorePage, DuplicateKey, WalkShort, RetryPage, GiveUp, Requesting, Fails
      <4>2. QED
        BY <4>1
    <3>4. QED
      BY <3>1, <3>2, <3>3
  <2>2. \A u \in Walks \ {w} : Active(u)' => anchors \subseteq present'[u]
    BY <1>3, OthersKeep
  <2>3. QED
    BY <2>0, <2>1, <2>2 DEF Ids
<1>4. ASSUME NEW w \in Walks, Commit(w) PROVE AnchorsStay'
  <2>0. catalog' = catalog /\ anchors' = anchors
    BY <1>4, WalksKeepTheCatalog DEF Walk
  <2>1. anchors \subseteq Ids(table')
    <3>1. anchors \subseteq present[w]
      BY <1>4 DEF Commit
    <3>2. present[w] \subseteq copied[w]
      BY <1>4 DEF Commit, WalkInv, CopiedSoFar
    <3>3. QED
      BY <1>4, <3>1, <3>2, CopiedIsStored
  <2>2. \A u \in Walks : Active(u)' => anchors \subseteq present'[u]
    BY <1>4, Effects, OthersKeep DEF Commit, Walk
  <2>3. QED
    BY <2>0, <2>1, <2>2 DEF Ids
<1>5. CASE UNCHANGED vars
  BY <1>5 DEF vars, catalogVars, Ids
<1>6. QED
  BY <1>1, <1>2, <1>3, <1>4, <1>5 DEF Next

(* Rows are written by a walk as it ends.                                    *)
LEMMA RowsStep ==
    ASSUME WalkInv, RowsAreOfEndedWalks, [Next]_vars
    PROVE  RowsAreOfEndedWalks'
<1> TypeOK
  BY DEF WalkInv
<1>1. ASSUME NEW row, Ended(row) PROVE Ended(row)'
  BY <1>1, DoneStays DEF Ended
<1>2. \A row \in table' : row \in table \/ Ended(row)'
  <2>1. SUFFICES ASSUME table' # table
                 PROVE  \A row \in table' : row \in table \/ Ended(row)'
    OBVIOUS
  <2>2. PICK w \in Walks : Commit(w)
    BY <2>1, OnlyCommits
  <2>3. \A row \in table' : row \in table \/ row.walk = w
    BY <2>2 DEF Commit
  <2>4. step'[w] = "done"
    BY <2>2, Effects DEF Commit
  <2>5. QED
    BY <2>3, <2>4 DEF Ended
<1>3. \A u \in Walks : target'[u] = target[u] \/ target'[u] = table \/ target'[u] = {}
  <2>1. ASSUME NEW w \in Walks, Begin(w) \/ Walk(w) \/ Fails(w), NEW u \in Walks
        PROVE  target'[u] = target[u] \/ target'[u] = table \/ target'[u] = {}
    <3>1. target' = target \/ BeginDelete(w) \/ End(w)
      BY <2>1 DEF Walk, Begin, CountPage, NothingToStore, FinishDelete, FetchPage, StorePage,
                  DuplicateKey, Commit, WalkShort, RetryPage, GiveUp, Fails, Rollback, txnVars
    <3>2. QED
      BY <2>1, <3>1, Effects, OthersKeep
  <2>2. QED
    BY <2>1 DEF Next, Add, Remove, vars, txnVars
<1>4. QED
  BY <1>1, <1>2, <1>3 DEF RowsAreOfEndedWalks

(* A commit replaces the table by the rows of its walk.                      *)
LEMMA CommitReplaces ==
    ASSUME TableInv, anchors # {}, NEW w \in Walks, Commit(w)
    PROVE  /\ table' = {[id |-> r, walk |-> w] : r \in copied[w]}
           /\ anchors \subseteq copied[w]
<1>1. anchors \subseteq present[w]
  BY DEF TableInv, AnchorsStay, Commit, Active, Counted, Open
<1>2. present[w] \subseteq copied[w]
  BY DEF TableInv, WalkInv, CopiedSoFar, Commit
<1>3. table \subseteq deleted[w]
  BY <1>1, <1>2 DEF TableInv, AnchorInv, AnchorsReplaceTheTable
<1>4. QED
  BY <1>1, <1>2, <1>3 DEF Commit

\* Rows a transaction saw are not those of a walk that commits later.
LEMMA NotSeen ==
    ASSUME TableInv, anchors # {}, NEW w \in Walks, Commit(w), NEW u \in Walks
    PROVE  table' \cap target[u] = {}
<1>1. \A row \in table' : row.walk = w
  BY CommitReplaces
<1>2. w # Earlier /\ step[w] # "done"
  BY EarlierAssumption DEF Commit
<1>3. \A row \in target[u] : row.walk # w
  BY <1>2 DEF TableInv, RowsAreOfEndedWalks, Ended
<1>4. QED
  BY <1>1, <1>3

(* The table is replaced as a whole.                                         *)
LEMMA WholeStep ==
    ASSUME TableInv, anchors # {}, [Next]_vars
    PROVE  WholeOrNothing'
<1> USE DEF WholeOrNothing
<1> WholeOrNothing /\ TypeOK
  BY DEF TableInv, AnchorInv, WalkInv
<1>1. ASSUME NEW w \in Walks, BeginDelete(w) PROVE WholeOrNothing'
  <2>1. deleted[w] = {} /\ deleted' = deleted /\ table' = table
    BY <1>1 DEF BeginDelete, TableInv, WalkInv, NothingHeld, Open
  <2>2. QED
    BY <1>1, <2>1, Effects, OthersKeep DEF Walk
<1>2. ASSUME NEW w \in Walks, FinishDelete(w) PROVE WholeOrNothing'
  <2>1. target' = target /\ table' = table /\ deleted'[w] = target[w] \cap table
    BY <1>2, Effects DEF FinishDelete
  <2>2. \A u \in Walks \ {w} : deleted'[u] = deleted[u]
    BY <1>2, OthersKeep DEF Walk
  <2>3. QED
    BY <2>1, <2>2
<1>3. ASSUME NEW w \in Walks, Rollback(w), Walk(w) \/ Fails(w) PROVE WholeOrNothing'
  <2>1. deleted'[w] = {} /\ target'[w] = {} /\ table' = table
    BY <1>3, Effects DEF Rollback
  <2>2. \A u \in Walks \ {w} : deleted'[u] = deleted[u] /\ target'[u] = target[u]
    BY <1>3, OthersKeep
  <2>3. QED
    BY <2>1, <2>2
<1>4. ASSUME NEW w \in Walks, Commit(w) PROVE WholeOrNothing'
  <2>1. deleted'[w] = {} /\ target'[w] = {}
    BY <1>4, Effects DEF Commit
  <2>2. ASSUME NEW u \in Walks \ {w}
        PROVE  /\ deleted'[u] = deleted[u] /\ target'[u] = target[u]
               /\ table' \cap target[u] = {}
    BY <1>4, NotSeen, OthersKeep DEF Walk
  <2>3. QED
    BY <2>1, <2>2
<1>5. CASE UNCHANGED <<table, target, deleted>>
  BY <1>5
<1>6. ASSUME NEW w \in Walks, Begin(w) \/ Walk(w) \/ Fails(w) PROVE WholeOrNothing'
  <2>1. CASE Begin(w) \/ CountPage(w)
    BY <1>5, <2>1 DEF Begin, CountPage, txnVars
  <2>2. CASE FetchPage(w) \/ StorePage(w) \/ RetryPage(w)
    BY <1>5, <2>2 DEF FetchPage, StorePage, RetryPage, txnVars
  <2>3. QED
    BY <1>1, <1>2, <1>3, <1>4, <1>6, <2>1, <2>2
       DEF Walk, NothingToStore, DuplicateKey, WalkShort, GiveUp, Fails
<1>7. ASSUME NEW r \in Releases, Add(r) \/ Remove(r) PROVE WholeOrNothing'
  BY <1>5, <1>7 DEF Add, Remove, txnVars
<1>8. CASE UNCHANGED vars
  BY <1>5, <1>8 DEF vars, txnVars
<1>9. QED
  BY <1>6, <1>7, <1>8 DEF Next

(* Before the first commit every DELETE sees the same table.                 *)
LEMMA EarlierStep ==
    ASSUME TableInv, anchors # {}, [Next]_vars
    PROVE  EarlierIsDeleted'
<1> USE DEF EarlierIsDeleted, OnlyEarlier, Open
<1> EarlierIsDeleted /\ TypeOK
  BY DEF TableInv, AnchorInv, WalkInv
<1>1. ASSUME NEW w \in Walks, BeginDelete(w) PROVE EarlierIsDeleted'
  <2>1. table' = table /\ step'[w] = "deleting" /\ target'[w] = table
    BY <1>1, Effects DEF BeginDelete
  <2>2. QED
    BY <1>1, <2>1, OthersKeep DEF Walk
<1>2. ASSUME NEW w \in Walks, FinishDelete(w) PROVE EarlierIsDeleted'
  <2>1. /\ table' = table /\ target' = target /\ step[w] = "deleting"
        /\ deleted'[w] = target[w] \cap table
    BY <1>2, Effects DEF FinishDelete
  <2>2. QED
    BY <1>2, <2>1, OthersKeep DEF Walk
<1>3. ASSUME NEW w \in Walks, FetchPage(w) \/ StorePage(w) PROVE EarlierIsDeleted'
  <2>1. /\ table' = table /\ target' = target /\ deleted' = deleted
        /\ step[w] \in {"copy", "store"}
    BY <1>3 DEF FetchPage, StorePage, txnVars
  <2>2. QED
    BY <1>3, <2>1, OthersKeep DEF Walk
<1>4. ASSUME NEW w \in Walks, Rollback(w), Walk(w) \/ Fails(w) PROVE EarlierIsDeleted'
  <2>1. table' = table /\ step'[w] = "done"
    BY <1>4, Effects DEF Rollback
  <2>2. QED
    BY <1>4, <2>1, OthersKeep
<1>5. ASSUME NEW w \in Walks, Commit(w) PROVE EarlierIsDeleted'
  <2>1. PICK a \in copied[w] : TRUE
    BY <1>5, CommitReplaces
  <2>2. [id |-> a, walk |-> w] \in table'
    BY <1>5, CommitReplaces
  <2>3. w # Earlier
    BY EarlierAssumption
  <2>4. QED
    BY <2>2, <2>3
<1>6. ASSUME NEW w \in Walks, Begin(w) \/ CountPage(w) PROVE EarlierIsDeleted'
  <2>1. table' = table /\ step'[w] \in {"count", "delete"}
    BY <1>6, Effects DEF Begin, CountPage
  <2>2. QED
    BY <1>6, <2>1, OthersKeep DEF Walk
<1>7. CASE UNCHANGED <<table, step, target, deleted>>
  BY <1>7
<1>8. QED
  BY <1>1, <1>2, <1>3, <1>4, <1>5, <1>6, <1>7
     DEF Next, Walk, Add, Remove, NothingToStore, DuplicateKey, WalkShort, RetryPage, GiveUp,
         Fails, vars, txnVars

(* Only one of two open transactions copies a release.                       *)
LEMMA DisjointStep ==
    ASSUME TypeOK, CopiesAreDisjoint, [Next]_vars
    PROVE  CopiesAreDisjoint'
<1> USE DEF CopiesAreDisjoint
<1>1. ASSUME NEW w \in Walks, StorePage(w) PROVE CopiesAreDisjoint'
  <2>1. copied'[w] = copied[w] \cup page[w]
    BY <1>1, Effects
  <2>2. \A u \in Walks \ {w} : copied'[u] = copied[u] /\ copied[u] \cap page[w] = {}
    BY <1>1, OthersKeep DEF StorePage, NoConflict, Walk
  <2>3. QED
    BY <2>1, <2>2
<1>2. ASSUME NEW w \in Walks, End(w), Walk(w) \/ Fails(w) PROVE CopiesAreDisjoint'
  BY <1>2, Effects, OthersKeep
<1>3. CASE copied' = copied
  BY <1>3
<1>4. ASSUME NEW w \in Walks, Walk(w) PROVE CopiesAreDisjoint'
  <2>1. StorePage(w) \/ End(w) \/ copied' = copied
    BY <1>4 DEF Walk, Begin, CountPage, NothingToStore, BeginDelete, FinishDelete, FetchPage,
                DuplicateKey, Commit, WalkShort, RetryPage, GiveUp, Rollback, txnVars
  <2>2. QED
    BY <1>1, <1>2, <1>3, <1>4, <2>1
<1>5. ASSUME NEW w \in Walks, Fails(w) PROVE CopiesAreDisjoint'
  BY <1>2, <1>5 DEF Fails, GiveUp, Rollback
<1>6. ASSUME NEW w \in Walks, Begin(w) PROVE CopiesAreDisjoint'
  BY <1>3, <1>6 DEF Begin, txnVars
<1>7. CASE (\E r \in Releases : Add(r) \/ Remove(r)) \/ UNCHANGED vars
  BY <1>3, <1>7 DEF Add, Remove, vars, txnVars
<1>8. QED
  BY <1>4, <1>5, <1>6, <1>7 DEF Next

(* A walk that copies an anchor has deleted the table it replaces.           *)
LEMMA ReplaceStep ==
    ASSUME TableInv, anchors # {}, [Next]_vars
    PROVE  AnchorsReplaceTheTable'
<1> USE DEF AnchorsReplaceTheTable
<1> AnchorsReplaceTheTable /\ TypeOK /\ anchors' \subseteq anchors
  BY AnchorsShrink DEF TableInv, AnchorInv, WalkInv
<1>1. ASSUME NEW w \in Walks, StorePage(w) PROVE AnchorsReplaceTheTable'
  <2>1. table' = table /\ deleted' = deleted /\ copied'[w] = copied[w] \cup page[w]
    BY <1>1, Effects DEF StorePage
  <2>2. \A u \in Walks \ {w} : copied'[u] = copied[u]
    BY <1>1, OthersKeep DEF Walk
  <2>3. ASSUME NEW a \in anchors, a \in page[w]
        PROVE  table \subseteq deleted[w]
    <3>1. CASE OnlyEarlier
      BY <1>1, <3>1 DEF TableInv, AnchorInv, EarlierIsDeleted, StorePage, Open
    <3>2. CASE ~OnlyEarlier
      <4>1. PICK row \in table : row.id = a
        BY <3>2 DEF TableInv, AnchorsStay, Ids
      <4>2. row \in deleted[w]
        BY <1>1, <2>3, <4>1 DEF StorePage, NoConflict
      <4>3. QED
        BY <4>1, <4>2 DEF TableInv, AnchorInv, WholeOrNothing
    <3>3. QED
      BY <3>1, <3>2
  <2>4. QED
    BY <2>1, <2>2, <2>3
<1>2. ASSUME NEW w \in Walks, FinishDelete(w) PROVE AnchorsReplaceTheTable'
  <2>1. copied[w] = {} /\ copied' = copied /\ table' = table
    BY <1>2 DEF FinishDelete, TableInv, WalkInv, NothingHeld
  <2>2. \A u \in Walks \ {w} : deleted'[u] = deleted[u]
    BY <1>2, OthersKeep DEF Walk
  <2>3. QED
    BY <2>1, <2>2
<1>3. ASSUME NEW w \in Walks, Rollback(w), Walk(w) \/ Fails(w) PROVE AnchorsReplaceTheTable'
  BY <1>3, Effects, OthersKeep DEF Rollback
<1>4. ASSUME NEW w \in Walks, Commit(w) PROVE AnchorsReplaceTheTable'
  <2>1. copied'[w] = {}
    BY <1>4, Effects DEF Commit
  <2>2. ASSUME NEW u \in Walks \ {w} PROVE copied'[u] \cap anchors = {}
    <3>1. anchors \subseteq copied[w]
      BY <1>4, CommitReplaces
    <3>2. copied[u] \cap copied[w] = {}
      BY DEF TableInv, CopiesAreDisjoint
    <3>3. copied'[u] = copied[u]
      BY <1>4, OthersKeep DEF Walk
    <3>4. QED
      BY <3>1, <3>2, <3>3
  <2>3. QED
    BY <2>1, <2>2
<1>5. CASE UNCHANGED <<table, copied, deleted>>
  BY <1>5
<1>6. QED
  BY <1>1, <1>2, <1>3, <1>4, <1>5
     DEF Next, Walk, Add, Remove, Begin, CountPage, NothingToStore, BeginDelete, FetchPage,
         DuplicateKey, WalkShort, RetryPage, GiveUp, Fails, vars, txnVars

(* Every step keeps the table of one walk. *)
LEMMA OneWalkStep ==
    ASSUME TableInv, anchors # {}, [Next]_vars
    PROVE  (\A a, b \in table : a.walk = b.walk)'
<1>1. CASE table' = table
  BY <1>1 DEF TableInv, AnchorInv
<1>2. CASE table' # table
  <2>1. PICK w \in Walks : Commit(w)
    BY <1>2, OnlyCommits DEF TableInv
  <2>2. \A row \in table' : row.walk = w
    BY <2>1, CommitReplaces
  <2>3. QED
    BY <2>2
<1>3. QED
  BY <1>1, <1>2

(* However many walks replace the table at once, it holds the rows of one of *)
(* them, as long as some release has always been in the catalog.             *)
THEOREM OneWalk == Spec => []TableIsOneWalk
<1>1. Init => AnchorsStay /\ RowsAreOfEndedWalks /\ CopiesAreDisjoint /\ AnchorInv
  <2>1. SUFFICES ASSUME Init
                 PROVE  AnchorsStay /\ RowsAreOfEndedWalks /\ CopiesAreDisjoint /\ AnchorInv
    OBVIOUS
  <2>2. OnlyEarlier
    BY <2>1 DEF Init, OnlyEarlier
  <2>3. \A w \in Walks : ~Active(w) /\ ~Open(w)
    BY <2>1 DEF Init, Active, Counted, Open
  <2>4. AnchorsStay
    BY <2>1, <2>2, <2>3 DEF Init, AnchorsStay
  <2>5. RowsAreOfEndedWalks /\ \A a, b \in table : a.walk = b.walk
    BY <2>1, <2>2 DEF Init, RowsAreOfEndedWalks, Ended, OnlyEarlier
  <2>6. WholeOrNothing /\ CopiesAreDisjoint /\ AnchorsReplaceTheTable
    BY <2>1 DEF Init, WholeOrNothing, CopiesAreDisjoint, AnchorsReplaceTheTable
  <2>7. EarlierIsDeleted
    BY <2>3 DEF EarlierIsDeleted
  <2>8. QED
    BY <2>4, <2>5, <2>6, <2>7 DEF AnchorInv
<1>2. ASSUME TableInv, WalkInv', [Next]_vars PROVE TableInv'
  <2>1. WalkInv /\ TypeOK
    BY <1>2 DEF TableInv, WalkInv
  <2>2. AnchorsStay' /\ RowsAreOfEndedWalks' /\ CopiesAreDisjoint'
    BY <1>2, <2>1, AnchorsStep, RowsStep, DisjointStep DEF TableInv
  <2>3. ASSUME anchors' # {} PROVE AnchorInv'
    <3>1. anchors # {}
      BY <1>2, <2>3, AnchorsShrink
    <3>2. QED
      BY <1>2, <3>1, WholeStep, EarlierStep, ReplaceStep, OneWalkStep DEF AnchorInv
  <2>4. QED
    BY <1>2, <2>2, <2>3 DEF TableInv
<1>3. Spec => []WalkInv
  BY WalkInvHolds
<1>4. Init /\ WalkInv => TableInv
  BY <1>1 DEF TableInv
<1>5. TableInv => TableIsOneWalk
  BY DEF TableInv, AnchorInv, TableIsOneWalk
<1>6. QED
  BY <1>2, <1>3, <1>4, <1>5, PTL DEF Spec
=============================================================================
