-------------------------- MODULE StyleAtlasProofs --------------------------
(***************************************************************************)
(* Proofs about StyleAtlas, for any number of concurrent runs, months and  *)
(* catalog versions.  The argument: a run holds the lock from TakeLock to  *)
(* its commit (LockHeld), so between its recheck and its commit no other   *)
(* run can lay the month out (FreeMonth); hence a month gets one layout    *)
(* (OneLayout), which then never changes, and what a read has collected    *)
(* of it stays what the tables hold (ReadSoFar).                           *)
(***************************************************************************)
EXTENDS StyleAtlas, TLAPS

\* A run is past the lock statement exactly when it holds the lock.
LockHeld == \A w \in Runs : step[w] \in {"recheck", "insert"} <=> lock = w

\* The recheck still holds when the run inserts.
FreeMonth == \A w \in Runs : step[w] = "insert" => ~Laid(mine[w])

\* The tables hold one layout per month, with the nodes drawn in it.
OneLayout ==
    \A m \in Months :
        /\ nodes[m] = Drawn(sectors[m])
        /\ \A a, b \in sectors[m] : a = b

\* What the read has collected of its month is what the tables hold of it.
ReadSoFar ==
    reader # "idle" /\ answer.month # 0 =>
        /\ Laid(answer.month)
        /\ reader # "sectors" => answer.sectors = sectors[answer.month]
        /\ reader \notin {"sectors", "nodes"} => answer.nodes = nodes[answer.month]

\* The parts of a whole producer answer are of one version.
CountsAreWhole == Complete(counts) => counts.genres = counts.years /\ counts.parents = counts.years

AtlasInv ==
    /\ TypeOK /\ LockHeld /\ FreeMonth /\ OneLayout /\ ReadSoFar
    /\ StoredTogether /\ CountsAreWhole

-----------------------------------------------------------------------------
(* Every action keeps the types.                                              *)
LEMMA TypeStep ==
    ASSUME TypeOK, [Next]_vars
    PROVE  TypeOK'
<1> USE AtlasAssumption, NoRunAssumption DEF AtlasAssumption, Months, Versions, NoRun, TypeOK
<1>1. CASE NextMonth
  BY <1>1 DEF NextMonth, tableVars, layoutVars, runVars, readVars
<1>2. CASE CatalogChanges
  BY <1>2 DEF CatalogChanges, tableVars, layoutVars, runVars, readVars
<1>3. CASE FetchCounts
  BY <1>3 DEF FetchCounts, CountsType, tableVars, layoutVars, runVars, readVars
<1>4. CASE StoreCounts
  BY <1>4 DEF StoreCounts, ParentRows, CountsType, NoCounts, tableVars, layoutVars, runVars, readVars
<1>5. CASE KeepCounts
  BY <1>5 DEF KeepCounts, NoCounts, CountsType, tableVars, layoutVars, runVars, readVars
<1>6. ASSUME NEW w \in Runs, BeginAtlas(w) PROVE TypeOK'
  BY <1>6 DEF BeginAtlas, tableVars, layoutVars, runVars, readVars
<1>7. ASSUME NEW w \in Runs, ReadPinned(w) PROVE TypeOK'
  BY <1>7 DEF ReadPinned, tableVars, layoutVars, runVars, readVars
<1>8. ASSUME NEW w \in Runs, FetchShares(w) PROVE TypeOK'
  BY <1>8 DEF FetchShares, tableVars, layoutVars, runVars, readVars
<1>9. ASSUME NEW w \in Runs, TakeLock(w) PROVE TypeOK'
  BY <1>9 DEF TakeLock, tableVars, layoutVars, runVars, readVars
<1>10. ASSUME NEW w \in Runs, Recheck(w) PROVE TypeOK'
  BY <1>10 DEF Recheck, tableVars, layoutVars, runVars, readVars
<1>11. ASSUME NEW w \in Runs, LeaveToOther(w) PROVE TypeOK'
  BY <1>11 DEF LeaveToOther, tableVars, layoutVars, runVars, readVars
<1>12. ASSUME NEW w \in Runs, CommitLayout(w) PROVE TypeOK'
  BY <1>12 DEF CommitLayout, Drawn, LayoutOf, Layouts, tableVars, layoutVars, runVars, readVars
<1>13. ASSUME NEW w \in Runs, AtlasFails(w) PROVE TypeOK'
  BY <1>13 DEF AtlasFails, tableVars, layoutVars, runVars, readVars
<1>14. CASE ReadMonth
  <2>1. PICK m \in 0 .. MaxMonth : answer' = [NoAnswer EXCEPT !.month = m]
                                   /\ reader' = IF m = 0 THEN "answered" ELSE "sectors"
    BY <1>14 DEF ReadMonth
  <2>2. answer' = [month |-> m, sectors |-> {}, nodes |-> {}, years |-> 0, genres |-> 0, parents |-> 0]
    BY <2>1 DEF NoAnswer
  <2>3. answer' \in AnswerType /\ answer'.month = m
    BY <2>2 DEF AnswerType
  <2>4. QED
    BY <1>14, <2>1, <2>3 DEF ReadMonth, tableVars, layoutVars, runVars
<1>15. CASE ReadSectors
  <2>1. answer.month \in Months
    BY <1>15 DEF ReadSectors, ReadStatement, AnswerType
  <2>2. answer' = [answer EXCEPT !.sectors = sectors[answer.month]] /\ sectors[answer.month] \subseteq Layouts
    BY <1>15, <2>1 DEF ReadSectors, ReadStatement
  <2>3. answer' \in AnswerType /\ answer'.month = answer.month
    BY <2>2 DEF AnswerType
  <2>4. QED
    BY <1>15, <2>1, <2>3 DEF ReadSectors, ReadStatement, tableVars, layoutVars, runVars
<1>16. CASE ReadNodes
  <2>1. answer.month \in Months
    BY <1>16 DEF ReadNodes, ReadStatement, AnswerType
  <2>2. answer' = [answer EXCEPT !.nodes = nodes[answer.month]] /\ nodes[answer.month] \subseteq Layouts
    BY <1>16, <2>1 DEF ReadNodes, ReadStatement
  <2>3. answer' \in AnswerType /\ answer'.month = answer.month
    BY <2>2 DEF AnswerType
  <2>4. QED
    BY <1>16, <2>1, <2>3 DEF ReadNodes, ReadStatement, tableVars, layoutVars, runVars
<1>17. CASE ReadYears
  BY <1>17 DEF ReadYears, ReadStatement, AnswerType, tableVars, layoutVars, runVars, readVars
<1>18. CASE ReadGenreYears
  BY <1>18 DEF ReadGenreYears, ReadStatement, AnswerType, tableVars, layoutVars, runVars, readVars
<1>19. CASE ReadParents
  <2>1. PICK p \in Versions : answer' = [answer EXCEPT !.parents = p]
    <3>1. 0 \in Versions /\ parents \in Versions
      BY AtlasAssumption
    <3>2. CASE nodes[answer.month] = {}
      BY <1>19, <3>1, <3>2 DEF ReadParents, ReadStatement
    <3>3. CASE nodes[answer.month] # {}
      BY <1>19, <3>1, <3>3 DEF ReadParents, ReadStatement
    <3>4. QED
      BY <3>2, <3>3
  <2>2. answer' \in AnswerType /\ answer'.month = answer.month
    BY <2>1 DEF AnswerType
  <2>3. QED
    BY <1>19, <2>2 DEF ReadParents, ReadStatement, tableVars, layoutVars, runVars
<1>20. CASE UNCHANGED vars
  BY <1>20 DEF vars, tableVars, layoutVars, runVars, readVars
<1>21. QED
  BY <1>1, <1>2, <1>3, <1>4, <1>5, <1>6, <1>7, <1>8, <1>9, <1>10, <1>11, <1>12, <1>13, <1>14, <1>15, <1>16, <1>17, <1>18, <1>19, <1>20 DEF Next, World, Counts, Atlas, Read

(* The lock is taken when free, and released with the transaction.           *)
LEMMA LockStep ==
    ASSUME TypeOK, LockHeld, [Next]_vars
    PROVE  LockHeld'
<1> USE AtlasAssumption, NoRunAssumption DEF AtlasAssumption, NoRunAssumption, Months, Versions, Layouts, NoRun, NoAnswer, NoCounts, tableVars, layoutVars, runVars, readVars, TypeOK, LockHeld
<1>1. CASE NextMonth
  BY <1>1 DEF NextMonth
<1>2. CASE CatalogChanges
  BY <1>2 DEF CatalogChanges
<1>3. CASE FetchCounts
  BY <1>3 DEF FetchCounts
<1>4. CASE StoreCounts
  BY <1>4 DEF StoreCounts
<1>5. CASE KeepCounts
  BY <1>5 DEF KeepCounts
<1>6. ASSUME NEW w \in Runs, BeginAtlas(w) PROVE LockHeld'
  BY <1>6 DEF BeginAtlas
<1>7. ASSUME NEW w \in Runs, ReadPinned(w) PROVE LockHeld'
  BY <1>7 DEF ReadPinned
<1>8. ASSUME NEW w \in Runs, FetchShares(w) PROVE LockHeld'
  BY <1>8 DEF FetchShares
<1>9. ASSUME NEW w \in Runs, TakeLock(w) PROVE LockHeld'
  BY <1>9 DEF TakeLock
<1>10. ASSUME NEW w \in Runs, Recheck(w) PROVE LockHeld'
  BY <1>10 DEF Recheck
<1>11. ASSUME NEW w \in Runs, LeaveToOther(w) PROVE LockHeld'
  BY <1>11 DEF LeaveToOther
<1>12. ASSUME NEW w \in Runs, CommitLayout(w) PROVE LockHeld'
  BY <1>12 DEF CommitLayout
<1>13. ASSUME NEW w \in Runs, AtlasFails(w) PROVE LockHeld'
  BY <1>13 DEF AtlasFails
<1>14. CASE ReadMonth
  BY <1>14 DEF ReadMonth
<1>15. CASE ReadSectors
  BY <1>15 DEF ReadSectors, ReadStatement
<1>16. CASE ReadNodes
  BY <1>16 DEF ReadNodes, ReadStatement
<1>17. CASE ReadYears
  BY <1>17 DEF ReadYears, ReadStatement
<1>18. CASE ReadGenreYears
  BY <1>18 DEF ReadGenreYears, ReadStatement
<1>19. CASE ReadParents
  BY <1>19 DEF ReadParents, ReadStatement
<1>20. CASE UNCHANGED vars
  BY <1>20 DEF vars
<1>21. QED
  BY <1>1, <1>2, <1>3, <1>4, <1>5, <1>6, <1>7, <1>8, <1>9, <1>10, <1>11, <1>12, <1>13, <1>14, <1>15, <1>16, <1>17, <1>18, <1>19, <1>20 DEF Next, World, Counts, Atlas, Read

(* A month that is laid out is not laid out again.                            *)
LEMMA LayoutStep ==
    ASSUME TypeOK, LockHeld, FreeMonth, OneLayout, [Next]_vars
    PROVE  FreeMonth' /\ OneLayout'
<1> USE AtlasAssumption, NoRunAssumption DEF AtlasAssumption, NoRunAssumption, Months, Versions, Layouts, NoRun, NoAnswer, NoCounts, tableVars, layoutVars, runVars, readVars, TypeOK, LockHeld, FreeMonth, OneLayout, Laid
<1>1. CASE NextMonth
  BY <1>1 DEF NextMonth
<1>2. CASE CatalogChanges
  BY <1>2 DEF CatalogChanges
<1>3. CASE FetchCounts
  BY <1>3 DEF FetchCounts
<1>4. CASE StoreCounts
  BY <1>4 DEF StoreCounts
<1>5. CASE KeepCounts
  BY <1>5 DEF KeepCounts
<1>6. ASSUME NEW w \in Runs, BeginAtlas(w) PROVE FreeMonth' /\ OneLayout'
  BY <1>6 DEF BeginAtlas
<1>7. ASSUME NEW w \in Runs, ReadPinned(w) PROVE FreeMonth' /\ OneLayout'
  BY <1>7 DEF ReadPinned
<1>8. ASSUME NEW w \in Runs, FetchShares(w) PROVE FreeMonth' /\ OneLayout'
  BY <1>8 DEF FetchShares
<1>9. ASSUME NEW w \in Runs, TakeLock(w) PROVE FreeMonth' /\ OneLayout'
  BY <1>9 DEF TakeLock
<1>10. ASSUME NEW w \in Runs, Recheck(w) PROVE FreeMonth' /\ OneLayout'
  BY <1>10 DEF Recheck
<1>11. ASSUME NEW w \in Runs, LeaveToOther(w) PROVE FreeMonth' /\ OneLayout'
  BY <1>11 DEF LeaveToOther
<1>12. ASSUME NEW w \in Runs, CommitLayout(w) PROVE FreeMonth' /\ OneLayout'
  <2>1. lock = w /\ ~Laid(mine[w]) /\ mine[w] \in Months
    BY <1>12 DEF CommitLayout
  <2>2. sectors'[mine[w]] = {LayoutOf(w)} /\ nodes'[mine[w]] = Drawn({LayoutOf(w)})
    <3>1. sectors[mine[w]] = {} /\ nodes[mine[w]] = {}
      BY <2>1 DEF Drawn
    <3>2. QED
      BY <1>12, <2>1, <3>1 DEF CommitLayout
  <2>3. \A m \in Months \ {mine[w]} : sectors'[m] = sectors[m] /\ nodes'[m] = nodes[m]
    BY <1>12 DEF CommitLayout
  <2>4. ASSUME NEW m \in Months PROVE nodes'[m] = Drawn(sectors'[m]) /\ \A a, b \in sectors'[m] : a = b
    <3>1. CASE m = mine[w]
      BY <2>2, <3>1
    <3>2. CASE m # mine[w]
      BY <2>3, <3>2
    <3>3. QED
      BY <3>1, <3>2
  <2>5. \A x \in Runs : step'[x] # "insert"
    BY <1>12, <2>1 DEF CommitLayout
  <2>6. QED
    BY <2>4, <2>5
<1>13. ASSUME NEW w \in Runs, AtlasFails(w) PROVE FreeMonth' /\ OneLayout'
  BY <1>13 DEF AtlasFails
<1>14. CASE ReadMonth
  BY <1>14 DEF ReadMonth
<1>15. CASE ReadSectors
  BY <1>15 DEF ReadSectors, ReadStatement
<1>16. CASE ReadNodes
  BY <1>16 DEF ReadNodes, ReadStatement
<1>17. CASE ReadYears
  BY <1>17 DEF ReadYears, ReadStatement
<1>18. CASE ReadGenreYears
  BY <1>18 DEF ReadGenreYears, ReadStatement
<1>19. CASE ReadParents
  BY <1>19 DEF ReadParents, ReadStatement
<1>20. CASE UNCHANGED vars
  BY <1>20 DEF vars
<1>21. QED
  BY <1>1, <1>2, <1>3, <1>4, <1>5, <1>6, <1>7, <1>8, <1>9, <1>10, <1>11, <1>12, <1>13, <1>14, <1>15, <1>16, <1>17, <1>18, <1>19, <1>20 DEF Next, World, Counts, Atlas, Read

(* ... and its rows are never touched again.                                  *)
LEMMA FinalStep ==
    ASSUME TypeOK, FreeMonth, [Next]_vars
    PROVE  \A m \in Months : Laid(m) => sectors'[m] = sectors[m] /\ nodes'[m] = nodes[m]
<1> USE AtlasAssumption, NoRunAssumption DEF AtlasAssumption, NoRunAssumption, Months, Versions, Layouts, NoRun, NoAnswer, NoCounts, tableVars, layoutVars, runVars, readVars, TypeOK, FreeMonth, Laid
<1>1. CASE NextMonth
  BY <1>1 DEF NextMonth
<1>2. CASE CatalogChanges
  BY <1>2 DEF CatalogChanges
<1>3. CASE FetchCounts
  BY <1>3 DEF FetchCounts
<1>4. CASE StoreCounts
  BY <1>4 DEF StoreCounts
<1>5. CASE KeepCounts
  BY <1>5 DEF KeepCounts
<1>6. ASSUME NEW w \in Runs, BeginAtlas(w) PROVE \A m \in Months : Laid(m) => sectors'[m] = sectors[m] /\ nodes'[m] = nodes[m]
  BY <1>6 DEF BeginAtlas
<1>7. ASSUME NEW w \in Runs, ReadPinned(w) PROVE \A m \in Months : Laid(m) => sectors'[m] = sectors[m] /\ nodes'[m] = nodes[m]
  BY <1>7 DEF ReadPinned
<1>8. ASSUME NEW w \in Runs, FetchShares(w) PROVE \A m \in Months : Laid(m) => sectors'[m] = sectors[m] /\ nodes'[m] = nodes[m]
  BY <1>8 DEF FetchShares
<1>9. ASSUME NEW w \in Runs, TakeLock(w) PROVE \A m \in Months : Laid(m) => sectors'[m] = sectors[m] /\ nodes'[m] = nodes[m]
  BY <1>9 DEF TakeLock
<1>10. ASSUME NEW w \in Runs, Recheck(w) PROVE \A m \in Months : Laid(m) => sectors'[m] = sectors[m] /\ nodes'[m] = nodes[m]
  BY <1>10 DEF Recheck
<1>11. ASSUME NEW w \in Runs, LeaveToOther(w) PROVE \A m \in Months : Laid(m) => sectors'[m] = sectors[m] /\ nodes'[m] = nodes[m]
  BY <1>11 DEF LeaveToOther
<1>12. ASSUME NEW w \in Runs, CommitLayout(w) PROVE \A m \in Months : Laid(m) => sectors'[m] = sectors[m] /\ nodes'[m] = nodes[m]
  BY <1>12 DEF CommitLayout
<1>13. ASSUME NEW w \in Runs, AtlasFails(w) PROVE \A m \in Months : Laid(m) => sectors'[m] = sectors[m] /\ nodes'[m] = nodes[m]
  BY <1>13 DEF AtlasFails
<1>14. CASE ReadMonth
  BY <1>14 DEF ReadMonth
<1>15. CASE ReadSectors
  BY <1>15 DEF ReadSectors, ReadStatement
<1>16. CASE ReadNodes
  BY <1>16 DEF ReadNodes, ReadStatement
<1>17. CASE ReadYears
  BY <1>17 DEF ReadYears, ReadStatement
<1>18. CASE ReadGenreYears
  BY <1>18 DEF ReadGenreYears, ReadStatement
<1>19. CASE ReadParents
  BY <1>19 DEF ReadParents, ReadStatement
<1>20. CASE UNCHANGED vars
  BY <1>20 DEF vars
<1>21. QED
  BY <1>1, <1>2, <1>3, <1>4, <1>5, <1>6, <1>7, <1>8, <1>9, <1>10, <1>11, <1>12, <1>13, <1>14, <1>15, <1>16, <1>17, <1>18, <1>19, <1>20 DEF Next, World, Counts, Atlas, Read

(* The read goes on seeing the layout it began with.                          *)
LEMMA ReadStep ==
    ASSUME TypeOK, TypeOK', FreeMonth, OneLayout, ReadSoFar, [Next]_vars
    PROVE  ReadSoFar'
<1> USE AtlasAssumption, NoRunAssumption DEF AtlasAssumption, NoRunAssumption, Months, Versions, Layouts, NoRun, NoAnswer, NoCounts, tableVars, layoutVars, runVars, readVars, TypeOK, ReadSoFar, OneLayout, FreeMonth, Laid
<1>1. CASE NextMonth
  BY <1>1 DEF NextMonth
<1>2. CASE CatalogChanges
  BY <1>2 DEF CatalogChanges
<1>3. CASE FetchCounts
  BY <1>3 DEF FetchCounts
<1>4. CASE StoreCounts
  BY <1>4 DEF StoreCounts
<1>5. CASE KeepCounts
  BY <1>5 DEF KeepCounts
<1>6. ASSUME NEW w \in Runs, BeginAtlas(w) PROVE ReadSoFar'
  BY <1>6 DEF BeginAtlas
<1>7. ASSUME NEW w \in Runs, ReadPinned(w) PROVE ReadSoFar'
  BY <1>7 DEF ReadPinned
<1>8. ASSUME NEW w \in Runs, FetchShares(w) PROVE ReadSoFar'
  BY <1>8 DEF FetchShares
<1>9. ASSUME NEW w \in Runs, TakeLock(w) PROVE ReadSoFar'
  BY <1>9 DEF TakeLock
<1>10. ASSUME NEW w \in Runs, Recheck(w) PROVE ReadSoFar'
  BY <1>10 DEF Recheck
<1>11. ASSUME NEW w \in Runs, LeaveToOther(w) PROVE ReadSoFar'
  BY <1>11 DEF LeaveToOther
<1>12. ASSUME NEW w \in Runs, CommitLayout(w) PROVE ReadSoFar'
  BY <1>12 DEF CommitLayout
<1>13. ASSUME NEW w \in Runs, AtlasFails(w) PROVE ReadSoFar'
  BY <1>13 DEF AtlasFails
<1>14. CASE ReadMonth
  BY <1>14 DEF ReadMonth, IsLatestEarlier, Earlier
<1>15. CASE ReadSectors
  BY <1>15 DEF ReadSectors, ReadStatement
<1>16. CASE ReadNodes
  BY <1>16 DEF ReadNodes, ReadStatement
<1>17. CASE ReadYears
  BY <1>17 DEF ReadYears, ReadStatement
<1>18. CASE ReadGenreYears
  BY <1>18 DEF ReadGenreYears, ReadStatement
<1>19. CASE ReadParents
  BY <1>19 DEF ReadParents, ReadStatement
<1>20. CASE UNCHANGED vars
  BY <1>20 DEF vars
<1>21. QED
  BY <1>1, <1>2, <1>3, <1>4, <1>5, <1>6, <1>7, <1>8, <1>9, <1>10, <1>11, <1>12, <1>13, <1>14, <1>15, <1>16, <1>17, <1>18, <1>19, <1>20 DEF Next, World, Counts, Atlas, Read

(* The style tables are replaced together, by a whole answer.                 *)
LEMMA TablesStep ==
    ASSUME TypeOK, StoredTogether, CountsAreWhole, [Next]_vars
    PROVE  StoredTogether' /\ CountsAreWhole'
<1> USE AtlasAssumption DEF AtlasAssumption, Versions, TypeOK, CountsType, NoCounts, StoredTogether, CountsAreWhole, Complete, ParentRows, tableVars
<1>1. CASE NextMonth
  BY <1>1 DEF NextMonth
<1>2. CASE CatalogChanges
  BY <1>2 DEF CatalogChanges
<1>3. CASE FetchCounts
  BY <1>3 DEF FetchCounts
<1>4. CASE StoreCounts
  BY <1>4 DEF StoreCounts
<1>5. CASE KeepCounts
  BY <1>5 DEF KeepCounts
<1>6. ASSUME NEW w \in Runs, BeginAtlas(w) PROVE StoredTogether' /\ CountsAreWhole'
  BY <1>6 DEF BeginAtlas
<1>7. ASSUME NEW w \in Runs, ReadPinned(w) PROVE StoredTogether' /\ CountsAreWhole'
  BY <1>7 DEF ReadPinned
<1>8. ASSUME NEW w \in Runs, FetchShares(w) PROVE StoredTogether' /\ CountsAreWhole'
  BY <1>8 DEF FetchShares
<1>9. ASSUME NEW w \in Runs, TakeLock(w) PROVE StoredTogether' /\ CountsAreWhole'
  BY <1>9 DEF TakeLock
<1>10. ASSUME NEW w \in Runs, Recheck(w) PROVE StoredTogether' /\ CountsAreWhole'
  BY <1>10 DEF Recheck
<1>11. ASSUME NEW w \in Runs, LeaveToOther(w) PROVE StoredTogether' /\ CountsAreWhole'
  BY <1>11 DEF LeaveToOther
<1>12. ASSUME NEW w \in Runs, CommitLayout(w) PROVE StoredTogether' /\ CountsAreWhole'
  BY <1>12 DEF CommitLayout
<1>13. ASSUME NEW w \in Runs, AtlasFails(w) PROVE StoredTogether' /\ CountsAreWhole'
  BY <1>13 DEF AtlasFails
<1>14. CASE ReadMonth
  BY <1>14 DEF ReadMonth
<1>15. CASE ReadSectors
  BY <1>15 DEF ReadSectors, ReadStatement
<1>16. CASE ReadNodes
  BY <1>16 DEF ReadNodes, ReadStatement
<1>17. CASE ReadYears
  BY <1>17 DEF ReadYears, ReadStatement
<1>18. CASE ReadGenreYears
  BY <1>18 DEF ReadGenreYears, ReadStatement
<1>19. CASE ReadParents
  BY <1>19 DEF ReadParents, ReadStatement
<1>20. CASE UNCHANGED vars
  BY <1>20 DEF vars
<1>21. QED
  BY <1>1, <1>2, <1>3, <1>4, <1>5, <1>6, <1>7, <1>8, <1>9, <1>10, <1>11, <1>12, <1>13, <1>14, <1>15, <1>16, <1>17, <1>18, <1>19, <1>20 DEF Next, World, Counts, Atlas, Read

-----------------------------------------------------------------------------
(* The invariant holds in every reachable state.                              *)
THEOREM AtlasInvHolds == Spec => []AtlasInv
<1>1. Init => AtlasInv
  <2>1. Init => TypeOK
    BY AtlasAssumption DEF AtlasAssumption, Init, TypeOK, Months, Versions, Layouts, CountsType, AnswerType, NoAnswer, NoCounts
  <2>2. Init => LockHeld /\ FreeMonth /\ OneLayout /\ ReadSoFar
    BY NoRunAssumption DEF Init, LockHeld, FreeMonth, OneLayout, Drawn, ReadSoFar
  <2>3. Init => StoredTogether /\ CountsAreWhole
    BY DEF Init, StoredTogether, CountsAreWhole, ParentRows, Complete, NoCounts
  <2>4. QED
    BY <2>1, <2>2, <2>3 DEF AtlasInv
<1>2. AtlasInv /\ [Next]_vars => AtlasInv'
  BY TypeStep, LockStep, LayoutStep, ReadStep, TablesStep DEF AtlasInv
<1>3. QED
  BY <1>1, <1>2, PTL DEF Spec

(* Types are kept for every value of the constants.                           *)
THEOREM TypeCorrect == Spec => []TypeOK
<1>1. AtlasInv => TypeOK
  BY DEF AtlasInv
<1>2. QED
  BY <1>1, AtlasInvHolds, PTL

(* A month's layout never changes, however many runs lay it out at once       *)
(* (compute_and_store_style_atlas: the lock and the check inside it).         *)
THEOREM LayoutFinal == Spec => LayoutIsFinal
<1>1. AtlasInv /\ [Next]_vars => [\A m \in Months : Laid(m) => sectors'[m] = sectors[m] /\ nodes'[m] = nodes[m]]_vars
  BY FinalStep DEF AtlasInv
<1>2. QED
  BY <1>1, AtlasInvHolds, PTL DEF Spec, LayoutIsFinal

(* An atlas answer shows the sectors of one layout and the nodes drawn in it, *)
(* read in two statements or not (read_style_atlas).                          *)
THEOREM OneLayoutAnswered == Spec => []AnswerIsOneLayout
<1>1. AtlasInv => AnswerIsOneLayout
  <2>1. SUFFICES ASSUME AtlasInv, reader = "answered", answer.month # 0
                 PROVE  \E l \in Layouts : answer.sectors = {l} /\ answer.nodes = Drawn({l})
    BY DEF AnswerIsOneLayout
  <2>2. answer.month \in Months
    BY <2>1, AtlasAssumption DEF AtlasAssumption, AtlasInv, TypeOK, AnswerType, Months
  <2>3. answer.sectors = sectors[answer.month] /\ answer.nodes = Drawn(sectors[answer.month]) /\ sectors[answer.month] # {}
    BY <2>1, <2>2 DEF AtlasInv, ReadSoFar, OneLayout, Laid
  <2>4. PICK l \in sectors[answer.month] : TRUE
    BY <2>3
  <2>5. l \in Layouts /\ sectors[answer.month] = {l}
    BY <2>1, <2>2, <2>4 DEF AtlasInv, TypeOK, OneLayout
  <2>6. QED
    BY <2>3, <2>5
<1>2. QED
  BY <1>1, AtlasInvHolds, PTL

(* The three style tables hold one whole producer answer, the parents only    *)
(* what is kept of it (compute_and_store_style_year_counts).                  *)
THEOREM TablesTogether == Spec => []StoredTogether
<1>1. AtlasInv => StoredTogether
  BY DEF AtlasInv
<1>2. QED
  BY <1>1, AtlasInvHolds, PTL
=============================================================================
