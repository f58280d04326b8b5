------------------------ MODULE ComputationLogProofs ------------------------
(***************************************************************************)
(* Proofs about ComputationLog, for any number of computations and runs,   *)
(* stops and faults: type correctness, OnlyTheLiveRunIsRunning,            *)
(* OutcomeIsFinal, LastComputedIsReal and ServedRunIsLogged.               *)
(***************************************************************************)
EXTENDS ComputationLog, TLAPS

\* The row of a run that has not begun does not exist.
UnbegunRunsHaveNoRow == \A r \in Runs : r > nruns => startRow[r] = "none"

\* What the wrapper knows of its run's row at each of its awaits.
RowAtEachPoint ==
    /\ phase \in {"insert", "inserted"} => ~hasId
    /\ phase = "insert" => startRow[nruns] = "none"
    /\ phase = "inserted" => startRow[nruns] = "running"
    /\ phase \in {"operate", "return"} /\ hasId => startRow[nruns] = "running"
    /\ phase = "logged" /\ hasId => startRow[nruns] = "completed"
    /\ phase \in {"failing", "cancelling"} /\ hasId => startRow[nruns] \in {"running", "completed"}
    /\ phase \in InRun \ {"insert", "inserted"} /\ ~hasId => nruns \in unlogged

\* The current run is of this process, and no process starts out swept.
RunOfThisProcess ==
    /\ phase \in InRun => nruns > earlier
    /\ phase = "boot" => ~swept

\* The inductive invariant.
LogInv ==
    /\ TypeOK
    /\ UnbegunRunsHaveNoRow
    /\ RowAtEachPoint
    /\ RunOfThisProcess
    /\ OnlyTheLiveRunIsRunning

-----------------------------------------------------------------------------

(* _log_computation leaves a well-formed log, whichever row it writes. *)
LEMMA WriteOutcomeType ==
    ASSUME TypeOK, nruns \in Runs, NEW status \in Finished, WriteOutcome(status)
    PROVE  /\ typeOf' = typeOf
           /\ startRow' \in [Runs -> Finished \cup {"none", "running"}]
           /\ endRows' \in [Runs -> SUBSET Finished]
<1>1. CASE hasId /\ startRow[nruns] # "none"
  <2>1. /\ startRow' = [startRow EXCEPT ![nruns] = status]
        /\ endRows' = endRows
        /\ typeOf' = typeOf
    BY <1>1 DEF WriteOutcome
  <2>2. QED
    BY <2>1 DEF TypeOK
<1>2. CASE ~(hasId /\ startRow[nruns] # "none")
  <2>1. /\ endRows' = [endRows EXCEPT ![nruns] = @ \cup {status}]
        /\ startRow' = startRow
        /\ typeOf' = typeOf
    BY <1>2 DEF WriteOutcome
  <2>2. endRows[nruns] \cup {status} \in SUBSET Finished
    BY DEF TypeOK
  <2>3. QED
    BY <2>1, <2>2 DEF TypeOK
<1>3. QED
  BY <1>1, <1>2

(* Every step keeps the variables in their types. *)
LEMMA TypeStep == TypeOK /\ [Next]_vars => TypeOK'
<1> SUFFICES ASSUME TypeOK, [Next]_vars PROVE TypeOK'
  OBVIOUS
<1> USE NumTypesAssumption, BoundsAssumption
    DEF Types, Runs, InRun, TaskAlive, Phases, log
<1>1. CASE Boot
  <2>1. turn' \in Types /\ phase' \in Phases \ InRun /\ earlier' \in 0 .. nruns'
    BY <1>1 DEF Boot, TypeOK
  <2>2. QED
    BY <1>1, <2>1 DEF Boot, TypeOK
<1>2. CASE Sweep
  BY <1>2 DEF TypeOK, Finished, Sweep
<1>3. CASE SweepFails
  BY <1>3 DEF TypeOK, Finished, SweepFails
<1>4. CASE BeginRun
  <2>1. nruns' \in Runs /\ nruns' = nruns + 1 /\ phase' \in Phases
    BY <1>4 DEF BeginRun, TypeOK
  <2>2. typeOf' \in [Runs -> 0 .. NumTypes] /\ hasId' \in BOOLEAN
    <3>1. turn \in 0 .. NumTypes
      BY DEF TypeOK
    <3>2. QED
      BY <1>4, <3>1 DEF BeginRun, TypeOK
  <2>3. earlier' \in 0 .. nruns'
    BY <1>4, <2>1 DEF BeginRun, TypeOK
  <2>4. UNCHANGED <<turn, startRow, endRows, returned, tables, unlogged, swept, answer, stops, faults>>
    BY <1>4 DEF BeginRun
  <2>5. QED
    BY <2>1, <2>2, <2>3, <2>4 DEF TypeOK
<1>5. CASE InsertStart
  BY <1>5 DEF TypeOK, Finished, InsertStart
<1>6. CASE StartReturns
  BY <1>6 DEF TypeOK, Finished, StartReturns
<1>7. CASE StartFails
  BY <1>7 DEF TypeOK, Finished, StartFails
<1>8. CASE OperationReturns
  <2>1. nruns \in Runs
    BY <1>8 DEF OperationReturns, Replaced, TypeOK
  <2>2. tables' \in [Types -> 0 .. MaxRuns]
    BY <1>8, <2>1 DEF OperationReturns, Replaced, TypeOK
  <2>3. returned' \subseteq Runs /\ phase' \in Phases /\ nruns' \in Runs
    BY <1>8, <2>1 DEF OperationReturns, Replaced, TypeOK
  <2>4. QED
    BY <1>8, <2>2, <2>3 DEF OperationReturns, Replaced, TypeOK
<1>9. CASE OperationFails
  BY <1>9 DEF TypeOK, Finished, OperationFails
<1>10. CASE LogCompleted
  <2>1. nruns \in Runs /\ WriteOutcome("completed") /\ "completed" \in Finished
    BY <1>10 DEF LogCompleted, TypeOK, Finished
  <2>2. /\ typeOf' = typeOf
        /\ startRow' \in [Runs -> Finished \cup {"none", "running"}]
        /\ endRows' \in [Runs -> SUBSET Finished]
    BY <2>1, WriteOutcomeType
  <2>3. turn' \in Types /\ phase' \in Phases /\ nruns' \in Runs
    BY <1>10, <2>1 DEF LogCompleted, TypeOK
  <2>4. QED
    BY <1>10, <2>2, <2>3 DEF LogCompleted, TypeOK
<1>11. CASE LogCompletedFails
  BY <1>11 DEF TypeOK, Finished, LogCompletedFails
<1>12. CASE RunReturns
  BY <1>12 DEF TypeOK, Finished, RunReturns, NextTurn
<1>13. CASE LogFailed
  <2>1. nruns \in Runs /\ WriteOutcome("failed") /\ "failed" \in Finished
    BY <1>13 DEF LogFailed, TypeOK, Finished
  <2>2. /\ typeOf' = typeOf
        /\ startRow' \in [Runs -> Finished \cup {"none", "running"}]
        /\ endRows' \in [Runs -> SUBSET Finished]
    BY <2>1, WriteOutcomeType
  <2>3. turn' \in Types /\ phase' \in Phases /\ nruns' \in Runs
    BY <1>13, <2>1 DEF LogFailed, NextTurn, TypeOK
  <2>4. QED
    BY <1>13, <2>2, <2>3 DEF LogFailed, TypeOK
<1>14. CASE LogFailedFails
  BY <1>14 DEF TypeOK, Finished, LogFailedFails, NextTurn
<1>15. CASE LogInterrupted
  <2>1. nruns \in Runs /\ WriteOutcome("interrupted") /\ "interrupted" \in Finished
    BY <1>15 DEF LogInterrupted, TypeOK, Finished
  <2>2. /\ typeOf' = typeOf
        /\ startRow' \in [Runs -> Finished \cup {"none", "running"}]
        /\ endRows' \in [Runs -> SUBSET Finished]
    BY <2>1, WriteOutcomeType
  <2>3. turn' \in Types /\ phase' \in Phases /\ nruns' \in Runs
    BY <1>15, <2>1 DEF LogInterrupted, TypeOK
  <2>4. QED
    BY <1>15, <2>2, <2>3 DEF LogInterrupted, TypeOK
<1>16. CASE LogInterruptedFails
  BY <1>16 DEF TypeOK, Finished, LogInterruptedFails
<1>17. CASE Shutdown
  BY <1>17 DEF TypeOK, Finished, Shutdown
<1>18. CASE Cancel
  BY <1>18 DEF TypeOK, Finished, Cancel
<1>19. CASE Kill
  <2>1. answer' \in AnswerType
    BY <1>19 DEF Kill, NoAnswer, AnswerType
  <2>2. QED
    BY <1>19, <2>1 DEF Kill, TypeOK
<1>20. CASE ReadCompleted
  <2>1. \E last \in 0 .. MaxRuns : answer' = Answered(answer.type, answer.status, last)
    <3>1. CASE answer' = Answered(answer.type, answer.status, 0)
      BY <3>1
    <3>2. ASSUME NEW r \in Runs, answer' = Answered(answer.type, answer.status, r)
          PROVE  \E last \in 0 .. MaxRuns : answer' = Answered(answer.type, answer.status, last)
      BY <3>2
    <3>3. QED
      BY <1>20, <3>1, <3>2 DEF ReadCompleted
  <2>2. answer' \in AnswerType
    BY <2>1 DEF TypeOK, Answered, AnswerType
  <2>3. QED
    BY <1>20, <2>2 DEF ReadCompleted, TypeOK
<1>21. ASSUME NEW t \in Types, ReadNewest(t) PROVE TypeOK'
  <2>1. ASSUME answer' = Answered(t, "never_run", 0) PROVE answer' \in AnswerType
    BY <2>1 DEF Answered, AnswerType
  <2>2. ASSUME NEW r \in Runs,
               \/ answer' = Answered(t, "completed", r)
               \/ \E status \in RowsOf(r) \ {"completed"} :
                  \E reported \in {status} \cup (IF status = "running" THEN {"stale"} ELSE {}) :
                      answer' = [step |-> "newest", type |-> t, status |-> reported, last |-> 0]
        PROVE  answer' \in AnswerType
    <3>1. RowsOf(r) \subseteq Finished \cup {"running"}
      BY DEF RowsOf, TypeOK
    <3>2. QED
      BY <2>2, <3>1 DEF Answered, AnswerType, Finished
  <2>3. answer' \in AnswerType
    BY <1>21, <2>1, <2>2 DEF ReadNewest
  <2>4. QED
    BY <1>21, <2>3 DEF ReadNewest, TypeOK
<1>22. CASE UNCHANGED vars
  BY <1>22 DEF vars, TypeOK
<1>23. QED
  BY <1>1, <1>2, <1>3, <1>4, <1>5, <1>6, <1>7, <1>8, <1>9, <1>10, <1>11, <1>12, <1>13, <1>14, <1>15, <1>16, <1>17, <1>18, <1>19, <1>20, <1>21, <1>22 DEF Next, Startup, Wrapper, Stopping, Status

-----------------------------------------------------------------------------

(* The wrapper's knowledge of its row is preserved by every step. *)
LEMMA RowStep ==
    ASSUME TypeOK, TypeOK', UnbegunRunsHaveNoRow, RowAtEachPoint, RunOfThisProcess, [Next]_vars
    PROVE  UnbegunRunsHaveNoRow' /\ RowAtEachPoint' /\ RunOfThisProcess'
<1> USE BoundsAssumption
    DEF TypeOK, Runs, Finished, InRun, TaskAlive, Phases, log,
        UnbegunRunsHaveNoRow, RowAtEachPoint, RunOfThisProcess
<1>1. CASE Boot
  BY <1>1 DEF Boot
<1>2. CASE Sweep
  BY <1>2 DEF Sweep
<1>3. CASE SweepFails
  BY <1>3 DEF SweepFails
<1>4. CASE BeginRun
  BY <1>4 DEF BeginRun
<1>5. CASE InsertStart
  BY <1>5 DEF InsertStart
<1>6. CASE StartReturns
  BY <1>6 DEF StartReturns
<1>7. CASE StartFails
  BY <1>7 DEF StartFails
<1>8. CASE OperationReturns
  BY <1>8 DEF OperationReturns, Replaced
<1>9. CASE OperationFails
  BY <1>9 DEF OperationFails
<1>10. CASE LogCompleted
  BY <1>10 DEF LogCompleted, WriteOutcome
<1>11. CASE LogCompletedFails
  BY <1>11 DEF LogCompletedFails
<1>12. CASE RunReturns
  BY <1>12 DEF RunReturns
<1>13. CASE LogFailed
  BY <1>13 DEF LogFailed, WriteOutcome
<1>14. CASE LogFailedFails
  BY <1>14 DEF LogFailedFails
<1>15. CASE LogInterrupted
  BY <1>15 DEF LogInterrupted, WriteOutcome
<1>16. CASE LogInterruptedFails
  BY <1>16 DEF LogInterruptedFails
<1>17. CASE Shutdown
  BY <1>17 DEF Shutdown
<1>18. CASE Cancel
  BY <1>18 DEF Cancel
<1>19. CASE Kill
  BY <1>19 DEF Kill
<1>20. CASE Status \/ UNCHANGED vars
  BY <1>20 DEF Status, ReadNewest, ReadCompleted, vars
<1>21. QED
  BY <1>1, <1>2, <1>3, <1>4, <1>5, <1>6, <1>7, <1>8, <1>9, <1>10, <1>11, <1>12, <1>13, <1>14, <1>15, <1>16, <1>17, <1>18, <1>19, <1>20 DEF Next, Startup, Wrapper, Stopping

(* OnlyTheLiveRunIsRunning is preserved, given what the wrapper knows. *)
LEMMA LiveRunStep ==
    ASSUME LogInv, TypeOK', [Next]_vars
    PROVE  OnlyTheLiveRunIsRunning'
<1> USE BoundsAssumption
    DEF LogInv, TypeOK, Runs, Finished, InRun, TaskAlive, Phases, log,
        RowAtEachPoint, RunOfThisProcess, OnlyTheLiveRunIsRunning
<1>1. CASE Boot
  BY <1>1 DEF Boot
<1>2. CASE Sweep
  BY <1>2 DEF Sweep
<1>3. CASE SweepFails
  BY <1>3 DEF SweepFails
<1>4. CASE BeginRun
  BY <1>4 DEF BeginRun
<1>5. CASE InsertStart
  BY <1>5 DEF InsertStart
<1>6. CASE StartReturns
  BY <1>6 DEF StartReturns
<1>7. CASE StartFails
  BY <1>7 DEF StartFails
<1>8. CASE OperationReturns
  BY <1>8 DEF OperationReturns, Replaced
<1>9. CASE OperationFails
  BY <1>9 DEF OperationFails
<1>10. CASE LogCompleted
  BY <1>10 DEF LogCompleted, WriteOutcome
<1>11. CASE LogCompletedFails
  BY <1>11 DEF LogCompletedFails
<1>12. CASE RunReturns
  BY <1>12 DEF RunReturns
<1>13. CASE LogFailed
  BY <1>13 DEF LogFailed, WriteOutcome
<1>14. CASE LogFailedFails
  BY <1>14 DEF LogFailedFails
<1>15. CASE LogInterrupted
  BY <1>15 DEF LogInterrupted, WriteOutcome
<1>16. CASE LogInterruptedFails
  BY <1>16 DEF LogInterruptedFails
<1>17. CASE Shutdown
  BY <1>17 DEF Shutdown
<1>18. CASE Cancel
  BY <1>18 DEF Cancel
<1>19. CASE Kill
  BY <1>19 DEF Kill
<1>20. CASE Status \/ UNCHANGED vars
  BY <1>20 DEF Status, ReadNewest, ReadCompleted, vars
<1>21. QED
  BY <1>1, <1>2, <1>3, <1>4, <1>5, <1>6, <1>7, <1>8, <1>9, <1>10, <1>11, <1>12, <1>13, <1>14, <1>15, <1>16, <1>17, <1>18, <1>19, <1>20 DEF Next, Startup, Wrapper, Stopping

(* No step but the wrapper's own overwrites an outcome, and only a            *)
(* "completed" one.                                                          *)
LEMMA OutcomeStep ==
    ASSUME LogInv, [Next]_vars, NEW r \in Runs,
           startRow[r] \in Finished, startRow'[r] # startRow[r]
    PROVE  /\ r = nruns /\ phase \in {"failing", "cancelling"}
           /\ startRow[r] = "completed" /\ startRow'[r] \in {"failed", "interrupted"}
<1> USE BoundsAssumption
    DEF LogInv, TypeOK, Runs, Finished, InRun, TaskAlive, Phases, log, RowAtEachPoint
<1>1. CASE Boot
  BY <1>1 DEF Boot
<1>2. CASE Sweep
  BY <1>2 DEF Sweep
<1>3. CASE SweepFails
  BY <1>3 DEF SweepFails
<1>4. CASE BeginRun
  BY <1>4 DEF BeginRun
<1>5. CASE InsertStart
  BY <1>5 DEF InsertStart
<1>6. CASE StartReturns
  BY <1>6 DEF StartReturns
<1>7. CASE StartFails
  BY <1>7 DEF StartFails
<1>8. CASE OperationReturns
  BY <1>8 DEF OperationReturns, Replaced
<1>9. CASE OperationFails
  BY <1>9 DEF OperationFails
<1>10. CASE LogCompleted
  BY <1>10 DEF LogCompleted, WriteOutcome
<1>11. CASE LogCompletedFails
  BY <1>11 DEF LogCompletedFails
<1>12. CASE RunReturns
  BY <1>12 DEF RunReturns
<1>13. CASE LogFailed
  BY <1>13 DEF LogFailed, WriteOutcome
<1>14. CASE LogFailedFails
  BY <1>14 DEF LogFailedFails
<1>15. CASE LogInterrupted
  BY <1>15 DEF LogInterrupted, WriteOutcome
<1>16. CASE LogInterruptedFails
  BY <1>16 DEF LogInterruptedFails
<1>17. CASE Shutdown
  BY <1>17 DEF Shutdown
<1>18. CASE Cancel
  BY <1>18 DEF Cancel
<1>19. CASE Kill
  BY <1>19 DEF Kill
<1>20. CASE Status \/ UNCHANGED vars
  BY <1>20 DEF Status, ReadNewest, ReadCompleted, vars
<1>21. QED
  BY <1>1, <1>2, <1>3, <1>4, <1>5, <1>6, <1>7, <1>8, <1>9, <1>10, <1>11, <1>12, <1>13, <1>14, <1>15, <1>16, <1>17, <1>18, <1>19, <1>20 DEF Next, Startup, Wrapper, Stopping

-----------------------------------------------------------------------------

(* The invariant holds in every reachable state. *)
LEMMA LogInvHolds == Spec => []LogInv
<1>1. Init => LogInv
  <2> SUFFICES ASSUME Init PROVE LogInv
    OBVIOUS
  <2>1. answer \in AnswerType
    BY NumTypesAssumption, BoundsAssumption DEF Init, NoAnswer, AnswerType
  <2>2. TypeOK
    <3>1. /\ typeOf \in [Runs -> 0 .. NumTypes]
          /\ startRow \in [Runs -> Finished \cup {"none", "running"}]
          /\ tables \in [Types -> 0 .. MaxRuns]
      BY NumTypesAssumption, BoundsAssumption DEF Init
    <3>2. endRows \in [Runs -> SUBSET Finished]
      BY DEF Init
    <3>3. turn \in Types /\ phase \in Phases \ InRun
      BY NumTypesAssumption DEF Init, Types, InRun, TaskAlive, Phases
    <3>4. /\ nruns \in 0 .. MaxRuns /\ earlier \in 0 .. nruns
          /\ stops \in 0 .. MaxStops /\ faults \in 0 .. MaxFaults
      BY BoundsAssumption DEF Init
    <3>5. hasId \in BOOLEAN /\ swept \in BOOLEAN /\ returned \subseteq Runs /\ unlogged \subseteq Runs
      BY DEF Init
    <3>6. QED
      BY <2>1, <3>1, <3>2, <3>3, <3>4, <3>5 DEF TypeOK
  <2>3. UnbegunRunsHaveNoRow /\ RowAtEachPoint /\ RunOfThisProcess /\ OnlyTheLiveRunIsRunning
    BY DEF Init, InRun, TaskAlive, Runs, UnbegunRunsHaveNoRow, RowAtEachPoint,
           RunOfThisProcess, OnlyTheLiveRunIsRunning
  <2>4. QED
    BY <2>2, <2>3 DEF LogInv
<1>2. LogInv /\ [Next]_vars => LogInv'
  <2> SUFFICES ASSUME LogInv, [Next]_vars PROVE LogInv'
    OBVIOUS
  <2>1. TypeOK'
    BY TypeStep DEF LogInv
  <2>2. UnbegunRunsHaveNoRow' /\ RowAtEachPoint' /\ RunOfThisProcess'
    BY <2>1, RowStep DEF LogInv
  <2>3. OnlyTheLiveRunIsRunning'
    BY <2>1, LiveRunStep
  <2>4. QED
    BY <2>1, <2>2, <2>3 DEF LogInv
<1>3. QED
  BY <1>1, <1>2, PTL DEF Spec

(* The state of the engine, the log and a status request are well-formed in   *)
(* every reachable state, for any number of computations, runs and stops.     *)
THEOREM TypeCorrect == Spec => []TypeOK
<1>1. LogInv => TypeOK
  BY DEF LogInv
<1>2. QED
  BY <1>1, LogInvHolds, PTL

(* After a successful sweep a "running" row of the log is the row of the run  *)
(* in progress, whatever stops, kills and failed statements came before.      *)
THEOREM LiveRunCorrect == Spec => []OnlyTheLiveRunIsRunning
<1>1. LogInv => OnlyTheLiveRunIsRunning
  BY DEF LogInv
<1>2. QED
  BY <1>1, LogInvHolds, PTL

(* An outcome in the log is final: only the run itself may still turn its     *)
(* "completed" into "failed" or "interrupted".                                *)
THEOREM OutcomeFinal == Spec => OutcomeIsFinal
<1>1. LogInv /\ [Next]_vars =>
        [\A r \in Runs : startRow[r] \in Finished /\ startRow'[r] # startRow[r] =>
            /\ r = nruns /\ phase \in {"failing", "cancelling"}
            /\ startRow[r] = "completed" /\ startRow'[r] \in {"failed", "interrupted"}]_vars
  BY OutcomeStep
<1>2. QED
  BY <1>1, LogInvHolds, PTL DEF Spec, OutcomeIsFinal

-----------------------------------------------------------------------------

\* A row says "completed" only for a run whose operation returned ...
CompletedHasReturned ==
    /\ \A r \in Runs : "completed" \in RowsOf(r) => r \in returned
    /\ \A r \in returned : r <= nruns
    /\ phase \in {"return", "logged"} => nruns \in returned

\* ... and the second SELECT is made for any other status only.
NewestIsNotCompleted == answer.step = "newest" => answer.status # "completed"

\* The run whose rows the tables hold has a row in the log, of whatever status.
ServedRunHasARow ==
    \A t \in Types : tables[t] # 0 => RowsOf(tables[t]) # {} \/ tables[t] \in unlogged

\* What the status endpoint's answers rest on.
StatusInv ==
    CompletedHasReturned /\ NewestIsNotCompleted /\ LastComputedIsReal /\ ServedRunHasARow

(* _log_computation adds its own status to the rows of its own run, and no    *)
(* run loses its last row.                                                    *)
LEMMA WriteOutcomeRows ==
    ASSUME TypeOK, nruns \in Runs, NEW status \in Finished, WriteOutcome(status)
    PROVE  /\ \A r \in Runs : RowsOf(r) # {} => RowsOf(r)' # {}
           /\ \A r \in Runs : RowsOf(r)' \subseteq RowsOf(r) \cup {status}
           /\ \A r \in Runs : r # nruns => RowsOf(r)' = RowsOf(r)
<1>1. CASE hasId /\ startRow[nruns] # "none"
  <2>1. startRow' = [startRow EXCEPT ![nruns] = status] /\ endRows' = endRows
    BY <1>1 DEF WriteOutcome
  <2>2. QED
    BY <2>1 DEF TypeOK, RowsOf, Finished
<1>2. CASE ~(hasId /\ startRow[nruns] # "none")
  <2>1. endRows' = [endRows EXCEPT ![nruns] = @ \cup {status}] /\ startRow' = startRow
    BY <1>2 DEF WriteOutcome
  <2>2. QED
    BY <2>1 DEF TypeOK, RowsOf
<1>3. QED
  BY <1>1, <1>2

(* A step that writes an outcome, if "completed" then of a run that returned, *)
(* keeps what the endpoint rests on.                                          *)
LEMMA OutcomeKeepsStatus ==
    ASSUME TypeOK, nruns \in Runs, StatusInv,
           NEW status \in Finished, WriteOutcome(status),
           status = "completed" => nruns \in returned,
           UNCHANGED <<nruns, returned, tables, unlogged, answer>>,
           phase' \in {"return", "logged"} => nruns \in returned
    PROVE  StatusInv'
<1>1. typeOf' = typeOf
  BY DEF WriteOutcome
<1>2. /\ \A r \in Runs : RowsOf(r) # {} => RowsOf(r)' # {}
      /\ \A r \in Runs : RowsOf(r)' \subseteq RowsOf(r) \cup {status}
      /\ \A r \in Runs : r # nruns => RowsOf(r)' = RowsOf(r)
  BY WriteOutcomeRows
<1>3. CompletedHasReturned'
  BY <1>2 DEF StatusInv, CompletedHasReturned
<1>4. NewestIsNotCompleted' /\ LastComputedIsReal'
  BY <1>1 DEF StatusInv, NewestIsNotCompleted, LastComputedIsReal
<1>5. ServedRunHasARow'
  <2> SUFFICES ASSUME NEW t \in Types, tables[t] # 0, tables[t] \notin unlogged
               PROVE  RowsOf(tables[t])' # {}
    BY DEF ServedRunHasARow
  <2>1. tables[t] \in Runs
    BY BoundsAssumption DEF TypeOK, Runs
  <2>2. RowsOf(tables[t]) # {}
    BY DEF StatusInv, ServedRunHasARow
  <2>3. tables' = tables
    OBVIOUS
  <2>4. QED
    BY <1>2, <2>1, <2>2, <2>3 DEF RowsOf
<1>6. QED
  BY <1>3, <1>4, <1>5 DEF StatusInv

(* So does a step that writes no row, ends no operation and gives no answer.  *)
LEMMA OtherStepKeepsStatus ==
    ASSUME StatusInv, UNCHANGED <<nruns, log, returned, tables>>,
           unlogged \subseteq unlogged', answer' \in {answer, NoAnswer},
           phase' \in {"return", "logged"} => nruns \in returned
    PROVE  StatusInv'
<1>1. CompletedHasReturned' /\ ServedRunHasARow'
  BY DEF StatusInv, CompletedHasReturned, ServedRunHasARow, RowsOf, log
<1>2. NewestIsNotCompleted' /\ LastComputedIsReal'
  BY DEF StatusInv, NewestIsNotCompleted, LastComputedIsReal, NoAnswer, log
<1>3. QED
  BY <1>1, <1>2 DEF StatusInv

(* What the status endpoint's answers rest on is preserved by every step.     *)
LEMMA StatusStep ==
    ASSUME LogInv, StatusInv, [Next]_vars
    PROVE  StatusInv'
<1> USE DEF LogInv
<1>1. nruns \in Nat /\ MaxRuns \in Nat /\ (phase \in InRun => nruns \in Runs)
  BY BoundsAssumption DEF TypeOK, Runs
<1>2. CASE Boot \/ SweepFails \/ StartReturns \/ StartFails \/ OperationFails \/ LogCompletedFails
           \/ RunReturns \/ LogFailedFails \/ LogInterruptedFails \/ Shutdown \/ Cancel \/ Kill
  <2>1. UNCHANGED <<nruns, log, returned, tables>>
    BY <1>2 DEF Boot, SweepFails, StartReturns, StartFails, OperationFails, LogCompletedFails,
           RunReturns, LogFailedFails, LogInterruptedFails, Shutdown, Cancel, Kill
  <2>2. unlogged \subseteq unlogged' /\ answer' \in {answer, NoAnswer}
    BY <1>2 DEF Boot, SweepFails, StartReturns, StartFails, OperationFails, LogCompletedFails,
           RunReturns, LogFailedFails, LogInterruptedFails, Shutdown, Cancel, Kill
  <2>3. phase' \notin {"return", "logged"}
    BY <1>2 DEF Boot, SweepFails, StartReturns, StartFails, OperationFails, LogCompletedFails,
           RunReturns, LogFailedFails, LogInterruptedFails, Shutdown, Cancel, Kill
  <2>4. QED
    BY <2>1, <2>2, <2>3, OtherStepKeepsStatus
<1>3. CASE Sweep
  <2>1. \A r \in Runs : startRow'[r] = IF startRow[r] = "running" THEN "interrupted" ELSE startRow[r]
    BY <1>3 DEF Sweep
  <2>2. /\ UNCHANGED <<nruns, typeOf, endRows, returned, tables, unlogged, answer>>
        /\ phase' = "idle"
    BY <1>3 DEF Sweep
  <2>3. \A r \in Runs : "completed" \in RowsOf(r)' => "completed" \in RowsOf(r)
    BY <2>1, <2>2 DEF RowsOf
  <2>4. \A r \in Runs : RowsOf(r) # {} => RowsOf(r)' # {}
    BY <2>1, <2>2 DEF RowsOf
  <2>5. CompletedHasReturned'
    BY <2>2, <2>3 DEF StatusInv, CompletedHasReturned
  <2>6. NewestIsNotCompleted' /\ LastComputedIsReal'
    BY <2>2 DEF StatusInv, NewestIsNotCompleted, LastComputedIsReal
  <2>7. \A t \in Types : tables[t] # 0 => tables[t] \in Runs
    BY BoundsAssumption DEF TypeOK, Runs
  <2>8. ServedRunHasARow'
    BY <2>2, <2>4, <2>7 DEF StatusInv, ServedRunHasARow, RowsOf
  <2>9. QED
    BY <2>5, <2>6, <2>8 DEF StatusInv
<1>4. CASE BeginRun
  <2>1. /\ UNCHANGED <<startRow, endRows, returned, tables, unlogged, answer>>
        /\ nruns' = nruns + 1 /\ phase' = "insert"
        /\ typeOf' = [typeOf EXCEPT ![nruns + 1] = turn]
    BY <1>4 DEF BeginRun
  <2>2. CompletedHasReturned' /\ NewestIsNotCompleted' /\ ServedRunHasARow'
    BY <1>1, <2>1 DEF StatusInv, CompletedHasReturned, NewestIsNotCompleted, ServedRunHasARow,
                      RowsOf, TypeOK, Runs
  <2>3. \A r \in returned : typeOf'[r] = typeOf[r]
    BY <1>1, <2>1 DEF StatusInv, CompletedHasReturned, TypeOK, Runs
  <2>4. LastComputedIsReal'
    BY <2>1, <2>3 DEF StatusInv, LastComputedIsReal
  <2>5. QED
    BY <2>2, <2>4 DEF StatusInv
<1>5. CASE InsertStart
  <2>1. nruns \in Runs /\ startRow[nruns] = "none"
    BY <1>1, <1>5 DEF InsertStart, InRun, RowAtEachPoint
  <2>2. /\ UNCHANGED <<nruns, typeOf, endRows, returned, tables, unlogged, answer>>
        /\ startRow' = [startRow EXCEPT ![nruns] = "running"] /\ phase' = "inserted"
    BY <1>5 DEF InsertStart
  <2>3. \A r \in Runs : /\ "completed" \in RowsOf(r)' => "completed" \in RowsOf(r)
                        /\ RowsOf(r) # {} => RowsOf(r)' # {}
    BY <2>1, <2>2 DEF RowsOf, TypeOK
  <2>4. CompletedHasReturned' /\ NewestIsNotCompleted' /\ LastComputedIsReal'
    BY <2>2, <2>3 DEF StatusInv, CompletedHasReturned, NewestIsNotCompleted, LastComputedIsReal
  <2>5. \A t \in Types : tables[t] # 0 => tables[t] \in Runs
    BY BoundsAssumption DEF TypeOK, Runs
  <2>6. ServedRunHasARow'
    BY <2>2, <2>3, <2>5 DEF StatusInv, ServedRunHasARow, RowsOf
  <2>7. QED
    BY <2>4, <2>6 DEF StatusInv
<1>6. CASE OperationReturns
  <2>1. /\ UNCHANGED <<nruns, typeOf, startRow, endRows, unlogged, answer>>
        /\ phase = "operate" /\ returned' = returned \cup {nruns}
        /\ tables' \in {tables, [tables EXCEPT ![typeOf[nruns]] = nruns]}
    BY <1>6 DEF OperationReturns, Replaced, log
  <2>2. nruns \in Runs
    BY <1>1, <2>1 DEF InRun
  <2>3. RowsOf(nruns) # {} \/ nruns \in unlogged
    BY <2>1, <2>2 DEF RowAtEachPoint, RowsOf, InRun
  <2>4. \A t \in Types : tables'[t] \in {tables[t], nruns}
    BY <2>1 DEF TypeOK
  <2>5. ServedRunHasARow'
    BY <2>1, <2>3, <2>4 DEF StatusInv, ServedRunHasARow, RowsOf
  <2>6. CompletedHasReturned' /\ NewestIsNotCompleted' /\ LastComputedIsReal'
    BY <1>1, <2>1 DEF StatusInv, CompletedHasReturned, NewestIsNotCompleted, LastComputedIsReal, RowsOf
  <2>7. QED
    BY <2>5, <2>6 DEF StatusInv
<1>7. CASE LogCompleted
  <2>1. /\ nruns \in Runs /\ nruns \in returned
        /\ WriteOutcome("completed") /\ "completed" \in Finished
        /\ UNCHANGED <<nruns, returned, tables, unlogged, answer>>
    BY <1>1, <1>7 DEF LogCompleted, InRun, Finished, StatusInv, CompletedHasReturned
  <2>2. QED
    BY <2>1, OutcomeKeepsStatus
<1>8. CASE LogFailed
  <2>1. /\ nruns \in Runs /\ WriteOutcome("failed") /\ "failed" \in Finished
        /\ UNCHANGED <<nruns, returned, tables, unlogged, answer>> /\ phase' = "idle"
    BY <1>1, <1>8 DEF LogFailed, InRun, Finished
  <2>2. QED
    BY <2>1, OutcomeKeepsStatus
<1>9. CASE LogInterrupted
  <2>1. /\ nruns \in Runs /\ WriteOutcome("interrupted") /\ "interrupted" \in Finished
        /\ UNCHANGED <<nruns, returned, tables, unlogged, answer>> /\ phase' = "stopping"
    BY <1>1, <1>9 DEF LogInterrupted, InRun, Finished
  <2>2. QED
    BY <2>1, OutcomeKeepsStatus
<1>10. ASSUME UNCHANGED <<phase, nruns, log, returned, tables, unlogged>>,
             NewestIsNotCompleted', LastComputedIsReal'
      PROVE  StatusInv'
  BY <1>10 DEF StatusInv, CompletedHasReturned, ServedRunHasARow, RowsOf, log
<1>11. ASSUME NEW t \in Types, ReadNewest(t) PROVE StatusInv'
  <2>1. UNCHANGED <<phase, nruns, log, returned, tables, unlogged>>
    BY <1>11 DEF ReadNewest
  <2>2. CASE answer' = Answered(t, "never_run", 0)
    BY <1>10, <2>1, <2>2 DEF Answered, NewestIsNotCompleted, LastComputedIsReal
  <2>3. ASSUME NEW r \in Runs, IsLatest(r, LoggedRuns(t)),
               "completed" \in RowsOf(r), answer' = Answered(t, "completed", r)
        PROVE  StatusInv'
    <3>1. r \in returned /\ typeOf[r] = t /\ r # 0
      BY <2>3 DEF IsLatest, LoggedRuns, StatusInv, CompletedHasReturned, Runs
    <3>2. QED
      BY <1>10, <2>1, <2>3, <3>1 DEF Answered, NewestIsNotCompleted, LastComputedIsReal, log
  <2>4. ASSUME NEW r \in Runs, NEW status \in RowsOf(r) \ {"completed"},
               NEW reported \in {status} \cup (IF status = "running" THEN {"stale"} ELSE {}),
               answer' = [step |-> "newest", type |-> t, status |-> reported, last |-> 0]
        PROVE  StatusInv'
    BY <1>10, <2>1, <2>4 DEF NewestIsNotCompleted, LastComputedIsReal
  <2>5. QED
    BY <1>11, <2>2, <2>3, <2>4 DEF ReadNewest
<1>12. CASE ReadCompleted
  <2>1. /\ UNCHANGED <<phase, nruns, log, returned, tables, unlogged>>
        /\ answer.status # "completed"
    BY <1>12 DEF ReadCompleted, StatusInv, NewestIsNotCompleted
  <2>2. CASE answer' = Answered(answer.type, answer.status, 0)
    BY <1>10, <2>1, <2>2 DEF Answered, NewestIsNotCompleted, LastComputedIsReal
  <2>3. ASSUME NEW r \in Runs, IsLatest(r, CompletedRuns(answer.type)),
               answer' = Answered(answer.type, answer.status, r)
        PROVE  StatusInv'
    <3>1. r \in returned /\ typeOf[r] = answer.type
      BY <2>3 DEF IsLatest, CompletedRuns, StatusInv, CompletedHasReturned
    <3>2. QED
      BY <1>10, <2>1, <2>3, <3>1 DEF Answered, NewestIsNotCompleted, LastComputedIsReal, log
  <2>4. QED
    BY <1>12, <2>2, <2>3 DEF ReadCompleted
<1>13. CASE UNCHANGED vars
  BY <1>13 DEF vars, log, StatusInv, CompletedHasReturned, NewestIsNotCompleted, LastComputedIsReal,
               ServedRunHasARow, RowsOf
<1>14. QED
  BY <1>2, <1>3, <1>4, <1>5, <1>6, <1>7, <1>8, <1>9, <1>11, <1>12, <1>13
  DEF Next, Startup, Wrapper, Stopping, Status

(* It holds in every reachable state. *)
LEMMA StatusInvHolds == Spec => []StatusInv
<1>1. Init => StatusInv
  BY DEF Init, NoAnswer, StatusInv, CompletedHasReturned, NewestIsNotCompleted, LastComputedIsReal,
         ServedRunHasARow, RowsOf
<1>2. LogInv /\ StatusInv /\ [Next]_vars => StatusInv'
  BY StatusStep
<1>3. QED
  BY <1>1, <1>2, LogInvHolds, PTL DEF Spec

(* The last_computed the status endpoint reports is the completion of a run   *)
(* of that computation that really returned, however runs, failed statements, *)
(* restarts and the endpoint's two SELECTs interleave.                        *)
THEOREM LastComputedCorrect == Spec => []LastComputedIsReal
<1>1. StatusInv => LastComputedIsReal
  BY DEF StatusInv
<1>2. QED
  BY <1>1, StatusInvHolds, PTL

(* Between runs of a swept process, the run whose rows are served has an      *)
(* outcome in the log unless one of its own log statements failed.            *)
THEOREM ServedRunCorrect == Spec => []ServedRunIsLogged
<1>1. LogInv /\ StatusInv => ServedRunIsLogged
  <2> SUFFICES ASSUME LogInv, StatusInv, phase = "idle", NEW t \in Types, tables[t] # 0,
                      tables[t] \notin unlogged, swept
               PROVE  RowsOf(tables[t]) \cap Finished # {}
    BY DEF ServedRunIsLogged
  <2>1. tables[t] \in Runs
    BY BoundsAssumption DEF LogInv, TypeOK, Runs
  <2>2. RowsOf(tables[t]) # {}
    BY DEF StatusInv, ServedRunHasARow
  <2>3. startRow[tables[t]] # "running"
    BY <2>1 DEF LogInv, OnlyTheLiveRunIsRunning, InRun, TaskAlive
  <2>4. RowsOf(tables[t]) \subseteq Finished
    BY <2>1, <2>3 DEF LogInv, TypeOK, RowsOf
  <2>5. QED
    BY <2>2, <2>4
<1>2. QED
  BY <1>1, LogInvHolds, StatusInvHolds, PTL
=============================================================================
