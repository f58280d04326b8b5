--------------------------- MODULE ComputationLog ---------------------------
(***************************************************************************)
(* The lifecycle of computation runs: the scheduler task that runs the     *)
(* computations one after another, the wrapper that gives every run a row  *)
(* of insights.computation_log, the sweep at startup, and the status       *)
(* endpoint that reads the log (insights/computations.py, insights.py).    *)
(*                                                                         *)
(* A run is numbered by its started_at.  Rows are kept per run:            *)
(* startRow[r] is the row _start_computation inserts, endRows[r] the rows  *)
(* _log_computation inserts for a run without a usable run_id.  A step of  *)
(* the wrapper lies between two awaits, so a SIGTERM (a cancellation) or a *)
(* SIGKILL can fall between any two steps.                                 *)
(***************************************************************************)
EXTENDS Naturals

CONSTANTS
    NumTypes,   \* how many computations one cycle runs
    MaxRuns,    \* bound: runs ever started
    MaxStops,   \* bound: times the engine is stopped or killed
    MaxFaults   \* bound: failed log statements (start, outcome or sweep)

ASSUME NumTypesAssumption == NumTypes \in Nat \ {0}
ASSUME BoundsAssumption == MaxRuns \in Nat /\ MaxStops \in Nat /\ MaxFaults \in Nat

VARIABLES
    phase,      \* where the engine is: down, booting, or a point of the wrapper
    turn,       \* the computation run_all_computations reaches next
    nruns,      \* runs started so far; the newest run
    hasId,      \* did _start_computation return the row's id to the current run
    typeOf,     \* the computation each run is of, 0 before it starts
    startRow,   \* status of the row inserted at the run's start, or "none"
    endRows,    \* statuses of the rows inserted at the run's end
    returned,   \* history: runs whose operation returned normally
    tables,     \* per computation: the run whose rows the tables hold, 0 if none
    unlogged,   \* history: runs a log statement failed for
    swept,      \* history: did this process's startup sweep succeed
    earlier,    \* history: the last run of an earlier process
    answer,     \* the status request in progress, or the last answer
    stops, faults

log == <<typeOf, startRow, endRows>>
vars == <<phase, turn, nruns, hasId, log, returned, tables, unlogged, swept,
          earlier, answer, stops, faults>>

Types == 1 .. NumTypes
Runs == 1 .. MaxRuns
Finished == {"completed", "failed", "interrupted"}

\* The points at which the scheduler task awaits something, inside a run ...
InRun == {"insert", "inserted", "operate", "return", "logged", "failing", "cancelling"}
\* ... and anywhere in the life of the task.
TaskAlive == InRun \cup {"idle"}
Phases == TaskAlive \cup {"down", "boot", "stopping"}

NoAnswer == [step |-> "none", type |-> 0, status |-> "none", last |-> 0]

AnswerType ==
    [step : {"none", "newest", "answered"}, type : 0 .. NumTypes, last : 0 .. MaxRuns,
     status : Finished \cup {"none", "never_run", "running", "stale"}]

TypeOK ==
    /\ phase \in Phases
    /\ turn \in Types
    /\ nruns \in 0 .. MaxRuns
    /\ (phase \in InRun => nruns \in Runs)
    /\ hasId \in BOOLEAN
    /\ typeOf \in [Runs -> 0 .. NumTypes]
    /\ startRow \in [Runs -> Finished \cup {"none", "running"}]
    /\ endRows \in [Runs -> SUBSET Finished]
    /\ returned \subseteq Runs
    /\ tables \in [Types -> 0 .. MaxRuns]
    /\ unlogged \subseteq Runs
    /\ swept \in BOOLEAN
    /\ earlier \in 0 .. nruns
    /\ answer \in AnswerType
    /\ stops \in 0 .. MaxStops
    /\ faults \in 0 .. MaxFaults

Init ==
    /\ phase = "down"
    /\ turn = 1
    /\ nruns = 0
    /\ hasId = FALSE
    /\ typeOf = [r \in Runs |-> 0]
    /\ startRow = [r \in Runs |-> "none"]
    /\ endRows = [r \in Runs |-> {}]
    /\ returned = {}
    /\ tables = [t \in Types |-> 0]
    /\ unlogged = {}
    /\ swept = FALSE
    /\ earlier = 0
    /\ answer = NoAnswer
    /\ stops = 0
    /\ faults = 0

-----------------------------------------------------------------------------
(* Startup: lifespan opens the pool, sweeps, then creates the scheduler.     *)

Boot ==
    /\ phase = "down"
    /\ phase' = "boot"
    /\ turn' = 1
    /\ swept' = FALSE
    /\ earlier' = nruns
    /\ UNCHANGED <<nruns, hasId, log, returned, tables, unlogged, answer, stops, faults>>

\* Mutations of Sweep: it closes finished rows too; its UPDATE is not committed.
SweepEveryRow ==
    /\ phase = "boot"
    /\ startRow' = [r \in Runs |-> IF startRow[r] # "none" THEN "interrupted" ELSE "none"]
    /\ swept' = TRUE
    /\ phase' = "idle"
    /\ UNCHANGED <<turn, nruns, hasId, typeOf, endRows, returned, tables, unlogged,
                   earlier, answer, stops, faults>>

SweepUncommitted ==
    /\ phase = "boot"
    /\ swept' = TRUE
    /\ phase' = "idle"
    /\ UNCHANGED <<turn, nruns, hasId, log, returned, tables, unlogged, earlier, answer, stops, faults>>

\* mark_interrupted_runs: one UPDATE closes every row still "running".
Sweep ==
    /\ phase = "boot"
    /\ startRow' = [r \in Runs |-> IF startRow[r] = "running" THEN "interrupted" ELSE startRow[r]]
    /\ swept' = TRUE
    /\ phase' = "idle"
    /\ UNCHANGED <<turn, nruns, hasId, typeOf, endRows, returned, tables, unlogged,
                   earlier, answer, stops, faults>>

\* The sweep's exception is logged and swallowed; the scheduler starts anyway.
SweepFails ==
    /\ phase = "boot"
    /\ faults < MaxFaults
    /\ faults' = faults + 1
    /\ phase' = "idle"
    /\ UNCHANGED <<turn, nruns, hasId, log, returned, tables, unlogged, swept, earlier, answer, stops>>

-----------------------------------------------------------------------------
(* One run, in the wrapper of _record_lifecycle.                             *)

\* started_at is taken; _start_computation has not committed its INSERT yet.
BeginRun ==
    /\ phase = "idle"
    /\ nruns < MaxRuns
    /\ nruns' = nruns + 1
    /\ typeOf' = [typeOf EXCEPT ![nruns + 1] = turn]
    /\ hasId' = FALSE
    /\ phase' = "insert"
    /\ UNCHANGED <<turn, startRow, endRows, returned, tables, unlogged, swept, earlier, answer, stops, faults>>

\* The INSERT of the "running" row commits; its id has not come back yet.
InsertStart ==
    /\ phase = "insert"
    /\ startRow' = [startRow EXCEPT ![nruns] = "running"]
    /\ phase' = "inserted"
    /\ UNCHANGED <<turn, nruns, hasId, typeOf, endRows, returned, tables, unlogged,
                   swept, earlier, answer, stops, faults>>

StartReturns ==
    /\ phase = "inserted"
    /\ hasId' = TRUE
    /\ phase' = "operate"
    /\ UNCHANGED <<turn, nruns, log, returned, tables, unlogged, swept, earlier, answer, stops, faults>>

\* _start_computation returns None on any exception, before the commit or
\* after it, and the run goes on without an id.
StartFails ==
    /\ phase \in {"insert", "inserted"}
    /\ faults < MaxFaults
    /\ faults' = faults + 1
    /\ unlogged' = unlogged \cup {nruns}
    /\ phase' = "operate"
    /\ UNCHANGED <<turn, nruns, hasId, log, returned, tables, swept, earlier, answer, stops>>

\* Tables are replaced by one transaction: DELETE, then the rows of this run.
Replaced == [tables EXCEPT ![typeOf[nruns]] = nruns]

\* Mutation of OperationReturns: the "completed" write is forgotten.
OperationReturnsUnlogged ==
    /\ phase = "operate"
    /\ tables' \in {tables, Replaced}
    /\ returned' = returned \cup {nruns}
    /\ phase' = "logged"
    /\ UNCHANGED <<turn, nruns, hasId, log, unlogged, swept, earlier, answer, stops, faults>>

\* The operation commits its tables, or returns early and keeps them (an
\* empty or partial producer result, a month already laid out).
OperationReturns ==
    /\ phase = "operate"
    /\ tables' \in {tables, Replaced}
    /\ returned' = returned \cup {nruns}
    /\ phase' = "return"
    /\ UNCHANGED <<turn, nruns, hasId, log, unlogged, swept, earlier, answer, stops, faults>>

\* An exception in the operation rolls its transaction back.
OperationFails ==
    /\ phase = "operate"
    /\ phase' = "failing"
    /\ UNCHANGED <<turn, nruns, hasId, log, returned, tables, unlogged, swept, earlier, answer, stops, faults>>

\* _log_computation: finish the row run_id names, else insert a finished one.
WriteOutcome(status) ==
    /\ IF hasId /\ startRow[nruns] # "none"
         THEN /\ startRow' = [startRow EXCEPT ![nruns] = status]
              /\ UNCHANGED endRows
         ELSE /\ endRows' = [endRows EXCEPT ![nruns] = @ \cup {status}]
              /\ UNCHANGED startRow
    /\ UNCHANGED typeOf

\* run_all_computations goes on to the next computation after success and
\* after an exception alike.
NextTurn == turn' = IF turn = NumTypes THEN 1 ELSE turn + 1

LogCompleted ==
    /\ phase = "return"
    /\ WriteOutcome("completed")
    /\ phase' = "logged"
    /\ UNCHANGED <<turn, nruns, hasId, returned, tables, unlogged, swept, earlier, answer, stops, faults>>

\* The "completed" write raises, before its commit or after it: the except
\* clause of the wrapper takes over.
LogCompletedFails ==
    /\ phase \in {"return", "logged"}
    /\ faults < MaxFaults
    /\ faults' = faults + 1
    /\ phase' = "failing"
    /\ UNCHANGED <<turn, nruns, hasId, log, returned, tables, unlogged, swept, earlier, answer, stops>>

RunReturns ==
    /\ phase = "logged"
    /\ NextTurn
    /\ phase' = "idle"
    /\ UNCHANGED <<nruns, hasId, log, returned, tables, unlogged, swept, earlier, answer, stops, faults>>

\* Mutations of LogFailed: the outcome is not written; the failed computation
\* is tried again at once.
LogFailedSilently ==
    /\ phase = "failing"
    /\ NextTurn
    /\ phase' = "idle"
    /\ UNCHANGED <<nruns, hasId, log, returned, tables, unlogged, swept, earlier, answer, stops, faults>>

LogFailedAndRetry ==
    /\ phase = "failing"
    /\ WriteOutcome("failed")
    /\ phase' = "idle"
    /\ UNCHANGED <<turn, nruns, hasId, returned, tables, unlogged, swept, earlier, answer, stops, faults>>

\* except Exception: log "failed" and re-raise into run_all_computations.
LogFailed ==
    /\ phase = "failing"
    /\ WriteOutcome("failed")
    /\ NextTurn
    /\ phase' = "idle"
    /\ UNCHANGED <<nruns, hasId, returned, tables, unlogged, swept, earlier, answer, stops, faults>>

LogFailedFails ==
    /\ phase = "failing"
    /\ faults < MaxFaults
    /\ faults' = faults + 1
    /\ unlogged' = unlogged \cup {nruns}
    /\ NextTurn
    /\ phase' = "idle"
    /\ UNCHANGED <<nruns, hasId, log, returned, tables, swept, earlier, answer, stops>>

-----------------------------------------------------------------------------
(* Stopping: SIGTERM cancels the scheduler task; SIGKILL runs no code.       *)

\* Only a cancellation inside the wrapper's try reaches its except clause:
\* not one in _start_computation, nor one in the handler of an exception.
\* The server lets open requests finish before it runs the lifespan's shutdown.
Cancel ==
    /\ phase \in TaskAlive \ {"cancelling"}
    /\ answer.step # "newest"
    /\ stops < MaxStops
    /\ stops' = stops + 1
    /\ phase' = IF phase \in {"operate", "return", "logged"} THEN "cancelling" ELSE "stopping"
    /\ UNCHANGED <<turn, nruns, hasId, log, returned, tables, unlogged, swept, earlier, answer, faults>>

\* except CancelledError: the shielded write of "interrupted".
LogInterrupted ==
    /\ phase = "cancelling"
    /\ WriteOutcome("interrupted")
    /\ phase' = "stopping"
    /\ UNCHANGED <<turn, nruns, hasId, returned, tables, unlogged, swept, earlier, answer, stops, faults>>

LogInterruptedFails ==
    /\ phase = "cancelling"
    /\ faults < MaxFaults
    /\ faults' = faults + 1
    /\ unlogged' = unlogged \cup {nruns}
    /\ phase' = "stopping"
    /\ UNCHANGED <<turn, nruns, hasId, log, returned, tables, swept, earlier, answer, stops>>

\* _shutdown_runtime: the task has ended; clients and the pool are closed.
Shutdown ==
    /\ phase = "stopping"
    /\ phase' = "down"
    /\ UNCHANGED <<turn, nruns, hasId, log, returned, tables, unlogged, swept, earlier, answer, stops, faults>>

\* SIGKILL, an OOM kill, a power loss.  An uncommitted statement is undone.
Kill ==
    /\ phase # "down"
    /\ stops < MaxStops
    /\ stops' = stops + 1
    /\ phase' = "down"
    /\ answer' = NoAnswer
    /\ UNCHANGED <<turn, nruns, hasId, log, returned, tables, unlogged, swept, earlier, faults>>

-----------------------------------------------------------------------------
(* GET /api/insights/status, one computation: two autocommit SELECTs.        *)

Serving == phase \in TaskAlive \ {"cancelling"}

RowsOf(r) == endRows[r] \cup ({startRow[r]} \ {"none"})
LoggedRuns(t) == {r \in Runs : typeOf[r] = t /\ RowsOf(r) # {}}

\* Mutation of CompletedRuns: the second SELECT does not filter by type.
CompletedRunsOfAnyType(t) == {r \in Runs : "completed" \in RowsOf(r)}

CompletedRuns(t) == {r \in Runs : typeOf[r] = t /\ "completed" \in RowsOf(r)}

\* ORDER BY started_at DESC LIMIT 1
IsLatest(r, S) == r \in S /\ \A s \in S : s <= r

Answered(t, status, last) == [step |-> "answered", type |-> t, status |-> status, last |-> last]

\* The newest row by started_at; two rows of one run tie, and either may come
\* first.  A "running" row is reported "stale" once it is old enough, which
\* the age of a live run does not rule out.
ReadNewest(t) ==
    /\ Serving
    /\ answer.step # "newest"
    /\ \/ /\ LoggedRuns(t) = {}
          /\ answer' = Answered(t, "never_run", 0)
       \/ \E r \in Runs :
          /\ IsLatest(r, LoggedRuns(t))
          /\ \/ /\ "completed" \in RowsOf(r)
                /\ answer' = Answered(t, "completed", r)
             \/ \E status \in RowsOf(r) \ {"completed"} :
                \E reported \in {status} \cup (IF status = "running" THEN {"stale"} ELSE {}) :
                    answer' = [step |-> "newest", type |-> t, status |-> reported, last |-> 0]
    /\ UNCHANGED <<phase, turn, nruns, hasId, log, returned, tables, unlogged, swept, earlier, stops, faults>>

\* For every status but "completed": when did the last run finish?
ReadCompleted ==
    /\ Serving
    /\ answer.step = "newest"
    /\ \/ /\ CompletedRuns(answer.type) = {}
          /\ answer' = Answered(answer.type, answer.status, 0)
       \/ \E r \in Runs :
          /\ IsLatest(r, CompletedRuns(answer.type))
          /\ answer' = Answered(answer.type, answer.status, r)
    /\ UNCHANGED <<phase, turn, nruns, hasId, log, returned, tables, unlogged, swept, earlier, stops, faults>>

-----------------------------------------------------------------------------
Startup == Boot \/ Sweep \/ SweepFails
Wrapper ==
    \/ BeginRun \/ InsertStart \/ StartReturns \/ StartFails
    \/ OperationReturns \/ OperationFails
    \/ LogCompleted \/ LogCompletedFails \/ RunReturns
    \/ LogFailed \/ LogFailedFails
    \/ LogInterrupted \/ LogInterruptedFails \/ Shutdown
Stopping == Cancel \/ Kill
Status == ReadCompleted \/ \E t \in Types : ReadNewest(t)

Next == Startup \/ Wrapper \/ Stopping \/ Status

Spec == Init /\ [][Next]_vars

\* The process is restarted after it stops, and the event loop runs the
\* startup code and the scheduler task as long as the process lives.  Nobody
\* is obliged to stop the engine or to ask for its status.
FairSpec == Spec /\ WF_vars(Startup) /\ WF_vars(Wrapper)

-----------------------------------------------------------------------------
(* Properties                                                                *)

(***************************************************************************)
(* Once the startup sweep has succeeded, a "running" row means what the    *)
(* status endpoint says it means: it belongs to the run in progress.  The  *)
(* only exceptions are runs of this process whose own log statement        *)
(* failed.  (The scheduler starting before the sweep, a wrapper that skips *)
(* the outcome of a failed run, or a sweep that misses rows breaks it.)    *)
(***************************************************************************)
OnlyTheLiveRunIsRunning ==
    phase \in TaskAlive /\ swept =>
        \A r \in Runs : startRow[r] = "running" =>
            \/ r = nruns /\ phase \in InRun
            \/ r \in unlogged /\ r > earlier

(***************************************************************************)
(* A row that reports an outcome is never reopened, and only its own run   *)
(* may still change it: from "completed" to "failed" or "interrupted",     *)
(* when the run is cut short between the commit of its "completed" row and *)
(* its return.  In particular the sweep and later runs leave it alone.     *)
(***************************************************************************)
OutcomeIsFinal ==
    [][\A r \in Runs : startRow[r] \in Finished /\ startRow'[r] # startRow[r] =>
          /\ r = nruns /\ phase \in {"failing", "cancelling"}
          /\ startRow[r] = "completed" /\ startRow'[r] \in {"failed", "interrupted"}]_vars

(***************************************************************************)
(* The last_computed a client is told is the completion of a run of that   *)
(* computation whose operation really returned, whatever happens to the    *)
(* log between the endpoint's two reads; "completed" never comes without   *)
(* one.                                                                    *)
(***************************************************************************)
LastComputedIsReal ==
    answer.step = "answered" =>
        /\ answer.last # 0 => answer.last \in returned /\ typeOf[answer.last] = answer.type
        /\ answer.status = "completed" => answer.last # 0

(***************************************************************************)
(* The tables never hold rows of a run the log knows nothing good of       *)
(* unless that run was cut short: when the engine is between runs, the run *)
(* whose rows are served is the last completed one or was logged as        *)
(* failed or interrupted, or its log write failed, or the process that ran *)
(* it is gone and its row waits for, or missed, a sweep.                   *)
(***************************************************************************)
ServedRunIsLogged ==
    phase = "idle" =>
        \A t \in Types : tables[t] # 0 =>
            \/ RowsOf(tables[t]) \cap Finished # {}
            \/ tables[t] \in unlogged
            \/ ~swept

(***************************************************************************)
(* A run left "running" by a process that is gone is closed by the next    *)
(* one, unless that one's sweep fails.                                     *)
(***************************************************************************)
LeftoverRunsAreClosed ==
    \A r \in Runs :
        (phase = "down" /\ startRow[r] = "running") ~>
            (startRow[r] # "running" \/ (phase \in TaskAlive /\ ~swept))

(***************************************************************************)
(* A computation that fails does not hold up the ones after it: a run of   *)
(* any computation, however it ends, passes the turn on, as long as the    *)
(* engine is not stopped.                                                  *)
(***************************************************************************)
EveryComputationGetsItsTurn ==
    \A t \in Types :
        (phase \in InRun /\ turn = t) ~> (turn # t \/ phase \in {"down", "stopping"})

(***************************************************************************)
(* docs/operations.md: "SIGTERM finishes it as interrupted within a        *)
(* second"; computations.py: "SIGTERM is closed by the wrapper itself".    *)
(* Stated for a process whose log statements all succeed.                  *)
(***************************************************************************)
SigtermClosesTheRun ==
    phase = "stopping" /\ faults = 0 => \A r \in Runs : startRow[r] # "running"
=============================================================================
