------------------------------ MODULE RecallChurn ------------------------------
(***************************************************************************)
(* scripts/measure_recall_churn.py: the recall of the index over each of   *)
(* two consecutive months, and the churn between them, measured in a       *)
(* throwaway PostgreSQL container.                                         *)
(*                                                                         *)
(* A run takes hours and is resumable: a month whose rows are there is not *)
(* written again, August's results are kept in a checkpoint, a partial     *)
(* result is written before the index variant that may never finish, and a *)
(* complete one is not measured again.  The driver starts runs of several  *)
(* versions (the weights of a sweep) with one --out, an operator may give  *)
(* the next one a fresh container.                                         *)
(*                                                                         *)
(* A month's file is a sequence of parts: the trial batch, the rest of the *)
(* first chunk, and the chunks after it.  A measurement is abstracted to   *)
(* the rows and the index it was taken over.                               *)
(***************************************************************************)
EXTENDS Integers, FiniteSets

CONSTANTS
    Versions,    \* the model_versions, without their dump
    Parts,       \* the number of parts of a month's file
    None, Torn,  \* no file, and one whose writing was cut short
    MaxDeaths    \* bound: runs that are killed

Months == {"august", "september"}
Whole == 1 .. Parts
Indexes == {"none", "standard", "larger"}

\* A measurement of a month, and what it was taken over.
Measurement ==
    [of : {"standard", "larger", "churn", "exact"}, month : Months, version : Versions,
     rows : SUBSET Whole, index : Indexes, died : BOOLEAN, hasty : BOOLEAN]

\* The files; one that is missing or cut short is neither.
Checkpoint == [version : Versions, found : SUBSET Measurement]
Output == [partial : {"yes", "no", "absent"}, found : SUBSET Measurement]

ASSUME RecallAssumption ==
    /\ Parts \in Nat \ {0} /\ MaxDeaths \in Nat
    /\ None # Torn
    /\ \A missing \in {None, Torn} : missing \notin Checkpoint /\ missing \notin Output

VARIABLES
    args,        \* the switches every run is started with
    phase, month, \* where the run is
    version,     \* of the run's two files
    resumed,     \* the run continues from a checkpoint
    part,        \* the next part to write
    useCopy,     \* _write_month has fallen back to COPY
    found,       \* what the run has measured or loaded
    up,          \* the container runs
    rows, index, \* its table and index, per version and month
    checkpoint, out, \* the files
    deaths,
    died, hasty  \* history of the container: a run died in it; a month was written without COPY

runVars == <<phase, month, version, resumed, part, useCopy, found>>
tableVars == <<rows, index>>
historyVars == <<died, hasty>>
containerVars == <<up, tableVars, historyVars>>
fileVars == <<checkpoint, out>>
vars == <<args, runVars, containerVars, fileVars, deaths>>

Phases ==
    {"off", "write", "build", "sweep", "churn", "drop", "build_larger", "sweep_larger",
     "drop_larger", "checkpoint", "save_checkpoint", "stop_container", "start_container",
     "drop_august", "truncate", "partial", "save_partial", "result", "save_result"}

Args == [trimmed : BOOLEAN, skipLarger : BOOLEAN, skipLargerAug : BOOLEAN, sameMemory : BOOLEAN]

-----------------------------------------------------------------------------
Fresh(value) == [v \in Versions |-> [m \in Months |-> value]]

Stop ==
    /\ phase' = "off" /\ month' = "august" /\ resumed' = FALSE
    /\ part' = 1 /\ useCopy' = FALSE /\ found' = {}

\* Two switches mean nothing to a trimmed run.
Init ==
    /\ args \in {a \in Args : a.trimmed => a.sameMemory /\ a.skipLargerAug}
    /\ phase = "off" /\ month = "august" /\ version \in Versions /\ resumed = FALSE
    /\ part = 1 /\ useCopy = FALSE /\ found = {}
    /\ up = TRUE /\ rows = Fresh({}) /\ index = Fresh("none")
    /\ checkpoint = None /\ out = None
    /\ deaths = 0 /\ died = FALSE /\ hasty = FALSE

Readable(file) == file # None /\ file # Torn

\* Mutation: any result that can be read is taken for a complete one.
IsWritten(file) == Readable(file) /\ file.partial # "absent"

\* is_result_complete: a file that cannot be read is not.
IsComplete(file) == Readable(file) /\ file.partial = "no"

\* Mutation: the checkpoint's version is not looked at.
ResumableByAny(v) == Readable(checkpoint)

\* _load_checkpoint: one of another version is ignored.
Resumable(v) == Readable(checkpoint) /\ checkpoint.version = v

StartMonth(m) ==
    /\ phase' = "write" /\ month' = m
    /\ part' = 1 /\ useCopy' = FALSE

\* main_async up to the first month's work.  A run ends at once without a
\* container, or when the checkpoint is there but cannot be read.
Run(v) ==
    /\ phase = "off" /\ up /\ ~IsComplete(out)
    /\ version' = v
    /\ \/ args.trimmed /\ StartMonth("september") /\ UNCHANGED <<resumed, found>>
       \/ /\ ~args.trimmed /\ Resumable(v)
          /\ resumed' = TRUE /\ found' = checkpoint.found
          /\ StartMonth("september")
       \/ /\ ~args.trimmed /\ checkpoint # Torn /\ ~Resumable(v)
          /\ StartMonth("august")
          /\ UNCHANGED <<resumed, found>>
    /\ UNCHANGED <<args, containerVars, fileVars, deaths>>

Goto(p) == phase' = p /\ UNCHANGED <<month, version, resumed, part, useCopy>>

-----------------------------------------------------------------------------
(* _write_month.                                                           *)

Loaded == rows[version][month] # {}

SkipWrite ==
    /\ phase = "write" /\ part = 1 /\ Loaded
    /\ Goto("build")
    /\ UNCHANGED <<args, found, containerVars, fileVars, deaths>>

\* Mutation: off by one.
WrittenPast ==
    /\ part' = part + 1
    /\ phase' = IF part > Parts THEN "build" ELSE "write"
    /\ UNCHANGED <<args, month, version, resumed, found, up, index, died, fileVars, deaths>>

\* What follows a part: the next one, or the index.
Written ==
    /\ part' = part + 1
    /\ phase' = IF part = Parts THEN "build" ELSE "write"
    /\ UNCHANGED <<args, month, version, resumed, found, up, index, died, fileVars, deaths>>

\* The trial batch goes through _write_embeddings, which deletes the version's
\* rows first; its time decides how the rest is written.
WriteTrial ==
    /\ phase = "write" /\ part = 1 /\ ~Loaded
    /\ rows' = [rows EXCEPT ![version][month] = {1}]
    /\ useCopy' \in {slow \in BOOLEAN : slow => Parts > 1}
    /\ Written /\ UNCHANGED hasty

WriteRest ==
    /\ phase = "write" /\ part > 1
    /\ rows' = [rows EXCEPT ![version][month] = IF useCopy THEN @ \cup {part} ELSE {part}]
    /\ hasty' = (hasty \/ ~useCopy)
    /\ Written /\ UNCHANGED useCopy

-----------------------------------------------------------------------------
(* measure_index_variant and churn_top_k.                                  *)

Seen(of) ==
    [of |-> of, month |-> month, version |-> version, rows |-> rows[version][month],
     index |-> index[version][month], died |-> died, hasty |-> hasty]

\* CREATE INDEX IF NOT EXISTS: both variants have the same name.
BuildVariant(variant, from, to) ==
    /\ phase = from /\ Goto(to)
    /\ index' = [index EXCEPT ![version][month] = IF @ = "none" THEN variant ELSE @]
    /\ UNCHANGED <<args, found, up, rows, historyVars, fileVars, deaths>>

BuildIndex ==
    \/ BuildVariant("standard", "build", "sweep")
    \/ BuildVariant("larger", "build_larger", "sweep_larger")

SweepVariant(variant, from, to) ==
    /\ phase = from /\ Goto(to)
    /\ found' = found \cup {Seen(variant)}
    /\ UNCHANGED <<args, containerVars, fileVars, deaths>>

SweepRecall ==
    \/ SweepVariant("standard", "sweep", "churn")
    \/ SweepVariant("larger", "sweep_larger", "drop_larger")

\* Computed from the two files alone.
ExactChurn ==
    [Seen("exact") EXCEPT !.rows = Whole, !.index = "none"]

\* The churn sample's lists; a trimmed run takes exact ones of both months.
Churn ==
    /\ phase = "churn"
    /\ found' = found \cup {IF args.trimmed THEN ExactChurn ELSE Seen("churn")}
    /\ Goto(IF month = "august" THEN "drop" ELSE "partial")
    /\ UNCHANGED <<args, containerVars, fileVars, deaths>>

SkipsLarger(m) == args.skipLarger \/ (m = "august" /\ args.skipLargerAug)

AfterLarger == IF month = "august" THEN "checkpoint" ELSE "result"

\* Mutation: the standard index stays.
DropNothing ==
    /\ \/ phase = "drop" /\ Goto(IF SkipsLarger(month) THEN AfterLarger ELSE "build_larger")
       \/ phase = "drop_larger" /\ Goto(AfterLarger)
    /\ UNCHANGED <<args, found, containerVars, fileVars, deaths>>

\* _drop_index, before the larger variant is built and after it was measured.
DropIndex ==
    /\ \/ phase = "drop" /\ Goto(IF SkipsLarger(month) THEN AfterLarger ELSE "build_larger")
       \/ phase = "drop_larger" /\ Goto(AfterLarger)
    /\ index' = [index EXCEPT ![version][month] = "none"]
    /\ UNCHANGED <<args, found, up, rows, historyVars, fileVars, deaths>>

-----------------------------------------------------------------------------
(* From August to September.                                               *)

\* write_text truncates the file before it writes it.
OpenCheckpoint ==
    /\ phase = "checkpoint" /\ Goto("save_checkpoint")
    /\ checkpoint' = Torn
    /\ UNCHANGED <<args, found, containerVars, out, deaths>>

SaveCheckpoint ==
    /\ phase = "save_checkpoint"
    /\ Goto(IF args.sameMemory THEN "drop_august" ELSE "stop_container")
    /\ checkpoint' = [version |-> version, found |-> found]
    /\ UNCHANGED <<args, found, containerVars, out, deaths>>

EmptyContainer ==
    /\ rows' = Fresh({}) /\ index' = Fresh("none") /\ died' = FALSE /\ hasty' = FALSE

\* _restart_container: another memory setting takes a new container.
StopContainer ==
    /\ phase = "stop_container" /\ Goto("start_container")
    /\ up' = FALSE /\ EmptyContainer
    /\ UNCHANGED <<args, found, fileVars, deaths>>

StartContainer ==
    /\ phase = "start_container" /\ StartMonth("september")
    /\ up' = TRUE
    /\ UNCHANGED <<args, version, resumed, found, tableVars, historyVars, fileVars, deaths>>

DropAugust ==
    /\ phase = "drop_august" /\ Goto("truncate")
    /\ index' = [index EXCEPT ![version]["august"] = "none"]
    /\ UNCHANGED <<args, found, up, rows, historyVars, fileVars, deaths>>

Truncate ==
    /\ phase = "truncate" /\ StartMonth("september")
    /\ rows' = Fresh({})
    /\ UNCHANGED <<args, version, resumed, found, up, index, historyVars, fileVars, deaths>>

-----------------------------------------------------------------------------
(* The result.                                                             *)

Result(partial) == [partial |-> partial, found |-> found]

OpenOut(from, to) ==
    /\ phase = from /\ Goto(to)
    /\ out' = Torn
    /\ UNCHANGED <<args, found, containerVars, checkpoint, deaths>>

\* Mutation: the partial result is left to the end.
LeavePartial ==
    /\ phase = "partial" /\ Goto(IF SkipsLarger(month) THEN "result" ELSE "drop")
    /\ UNCHANGED <<args, found, containerVars, fileVars, deaths>>

OpenPartial == OpenOut("partial", "save_partial")

SavePartial ==
    /\ phase = "save_partial"
    /\ Goto(IF SkipsLarger(month) THEN "result" ELSE "drop")
    /\ out' = Result("yes")
    /\ UNCHANGED <<args, found, containerVars, checkpoint, deaths>>

OpenResult == OpenOut("result", "save_result")

\* A trimmed run says that its result is not partial, a full one says nothing.
SaveResult ==
    /\ phase = "save_result" /\ Stop
    /\ out' = Result(IF args.trimmed THEN "no" ELSE "absent")
    /\ UNCHANGED <<args, version, containerVars, checkpoint, deaths>>

-----------------------------------------------------------------------------
\* A killed run; its container is left as it is.
Die ==
    /\ phase # "off" /\ deaths < MaxDeaths
    /\ deaths' = deaths + 1 /\ died' = up
    /\ Stop
    /\ UNCHANGED <<args, version, up, tableVars, hasty, fileVars>>

\* The operator gives the next run a fresh container.
Provision ==
    /\ phase = "off"
    /\ up' = TRUE /\ EmptyContainer
    /\ UNCHANGED <<args, runVars, fileVars, deaths>>

Step ==
    \/ SkipWrite \/ WriteTrial \/ WriteRest \/ BuildIndex \/ SweepRecall \/ Churn \/ DropIndex
    \/ OpenCheckpoint \/ SaveCheckpoint \/ StopContainer \/ StartContainer
    \/ DropAugust \/ Truncate
    \/ OpenPartial \/ SavePartial \/ OpenResult \/ SaveResult

Next == (\E v \in Versions : Run(v)) \/ Step \/ Die \/ Provision

Spec == Init /\ [][Next]_vars

\* A run goes on by itself, the driver starts another one as long as the result
\* is not complete, and a container that is gone is replaced.
FairSpec ==
    Spec /\ WF_vars(Step) /\ WF_vars(\E v \in Versions : Run(v)) /\ WF_vars(~up /\ Provision)

-----------------------------------------------------------------------------
(* Properties.                                                             *)

(***************************************************************************)
(* Types.  A month's rows are those of its file.                           *)
(***************************************************************************)
TypeOK ==
    /\ args \in Args /\ phase \in Phases /\ month \in Months /\ version \in Versions
    /\ resumed \in BOOLEAN /\ useCopy \in BOOLEAN /\ part \in 1 .. Parts + 1
    /\ found \subseteq Measurement
    /\ rows \in [Versions -> [Months -> SUBSET Whole]]
    /\ index \in [Versions -> [Months -> Indexes]]
    /\ up \in BOOLEAN /\ died \in BOOLEAN /\ hasty \in BOOLEAN
    /\ checkpoint \in Checkpoint \cup {None, Torn} /\ out \in Output \cup {None, Torn}
    /\ deaths \in 0 .. MaxDeaths

\* Every measurement that is in memory or in a file.
Measured ==
    found \cup (IF Readable(checkpoint) THEN checkpoint.found ELSE {})
          \cup (IF Readable(out) THEN out.found ELSE {})

(***************************************************************************)
(* In a container in which no run has died, a measurement is taken over    *)
(* the index variant it is reported for, and over all rows of its month    *)
(* when the month was written by COPY: whatever earlier runs, of this or   *)
(* of another version, have left there, and although both variants share   *)
(* one name that CREATE INDEX IF NOT EXISTS does not build again.          *)
(***************************************************************************)
MeasurementsAreSound ==
    \A f \in {g \in Measured : ~g.died /\ g.of # "exact"} :
        /\ f.index = IF f.of = "larger" THEN "larger" ELSE "standard"
        /\ ~f.hasty => f.rows = Whole

\* The measurements the switches ask for.
Asked ==
    IF args.trimmed
    THEN {<<"september", "standard">>, <<"september", "exact">>}
         \cup (IF args.skipLarger THEN {} ELSE {<<"september", "larger">>})
    ELSE Months \X {"standard", "churn"}
         \cup {m \in Months : ~SkipsLarger(m)} \X {"larger"}

(***************************************************************************)
(* A result that is not partial has exactly the measurements that were     *)
(* asked for, and all of them are of one version, also when August's come  *)
(* from a checkpoint.                                                      *)
(***************************************************************************)
ResultIsWhole ==
    Readable(out) /\ out.partial # "yes" =>
        /\ {<<f.month, f.of>> : f \in out.found} = Asked
        /\ Cardinality(out.found) = Cardinality(Asked)
        /\ \E v \in Versions : \A f \in out.found : f.version = v

(***************************************************************************)
(* While September's larger variant is built and measured, everything      *)
(* measured before it is in the file: a cancel during that step never      *)
(* loses the numbers that already exist.                                   *)
(***************************************************************************)
LargerVariantRisksNothing ==
    month = "september" /\ phase \in {"drop", "build_larger", "sweep_larger", "drop_larger"} =>
        /\ Readable(out)
        /\ out.found = {f \in found : f.month = "september" => f.of # "larger"}

(***************************************************************************)
(* The measurement is finished, whatever run is killed and whatever was    *)
(* left behind, unless a run was killed while it wrote the checkpoint: no  *)
(* later run gets past a checkpoint it cannot read.                        *)
(***************************************************************************)
MeasurementFinishes ==
    <>(Readable(out) /\ out.partial # "yes") \/ <>[](checkpoint = Torn)

(***************************************************************************)
(* _write_month: "Write one month's rows ... every row after that, in that *)
(* chunk and every subsequent one, goes through whichever path".  A month  *)
(* that was written without a death has all its rows when it is indexed.   *)
(***************************************************************************)
MonthIsWrittenWhole ==
    phase = "build" /\ ~died => rows[version][month] = Whole
=============================================================================
