--------------------------- MODULE ActivitySummary ---------------------------
(***************************************************************************)
(* The computation activity_summary: two consent-aware reads over a window *)
(* of whole days, then one transaction that replaces the summary rows of   *)
(* that window, while days pass and consent comes and goes                 *)
(* (insights/computations.py, compute_and_store_activity_summary).         *)
(*                                                                         *)
(* A summary row counts records of one day; here it is the records it      *)
(* counts, and how often.                                                  *)
(***************************************************************************)
EXTENDS ActivityRead

CONSTANTS
    WindowDays,  \* days
    MaxRows      \* bound: recorded rows

Events == "events"
Impressions == "impressions"

ASSUME SummaryAssumption ==
    /\ Tables = {Events, Impressions}
    /\ WindowDays \in Nat \ {0} /\ MaxRows \in Nat

VARIABLES
    today,
    run,        \* the computation: "idle", "events", "impressions" or "store"
    buckets,    \* ... what it has counted of each table
    summary,    \* insights.activity_summary as committed
    runBefore, runKept, runHeld,  \* history: before, kept and held of the whole run
    storedSince, storedHeld,      \* history: window and held of the run stored last
    firstDay, lastDay, unbroken,  \* history: days of the stored runs; none a window apart
    loyal                         \* history: who has consented all along

runVars == <<run, buckets, runBefore, runKept, runHeld>>
storedVars == <<summary, storedSince, storedHeld, firstDay, lastDay, unbroken>>
vars == <<readVars, today, runVars, storedVars, loyal>>

Counts == [Tables -> [Places -> Nat]]
NoCounts == [t \in Tables |-> [p \in Places |-> 0]]

TypeOK ==
    /\ ReadTypeOK
    /\ today \in 1 .. NumDays
    /\ run \in {"idle", "events", "impressions", "store"}
    /\ buckets \in Counts /\ summary \in Counts
    /\ runBefore \subseteq Tables \X Places
    /\ runKept \subseteq Subjects /\ runHeld \subseteq Subjects
    /\ storedSince \in Int /\ storedHeld \subseteq Subjects
    /\ firstDay \in Int /\ lastDay \in Int /\ unbroken \in BOOLEAN
    /\ loyal \subseteq Subjects

Init ==
    /\ ReadInit
    /\ today = 1
    /\ run = "idle"
    /\ buckets = NoCounts /\ summary = NoCounts
    /\ runBefore = {} /\ runKept = {} /\ runHeld = {}
    /\ storedSince = 1 /\ storedHeld = {}
    /\ firstDay = 0 /\ lastDay = 0 /\ unbroken = TRUE
    /\ loyal = Consenting

-----------------------------------------------------------------------------
(* The surroundings                                                          *)

Tomorrow ==
    /\ today < NumDays
    /\ today' = today + 1
    /\ UNCHANGED <<readVars, runVars, storedVars, loyal>>

RecordActivity(t, p, s) ==
    /\ Cardinality({c \in Tables \X Places : Recorded(c[1], c[2])}) < MaxRows
    /\ Record(t, p, s, today)
    /\ UNCHANGED <<today, runVars, storedVars, loyal>>

GrantPurpose(q, s) ==
    /\ Grant(q, s)
    /\ runHeld' = IF run = "idle" THEN runHeld ELSE runHeld \cup Consenting'
    /\ UNCHANGED <<today, run, buckets, runBefore, runKept, storedVars, loyal>>

RevokePurpose(q, s) ==
    /\ Revoke(q, s)
    /\ runKept' = IF run = "idle" THEN runKept ELSE runKept \cap Consenting'
    /\ loyal' = loyal \cap Consenting'
    /\ UNCHANGED <<today, run, buckets, runBefore, runHeld, storedVars>>

-----------------------------------------------------------------------------
(* The computation                                                           *)

\* Mutation of WindowSince: today is not counted as one of the days.
WindowSinceTomorrow == today + 2 - WindowDays

\* activity_summary_window: the last WindowDays days, today included.
WindowSince == today + 1 - WindowDays
WindowUntil == today + 1

BeginRun ==
    /\ run = "idle"
    /\ run' = "events"
    /\ StartRead(Events, WindowSince, WindowUntil, Subjects)
    /\ buckets' = NoCounts
    /\ runBefore' = {c \in Tables \X Places : Recorded(c[1], c[2])}
    /\ runKept' = Consenting /\ runHeld' = Consenting
    /\ UNCHANGED <<today, storedVars, loyal>>

ReadStep ==
    /\ FetchPage \/ \E q \in Purposes : AskPurpose(q)
    /\ UNCHANGED <<today, runVars, storedVars, loyal>>

\* Mutation of EventsRead: the second read reuses the eligible subjects.
EventsReadCached ==
    /\ run = "events" /\ step = "ended"
    /\ run' = "impressions"
    /\ buckets' = [buckets EXCEPT ![Events] = yielded]
    /\ step' = "paging" /\ table' = Impressions
    /\ cursor' = 0 /\ yielded' = [p \in Places |-> 0]
    /\ before' = {p \in Places : Recorded(Impressions, p)}
    /\ kept' = Consenting /\ held' = Consenting
    /\ UNCHANGED <<granted, rows, since, until, only, unasked, eligible>>
    /\ UNCHANGED <<today, runBefore, runKept, runHeld, storedVars, loyal>>

\* Both reads share the window; each asks for consent itself.
EventsRead ==
    /\ run = "events" /\ step = "ended"
    /\ run' = "impressions"
    /\ buckets' = [buckets EXCEPT ![Events] = yielded]
    /\ StartRead(Impressions, since, until, Subjects)
    /\ UNCHANGED <<today, runBefore, runKept, runHeld, storedVars, loyal>>

\* Mutation of ImpressionsRead: the buckets are started anew for the second read.
ImpressionsReadAnew ==
    /\ run = "impressions" /\ step = "ended"
    /\ run' = "store"
    /\ buckets' = [NoCounts EXCEPT ![Impressions] = yielded]
    /\ Abandon
    /\ UNCHANGED <<today, runBefore, runKept, runHeld, storedVars, loyal>>

ImpressionsRead ==
    /\ run = "impressions" /\ step = "ended"
    /\ run' = "store"
    /\ buckets' = [buckets EXCEPT ![Impressions] = yielded]
    /\ Abandon
    /\ UNCHANGED <<today, runBefore, runKept, runHeld, storedVars, loyal>>

InWindow(p) == since <= DayOf(p) /\ DayOf(p) < until

EndRun ==
    /\ run' = "idle"
    /\ buckets' = NoCounts
    /\ runBefore' = {} /\ runKept' = {} /\ runHeld' = {}

\* Mutation of StoreSummary: an empty result keeps the previous rows, as in
\* the computations fed by the catalog.
StoreSummaryUnlessEmpty ==
    /\ run = "store"
    /\ summary' = [t \in Tables |-> [p \in Places |->
                      IF InWindow(p) /\ buckets # NoCounts THEN buckets[t][p] ELSE summary[t][p]]]
    /\ EndRun
    /\ storedSince' = since /\ storedHeld' = runHeld
    /\ UNCHANGED <<firstDay, lastDay, unbroken>>
    /\ UNCHANGED <<readVars, today, loyal>>

\* _store_activity_summary: the window is rewritten, empty or not.
StoreSummary ==
    /\ run = "store"
    /\ summary' = [t \in Tables |-> [p \in Places |->
                      IF InWindow(p) THEN buckets[t][p] ELSE summary[t][p]]]
    /\ EndRun
    /\ storedSince' = since /\ storedHeld' = runHeld
    /\ firstDay' = IF firstDay = 0 THEN until - 1 ELSE firstDay
    /\ lastDay' = until - 1
    /\ unbroken' = (unbroken /\ (lastDay = 0 \/ until - 1 - lastDay < WindowDays))
    /\ UNCHANGED <<readVars, today, loyal>>

\* A statement fails or the engine stops, at any await: nothing is stored.
RunFails ==
    /\ run # "idle"
    /\ Abandon
    /\ EndRun
    /\ UNCHANGED <<today, storedVars, loyal>>

-----------------------------------------------------------------------------
Run == BeginRun \/ ReadStep \/ EventsRead \/ ImpressionsRead \/ StoreSummary \/ RunFails

Next ==
    \/ Tomorrow
    \/ \E t \in Tables, p \in Places, s \in Subjects : RecordActivity(t, p, s)
    \/ \E q \in Purposes, s \in Subjects : GrantPurpose(q, s) \/ RevokePurpose(q, s)
    \/ Run

Spec == Init /\ [][Next]_vars

-----------------------------------------------------------------------------
(* Properties                                                                *)

(***************************************************************************)
(* In the window of the last stored run no row counts a record of a        *)
(* subject who held the purposes at no moment of that run: a revocation    *)
(* takes effect with the next run, also when it leaves nothing to count    *)
(* (_store_activity_summary).                                              *)
(***************************************************************************)
RevokedAreNotCounted ==
    \A t \in Tables, p \in Places :
        summary[t][p] > 0 /\ DayOf(p) >= storedSince => rows[t][p].subject \in storedHeld

(***************************************************************************)
(* A stored run counts each record of its window that was there when it    *)
(* began, written with consent, of a subject who kept consenting, once.    *)
(***************************************************************************)
StoredCountsAreComplete ==
    [][StoreSummary =>
          \A c \in runBefore :
              LET row == rows[c[1]][c[2]] IN
              InWindow(c[2]) /\ Purposes \subseteq row.snapshot /\ row.subject \in runKept
                  => summary'[c[1]][c[2]] = 1]_vars

(***************************************************************************)
(* Runs that do not lie a window apart leave no gap: every day between the *)
(* first and the last of them counts each record made on that day, though  *)
(* it was still incomplete when its own run counted it, of a subject who   *)
(* has consented all along                                                 *)
(* (ACTIVITY_SUMMARY_DEFAULT_DAYS: "enough overlap that one skipped cycle  *)
(* leaves no gap").                                                        *)
(***************************************************************************)
NoGapBetweenRuns ==
    unbroken =>
        \A t \in Tables, p \in Places :
            /\ Recorded(t, p) /\ ~rows[t][p].late /\ rows[t][p].subject \in loyal
            /\ firstDay <= DayOf(p) /\ DayOf(p) < lastDay /\ firstDay > 0
            => summary[t][p] > 0
=============================================================================
