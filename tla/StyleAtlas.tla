----------------------------- MODULE StyleAtlas -----------------------------
(***************************************************************************)
(* The Genre Atlas and the style tables it is shown with: the computation  *)
(* style_year_counts, which replaces three tables in one transaction; the  *)
(* computation style_atlas, which lays a month out once, whatever runs     *)
(* concurrently; and the read of both, one autocommit SELECT after another *)
(* (insights/computations.py, insights/style_atlas_read.py).               *)
(*                                                                         *)
(* Rows are represented by what they were computed from: a table by the    *)
(* version of the catalog its producer read, a layout by the run and the   *)
(* version that made it and the month whose frames it took over.           *)
(***************************************************************************)
EXTENDS Integers

CONSTANTS
    Runs,        \* engines that may run the computation style_atlas at once
    MaxMonth,    \* bound: months that pass
    MaxVersion,  \* bound: versions of the catalog
    Parented,    \* those in which some style has a genre at STYLE_PARENT_MIN_SHARE
    MaxFailures  \* bound: runs that fail or whose process dies

ASSUME AtlasAssumption ==
    /\ MaxMonth \in Nat \ {0} /\ MaxVersion \in Nat \ {0} /\ MaxFailures \in Nat
    /\ Parented \subseteq 1 .. MaxVersion

VARIABLES
    month,     \* the current month
    catalog,   \* the version a producer read returns
    counts,    \* style_year_counts: the producer's answer while it is stored
    years, genres, parents, \* versions of the three tables, 0 while empty
    sectors, nodes,         \* per month, the layouts whose rows the tables hold
    lock,      \* who holds the advisory lock, if anyone
    step,      \* per run of style_atlas: the await it is at
    mine, pin, input,       \* ... its month, the pinned month and the version it read
    reader,    \* the read: the statement it is at
    answer,    \* ... and what it has collected
    failures

tableVars == <<years, genres, parents>>
layoutVars == <<sectors, nodes, lock>>
runVars == <<step, mine, pin, input>>
readVars == <<reader, answer>>
vars == <<month, catalog, counts, tableVars, layoutVars, runVars, readVars, failures>>

Months == 1 .. MaxMonth
Versions == 0 .. MaxVersion
Layouts == [run : Runs, version : Versions, pinned : 0 .. MaxMonth]

NoRun == "none"
ASSUME NoRunAssumption == NoRun \notin Runs

NoAnswer == [month |-> 0, sectors |-> {}, nodes |-> {}, years |-> 0, genres |-> 0, parents |-> 0]
NoCounts == [years |-> 0, genres |-> 0, parents |-> 0]

CountsType == [years : Versions, genres : Versions, parents : Versions]
AnswerType == [month : 0 .. MaxMonth, sectors : SUBSET Layouts, nodes : SUBSET Layouts,
               years : Versions, genres : Versions, parents : Versions]

TypeOK ==
    /\ month \in Months
    /\ catalog \in Versions
    /\ counts \in CountsType
    /\ years \in Versions /\ genres \in Versions /\ parents \in Versions
    /\ sectors \in [Months -> SUBSET Layouts]
    /\ nodes \in [Months -> SUBSET Layouts]
    /\ lock \in Runs \cup {NoRun}
    /\ step \in [Runs -> {"idle", "pin", "fetch", "lock", "recheck", "insert"}]
    /\ mine \in [Runs -> Months]
    /\ pin \in [Runs -> 0 .. MaxMonth]
    /\ input \in [Runs -> Versions]
    /\ reader \in {"idle", "sectors", "nodes", "years", "genres", "parents", "answered"}
    /\ answer \in AnswerType
    /\ reader \in {"sectors", "nodes"} => answer.month # 0
    /\ failures \in 0 .. MaxFailures

Init ==
    /\ month = 1
    /\ catalog = 1
    /\ counts = NoCounts
    /\ years = 0 /\ genres = 0 /\ parents = 0
    /\ sectors = [m \in Months |-> {}]
    /\ nodes = [m \in Months |-> {}]
    /\ lock = NoRun
    /\ step = [w \in Runs |-> "idle"]
    /\ mine = [w \in Runs |-> 1]
    /\ pin = [w \in Runs |-> 0]
    /\ input = [w \in Runs |-> 0]
    /\ reader = "idle"
    /\ answer = NoAnswer
    /\ failures = 0

-----------------------------------------------------------------------------
(* The world: time passes and the catalog changes.                           *)

NextMonth ==
    /\ month < MaxMonth
    /\ month' = month + 1
    /\ UNCHANGED <<catalog, counts, tableVars, layoutVars, runVars, readVars, failures>>

CatalogChanges ==
    /\ catalog < MaxVersion
    /\ catalog' = catalog + 1
    /\ UNCHANGED <<month, counts, tableVars, layoutVars, runVars, readVars, failures>>

-----------------------------------------------------------------------------
(* compute_and_store_style_year_counts                                       *)

\* The producer's answer, of which any part may be missing (0).
FetchCounts ==
    /\ counts = NoCounts
    /\ counts' \in [years : {0, catalog}, genres : {0, catalog}, parents : {0, catalog}]
    /\ UNCHANGED <<month, catalog, tableVars, layoutVars, runVars, readVars, failures>>

Complete(c) == c.years # 0 /\ c.parents # 0 /\ c.genres # 0

\* The shares at or above the parent threshold: of some answers none.
ParentRows(v) == IF v \in Parented THEN v ELSE 0

\* Mutation of StoreCounts: the DELETE moved under `if parent_rows`.
StoreKeepingParents ==
    /\ Complete(counts)
    /\ years' = counts.years /\ genres' = counts.genres
    /\ parents' = IF counts.parents \in Parented THEN counts.parents ELSE parents
    /\ counts' = NoCounts
    /\ UNCHANGED <<month, catalog, layoutVars, runVars, readVars, failures>>

\* One transaction deletes the three tables and fills them again, the parents
\* with the rows that are kept, if any.
StoreCounts ==
    /\ Complete(counts)
    /\ years' = counts.years /\ genres' = counts.genres /\ parents' = ParentRows(counts.parents)
    /\ counts' = NoCounts
    /\ UNCHANGED <<month, catalog, layoutVars, runVars, readVars, failures>>

\* A missing part, an exception that rolls back, or a process that dies.
KeepCounts ==
    /\ counts # NoCounts
    /\ counts' = NoCounts
    /\ UNCHANGED <<month, catalog, tableVars, layoutVars, runVars, readVars, failures>>

-----------------------------------------------------------------------------
(* compute_and_store_style_atlas                                             *)

Laid(m) == sectors[m] # {}

\* The run takes its month; a month already laid out is a no-op.
BeginAtlas(w) ==
    /\ step[w] = "idle"
    /\ ~Laid(month)
    /\ mine' = [mine EXCEPT ![w] = month]
    /\ step' = [step EXCEPT ![w] = "pin"]
    /\ UNCHANGED <<month, catalog, counts, tableVars, layoutVars, pin, input, readVars, failures>>

Earlier(m) == {n \in Months : n < m /\ Laid(n)}

\* max(month) over the sectors of earlier months, 0 for none.
IsLatestEarlier(n, m) == n \in Earlier(m) \cup {0} /\ \A o \in Earlier(m) : o <= n

ReadPinned(w) ==
    /\ step[w] = "pin"
    /\ \E n \in 0 .. MaxMonth : IsLatestEarlier(n, mine[w]) /\ pin' = [pin EXCEPT ![w] = n]
    /\ step' = [step EXCEPT ![w] = "fetch"]
    /\ UNCHANGED <<month, catalog, counts, tableVars, layoutVars, mine, input, readVars, failures>>

\* The producer's answer with both halves; the layout is computed from it.
FetchShares(w) ==
    /\ step[w] = "fetch"
    /\ input' = [input EXCEPT ![w] = catalog]
    /\ step' = [step EXCEPT ![w] = "lock"]
    /\ UNCHANGED <<month, catalog, counts, tableVars, layoutVars, mine, pin, readVars, failures>>

\* pg_advisory_xact_lock waits for the transaction that holds the lock.
TakeLock(w) ==
    /\ step[w] = "lock"
    /\ lock = NoRun
    /\ lock' = w
    /\ step' = [step EXCEPT ![w] = "recheck"]
    /\ UNCHANGED <<month, catalog, counts, tableVars, sectors, nodes, mine, pin, input, readVars, failures>>

\* Mutation of Recheck: the lock alone is trusted.
RecheckSkipped(w) ==
    /\ step[w] = "recheck"
    /\ step' = [step EXCEPT ![w] = "insert"]
    /\ UNCHANGED <<month, catalog, counts, tableVars, layoutVars, mine, pin, input, readVars, failures>>

\* A statement of its own after the wait, so (READ COMMITTED) it sees what the
\* previous holder committed.
Recheck(w) ==
    /\ step[w] = "recheck"
    /\ ~Laid(mine[w])
    /\ step' = [step EXCEPT ![w] = "insert"]
    /\ UNCHANGED <<month, catalog, counts, tableVars, layoutVars, mine, pin, input, readVars, failures>>

LeaveToOther(w) ==
    /\ step[w] = "recheck"
    /\ Laid(mine[w])
    /\ lock' = NoRun
    /\ step' = [step EXCEPT ![w] = "idle"]
    /\ UNCHANGED <<month, catalog, counts, tableVars, sectors, nodes, mine, pin, input, readVars, failures>>

LayoutOf(w) == [run |-> w, version |-> input[w], pinned |-> pin[w]]

\* What a layout draws: only styles with a parent have nodes.
Drawn(layouts) == {l \in layouts : l.version \in Parented}

\* Mutation of CommitLayout: the connection left in autocommit.
CommitInTwo(w) ==
    /\ step[w] = "insert"
    /\ sectors' = [sectors EXCEPT ![mine[w]] = @ \cup {LayoutOf(w)}]
    /\ \/ ~Laid(mine[w]) /\ UNCHANGED <<nodes, lock, step>>
       \/ /\ Laid(mine[w])
          /\ nodes' = [nodes EXCEPT ![mine[w]] = @ \cup Drawn({LayoutOf(w)})]
          /\ lock' = NoRun
          /\ step' = [step EXCEPT ![w] = "idle"]
    /\ UNCHANGED <<month, catalog, counts, tableVars, mine, pin, input, readVars, failures>>

\* Both inserts, that of the nodes if there are any, the commit, and with it
\* the release of the lock.
CommitLayout(w) ==
    /\ step[w] = "insert"
    /\ sectors' = [sectors EXCEPT ![mine[w]] = @ \cup {LayoutOf(w)}]
    /\ nodes' = [nodes EXCEPT ![mine[w]] = @ \cup Drawn({LayoutOf(w)})]
    /\ lock' = NoRun
    /\ step' = [step EXCEPT ![w] = "idle"]
    /\ UNCHANGED <<month, catalog, counts, tableVars, mine, pin, input, readVars, failures>>

\* A missing half, an exception, a cancellation, or the process dies: nothing
\* is written and the transaction's lock is gone.
AtlasFails(w) ==
    /\ step[w] # "idle"
    /\ failures < MaxFailures
    /\ failures' = failures + 1
    /\ step' = [step EXCEPT ![w] = "idle"]
    /\ lock' = IF lock = w THEN NoRun ELSE lock
    /\ UNCHANGED <<month, catalog, counts, tableVars, sectors, nodes, mine, pin, input, readVars>>

-----------------------------------------------------------------------------
(* read_style_atlas                                                          *)

ReadMonth ==
    /\ reader \in {"idle", "answered"}
    /\ \E m \in 0 .. MaxMonth :
          /\ IsLatestEarlier(m, MaxMonth + 1)
          /\ answer' = [NoAnswer EXCEPT !.month = m]
          /\ reader' = IF m = 0 THEN "answered" ELSE "sectors"
    /\ UNCHANGED <<month, catalog, counts, tableVars, layoutVars, runVars, failures>>

ReadStatement(at, next, collected) ==
    /\ reader = at
    /\ reader' = next
    /\ answer' = collected
    /\ UNCHANGED <<month, catalog, counts, tableVars, layoutVars, runVars, failures>>

ReadSectors == ReadStatement("sectors", "nodes", [answer EXCEPT !.sectors = sectors[answer.month]])
ReadNodes == ReadStatement("nodes", "years", [answer EXCEPT !.nodes = nodes[answer.month]])
ReadYears == ReadStatement("years", "genres", [answer EXCEPT !.years = years])
ReadGenreYears == ReadStatement("genres", "parents", [answer EXCEPT !.genres = genres])
\* Of the parents only those of styles drawn in the month.
ReadParents == ReadStatement("parents", "answered",
    [answer EXCEPT !.parents = IF nodes[answer.month] = {} THEN 0 ELSE parents])

-----------------------------------------------------------------------------
World == NextMonth \/ CatalogChanges
Counts == FetchCounts \/ StoreCounts \/ KeepCounts
Atlas(w) ==
    \/ BeginAtlas(w) \/ ReadPinned(w) \/ FetchShares(w) \/ TakeLock(w)
    \/ Recheck(w) \/ LeaveToOther(w) \/ CommitLayout(w) \/ AtlasFails(w)
Read == ReadMonth \/ ReadSectors \/ ReadNodes \/ ReadYears \/ ReadGenreYears \/ ReadParents

Next == World \/ Counts \/ Read \/ \E w \in Runs : Atlas(w)

Spec == Init /\ [][Next]_vars

-----------------------------------------------------------------------------
(* Properties                                                                *)

(***************************************************************************)
(* Once a month is laid out its layout never changes, whichever runs had   *)
(* begun by then: "a daily run never moves it", and the loser of two       *)
(* concurrent runs writes nothing.                                         *)
(***************************************************************************)
LayoutIsFinal ==
    [][\A m \in Months : Laid(m) => sectors'[m] = sectors[m] /\ nodes'[m] = nodes[m]]_vars

(***************************************************************************)
(* An atlas answer shows the sectors of one layout and exactly the nodes   *)
(* drawn in it, although it reads them in two statements, months are laid  *)
(* out meanwhile and runs lose, fail and die on the way: "both tables are  *)
(* written in one transaction".                                            *)
(***************************************************************************)
AnswerIsOneLayout ==
    reader = "answered" /\ answer.month # 0 =>
        \E l \in Layouts : answer.sectors = {l} /\ answer.nodes = Drawn({l})

(***************************************************************************)
(* The three style tables always come from one whole producer answer: the  *)
(* two counts hold it, and the parents hold what is kept of it, which is   *)
(* nothing when no share of that answer reaches the threshold.             *)
(***************************************************************************)
StoredTogether == genres = years /\ parents = ParentRows(years)

(***************************************************************************)
(* An atlas answer shows the counts, the genre years and the parents of    *)
(* one producer answer: "replaced together in a single transaction so a    *)
(* reader never sees counts from one snapshot beside parents or genre      *)
(* years from another" (compute_and_store_style_year_counts).  The read    *)
(* takes them in three autocommit statements, and does.                    *)
(***************************************************************************)
AnswerIsOneSnapshot ==
    reader = "answered" /\ answer.years # 0 =>
        answer.genres = answer.years /\ answer.parents \in {0, answer.years}
=============================================================================
