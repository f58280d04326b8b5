# A TLA+ verification project for the GrooveMap analytics engine

The analytics engine is one Python process that precomputes catalog analytics
once a day, stores them in the `insights` schema of PostgreSQL, and serves them
over HTTP through a Valkey cache. A second, one-shot program loads artist
embeddings and publishes exact similar-artist lists once per catalog dump. Two
offline tools of `scripts/` run for hours and can be killed and continued: one
builds the embedding graph from the dumps, one measures recall and churn.
The paths below are relative to the repository; the implementation is
`insights/`, offline tools are in `scripts/`.

## 1. Inventory

| Component | State it keeps | Operations | What is hard | What makes it correct |
| --- | --- | --- | --- | --- |
| Scheduler and computation lifecycle (`insights.py`, `computations.py`) | the scheduler task; `insights.computation_log`; the result tables | start-up sweep, one wrapper per run (start row, operation, outcome row), next computation, SIGTERM, SIGKILL, status endpoint | a stop or a database error between any two awaits; log writes in transactions of their own | a `running` row means a live run; outcomes are final; `last_computed` is real; every computation gets its turn |
| Read cache and read endpoints (`cache.py`, `insights.py`) | the generation counter and the versioned entries in Valkey; locals of open requests | `generation`, `get`, SELECT, `set`; `invalidate_all`; expiry | a request interleaves with a commit and the invalidation at every await; every Valkey call can fail | nothing older than the last finished cycle is ever cached under, or served in, a newer generation |
| Style tables, monthly atlas and their readers (`computations.py`, `style_atlas_read.py`) | three tables replaced together, a layout per month, landmark and co-tag tables | replace, lay out once per month, multi-statement read | partial producer answers, concurrent runs, torn reads | one layout per month, shown whole; the three style tables come from one producer answer |
| Release-rarity walk (`computations.py`) | the open replacing transaction, the cursor of the walk | count pass, page pass, retries, short-walk check | the catalog changes during a walk of an hour; pages are retried | the old table until the commit; every release that was there throughout is stored, once |
| Activity summary and consent (`computations.py`, `activity.py`) | `insights.activity_summary` | eligibility query, keyset paging, window rewrite | revocation while a read is in progress; the window moves on | a revoked subject is counted no more in the window |
| Embedding load (`embedding_pipeline.py`) | `public.artist_embeddings` | idempotency check, read of vertices and edges, DELETE and COPY | two read transactions over a graph that changes | one complete set of vectors per stored version |
| Similar-artist release (`similar_artists.py`) | spool files and checkpoint on disk; release rows and lists | compute to spool, write, publish, rotate, remove | a death at any file operation; overlapping jobs; failing retire; roll-back | published lists are exact and never overwritten; the release before can be returned to |
| Exact top-k (`embeddings/exact_top_k.py`) | top-k lists per row, shared by threads; a checkpoint | symmetric block updates, hand-over, resume | thresholds read without the lock; ties; resumed state | every list equals the reference, whatever the schedule |
| Graph and vectors from a dump (`scripts/embeddings_from_dump.py`) | the streams, chunks in a pool, checkpoints, one output per weight | two passes over the releases, one over the masters, retries, sweep | broken and shortened streams, a kill between any two file operations | every graph passed on holds every record once, with credits resolved over the whole dump |
| Recall and churn measurement (`scripts/measure_recall_churn.py`) | tables and indexes in a container, a checkpoint, a result file | write, index, sweep, churn, partial and full result | what an earlier run left in the container and in the files | a measurement is of what it is reported for; a finished result is whole |
| Catalog snapshots (`computations.py`) | one result table each | replace, or keep on an empty answer | | part of the lifecycle model; row rules not modelled |
| Pure rules (`style_lifecycle.py`, `style_atlas.py`) | none | stage automaton, pinned ring, parents | boundaries and ties | not modelled |
| Numerics, configuration, telemetry, models, generated contract | none of interest | | floating point | not modelled |
| Other `scripts/` | none of interest | one-shot measurements, repository checks | | not modelled |

The scheduler calls the computations in sequence; each calls catalog-api over
HTTP and commits its tables; after all of them the scheduler bumps the cache
generation. Requests share the event loop with the scheduler and the database
and Valkey with its commits. The monthly program runs the embedding load and
then the similar-artist stage, whose kernel is the exact top-k; it shares only
the database with the engine. The offline tools share nothing with either.

`PROJECT.json` lists under `hazards` each thing here that is hard to test, with
its line and the properties that cover it.

## 2. Plan

Order of work, most important behaviour first; *done* marks what exists.

1. *done* `ComputationLog`, `ComputationLogProofs`.
2. *done* `InsightsCache` with the abstract `FreshReads`, `InsightsCacheProofs`.
3. *done* `StyleAtlas`, `StyleAtlasProofs`.
4. *done* `RarityWalk`, `RarityWalkProofs`.
5. *done* `ActivityRead`, extended by `ActivitySummary`; `ActivityProofs`.
6. *done* `ExactTopK` against a reference definition; `NeighbourProofs`.
7. *done* `EmbeddingLoad` and `SimilarArtists`, composed by `MonthlyRelease`;
   `MonthlyReleaseProofs`.
8. *done* `DumpGraph`, `DumpGraphProofs`; and `RecallChurn`, proved about in
   `NeighbourProofs`.
9. *done* The status endpoint's `LastComputedIsReal` and `ServedRunIsLogged`
   added to `ComputationLogProofs`.
10. `Engine`: the scheduler, the log and the cache composed, with restarts. It
    would replace `log_lifecycle`.
11. The row rules (`label longevity`, `StyleLifecycle`, `StyleParents`) as
    operators against reference definitions over bounded inputs.

## 3. Modules and code

Each module models the control of its component step by step: a step lies
between two points at which another task, another process, a failure or a stop
can come in (two awaits, two file operations, two statements). Data is reduced
to what the properties tell apart, usually the version, the run or the input
it was computed from. `PROJECT.json` maps every definition to the lines it
stands for. Definitions marked as mutations in the modules are plausible bugs:
replacing the definition they follow by one of them must break a property, which
shows that the property says something about the code.

### ComputationLog

| State | Code |
| --- | --- |
| `phase` | where the engine is: `down`, `boot` (lifespan before the scheduler task), `idle` (the task between runs), a point of `_record_lifecycle`, `stopping` (`_shutdown_runtime`) |
| `turn` | the position in the list of `run_all_computations` |
| `typeOf`, `startRow`, `endRows` | the rows of `insights.computation_log`: the one `_start_computation` inserts and the ones `_log_computation` inserts when it has no usable id |
| `tables` | which run's rows the result tables hold |
| `answer` | the status endpoint between and after its two SELECTs |
| `nruns`, `hasId`, `returned`, `unlogged`, `swept`, `earlier` | the current run and its `run_id`, and history the properties need |

`LogCompletedFails`, `StartFails` and the other `...Fails` actions cover a
statement that raises before or after its commit. `Cancel` reaches the wrapper's
`except CancelledError` only from inside its `try`; elsewhere it ends the task.

### InsightsCache and FreshReads

| State | Code |
| --- | --- |
| `gen`, `entries` | the counter and the entries in Valkey, named by generation and key |
| `tables` | the version of the rows behind each key |
| `sched`, `unscanned` | `_scheduler_loop`: computing, INCR, then the SCAN pages of `invalidate_all` |
| `step`, `key`, `mygen`, `row` | a request: its next await, its key, the generation it captured before its SELECT, the rows it selected |
| `caching` | whether the ping of `_initialize_cache` succeeded |
| `floorAt`, `due`, `served` | history: what was committed when a generation began, what a request was owed, what it got |

The nine cached endpoints have one shape, which the module models once.
`FreshReads` is the promise without a cache: at the end of a cycle everything
committed becomes due, and an answer is at least what was due when its request
began; only a request that cannot read the counter (`AskBlindly`) is promised no
more than committed rows. The refinement maps `promised` to `floorAt[gen]` and a
request in progress to `asked`.

### StyleAtlas

| State | Code |
| --- | --- |
| `years`, `genres`, `parents` | the catalog version in `style_year_counts`, `genre_year_counts`, `style_parents` |
| `counts` | the producer answer between the GET and the transaction of `compute_and_store_style_year_counts`; 0 for a missing part |
| `Parented` (constant) | the catalog versions in which some style has a share of at least `STYLE_PARENT_MIN_SHARE`; for the others `_style_parent_rows` keeps no row |
| `sectors`, `nodes` | per month, the layouts whose rows `genre_atlas_sectors` and `style_atlas_layout` hold |
| `lock`, `step`, `mine`, `pin`, `input` | the advisory lock, and each run of `compute_and_store_style_atlas`: its next await, its month, the month its frames come from, the version it laid out |
| `reader`, `answer` | `read_style_atlas` between its autocommit statements |

The transaction under the lock is two steps: the recheck (a statement of its
own after the wait) and the inserts with their commit. Rows are visible to
others only after the commit, so the inserts themselves need no step. A producer
answer with a missing part is not stored. One that is stored deletes all three
tables; `style_parents` is left empty when no share reaches the threshold
(`ParentRows`), as `tests/test_style_year_counts.py` expects, and a layout then
has no nodes (`Drawn`).

### RarityWalk

| State | Code |
| --- | --- |
| `catalog` | the releases behind the keyset pages of catalog-api |
| `table` | `insights.release_rarity` as committed: releases, and the walk that wrote them |
| `step`, `after`, `attempt` | the next await of a walk, the cursor of its next page, the attempt in `_rarity_request` |
| `total`, `counted` | `release_total` of the first page and the releases in the distributions |
| `page`, `last`, `copied` | the page about to be copied, whether its `next_after` is null, the rows copied so far |
| `target`, `deleted` | the rows the DELETE's snapshot saw and the rows it deleted |
| `present` | history: what was in the catalog ever since the walk began |

The replacing transaction is as PostgreSQL runs it at READ COMMITTED: the
DELETE takes its snapshot, waits for another transaction that has deleted one
of the rows it saw, and skips rows that are gone by then; the COPY waits for an
uncommitted row of the same release and fails on a committed one. A page is
the set of its releases; scores are left out. A retry repeats the request of
the same page, and nothing of a page is written before it has arrived.
A walk runs once: what it leaves behind is the table, which the initial states
already let an earlier walk have filled.

### ActivityRead and ActivitySummary

| State | Code |
| --- | --- |
| `granted` | `activity.consent_grants`: the grants in effect and not revoked |
| `rows` | `activity.events` and `activity.impressions`, at their places in key order |
| `step`, `table`, `since`, `until`, `only` | a call of `read_events` or `read_impressions` and its arguments |
| `unasked`, `eligible` | `_eligible_for_all` between its queries |
| `cursor`, `yielded` | `_keyset_pages`: `cursor_key`, and the rows it has yielded |
| `run`, `buckets` | `compute_and_store_activity_summary`, and what it has counted |
| `summary` | `insights.activity_summary` as committed |
| `today` | the date `activity_summary_window` is computed from |
| `before`, `kept`, `held`, `runBefore`, `runKept`, `runHeld`, `stored...`, `firstDay`, `lastDay`, `unbroken`, `loyal` | history: what there was when a read or a run began, who consented throughout it or at some moment of it, and which runs were stored |

`ActivityRead` is the read alone, for any caller; `ActivitySummary` runs it
twice and adds the calendar and the store. A row carries its subject and the
purposes that were active when it was written, which is the write-time check. A
place is one value of `(occurred_at, id)`, so rows may be recorded behind the
cursor and before it; `late` marks a row recorded after its day. A summary row
counts the records of a day; the model keeps which records these are and how
often each is counted, without grouping them by type or policy.

### ExactTopK

| State | Code |
| --- | --- |
| `score` | the dot products of the rows, one matrix per run |
| `block`, `stage` | `i` of the outer loop, and each task `j` of the thread pool: queued, at its left or its right fold, done |
| `read`, `stale` | the rows whose threshold a task has read, and the lists these thresholds came from |
| `lists`, `seen` | `TopKState`; history: what has been folded into each row |
| `emitted`, `handed` | the blocks given to `on_block`, and the lists given |
| `saved`, `crashes` | the checkpoint; the bound |

A threshold is read without the block's lock, the candidates chosen by it are
merged under the lock, and another task may have raised the lists in between.
A list is the set of its positions, since its order follows from the scores.

### EmbeddingLoad, SimilarArtists and MonthlyRelease

| State | Code |
| --- | --- |
| `graph`, `imports` | the relations the graph tables hold, and how often the importer has changed them |
| `loadStep`, `vertices`, `blocks` | per version, the next statement of the load, `_VertexSet`, the edges streamed so far |
| `embeddings`, `basis` | `artist_embeddings`: who has a vector, and the edges it was computed from |
| `deployed`, `build` | the build that jobs are started with, and the one a job runs: a build has its own `block_rows`, which is part of a spool's identity |
| `job`, `block` | the next step of a version's similar-artist stage, the block it computes next |
| `spool` | `positions` and `scores` (zeros or lists per block), `meta.json` with its identity and `complete`, `checkpoint.npz` |
| `release`, `rows`, `current` | `artist_embedding_releases` and `artist_similar_artists`, the current release |
| `publishedAt`, `publications` | `published_at` of each release, as the number of its publication |
| `rotation` | the `RotateResult` last returned |
| `steady`, `met`, `displaced` | history: the edges held throughout, and at some moment of, a read; the release the current one replaced |

`EmbeddingLoad` is `run_embedding_pipeline`, `SimilarArtists` the stage after
it, and `MonthlyRelease` the program that runs the stage once the vectors are
there, whether this run wrote them or an earlier one did. A block of a spool is
exact when both files were written for it; a spool of another identity is reset
file by file, and a job may die between any two of these operations.

### DumpGraph

| State | Code |
| --- | --- |
| `phase`, `attempt` | where the run is, the attempt in `_retry_whole_pass` |
| `reader`, `pos`, `from`, `pending` | the curl stream, the mark read last, where `tail` begins, the chunks the pool has not returned |
| `sameAs`, `edges`, `count`, `graph` | what has been merged: the map of pass 1, the edges of pass 2 and of the masters, the graph |
| `sameAsFile`, `graphFile`, `outputs`, `weight` | the checkpoints, the vectors per weight, the weight under way |
| `beside` | the temporary sibling being written or left behind; `Torn` until it has been closed |
| `mastersFile` | the masters dump, fetched from outside and deleted after use |
| `breaks`, `deaths` | bounds |

A dump is the sequence of its marks (preamble, opening and closing tags, the
root's closing tag). A block ends at any mark, so records are cut anywhere. A
file is opened under a temporary name, closed (`Close`) and then moved to its
place, in three steps; a killed run leaves the temporary one where it is.

### RecallChurn

| State | Code |
| --- | --- |
| `args` | the switches all runs are started with |
| `phase`, `month`, `version`, `resumed`, `part`, `useCopy` | where the run is, its files' version, whether a checkpoint was loaded, the next part of `_write_month`, whether it fell back to COPY |
| `found` | what the run has measured or loaded: each measurement with the rows and the index it was taken over |
| `up`, `rows`, `index` | the container, its table and its index |
| `checkpoint`, `out` | the checkpoint of the first month, the result file; `Torn` when cut short |
| `died`, `hasty` | history of the container: a run died in it, a month was written without COPY |

Files are opened and written in two steps, since `write_text` truncates first.

## 4. Runs

| Run | Shows |
| --- | --- |
| `log_lifecycle` | two computations, three runs, two stops, one failing log statement: a `running` row is the live run's; outcomes are final; what the status endpoint reports as last computed was computed; served rows have a logged run; leftovers are closed; every computation gets its turn |
| `sigterm_finding` | finding 1 |
| `cache_race` | two requests on one key race commits, the bump, the reclaim, expiry, a restart and errors of every Valkey call, the read of the counter included, under the fair scheduler: entries are as fresh as their generation, answers are never older than what was due, `FreshReads` is implemented, and what is committed becomes due |
| `atlas_concurrent` | two engines, two months, two catalog versions of which one has parents, a failure: a layout never changes, the three tables hold one producer answer, an answer shows the sectors and the nodes of one layout |
| `atlas_read_finding` | finding 2 |
| `rarity_walks` | two walks replace the table at once while releases come and go and requests fail: what is stored covers every release that stayed and is ranked against all of them, the rows of two walks never mix, and every walk ends |
| `activity_summary` | summary runs over four days with a window of three, so that a cycle may be skipped or fail between two runs, while activity is recorded and consent is granted and revoked at every await: reads are complete and within consent, what is stored is complete, a revocation takes effect with the next run in its window, and runs less than a window apart leave no gap |
| `exact_top_k` | two threads fold blocks of tied scores by thresholds that grow stale, a run dies and is resumed: every list handed out is the exact top k, and all blocks are handed out |
| `monthly_release` | the jobs of two dumps overlap while the graph changes, one dies anywhere, a new build is deployed, a retire fails, an operator goes back one release: vectors cover what was read, published lists are exact and untouched, the release before is kept and no other, every dump is published |
| `dump_graph` | a dump is streamed while streams break or end early, passes are redone and runs are killed: every graph passed on holds each record once with its credits resolved over the whole dump, nothing half written is in its place, the sweep is completed |
| `recall_churn` | runs of two versions share a container, a checkpoint and a result file and are killed: measurements are of what they are reported for, a result is whole and of one version, the partial one is there before the risky step, the measurement is finished |
| `recall_write_finding` | finding 3 |

Every property of a passing run has a mutation of the code's definitions that
violates it, listed in `PROJECT.json`.

### Findings

1. `SigtermClosesTheRun`: the `running` row is committed before the wrapper
   enters its `try`, so a SIGTERM that arrives while the id is on its way back,
   or in the handler of an exception, leaves the row `running` until the next
   start. The docstring of `mark_interrupted_runs` and `docs/operations.md` say
   the wrapper closes it.
2. `AnswerIsOneSnapshot`: `read_style_atlas` takes `style_year_counts`,
   `genre_year_counts` and `style_parents` in autocommit statements, and a
   replacement may commit between two of them: one answer then shows the counts
   of one snapshot beside the genre years or parents of the next. The docstring
   of `compute_and_store_style_year_counts` says that a reader never sees that.
   The layout itself is not concerned: its rows never change.
3. `MonthIsWrittenWhole`: when the trial batch is fast enough not to fall back
   to COPY, `_write_month` calls `_write_embeddings` several times, and each
   call deletes the rows of its version first. Only the last chunk's rows are
   in the table when the index is built, and the recall is measured over them.
   The docstring says that the month's rows are written, and `rows_written`
   counts all of them.

### Known behaviour

Further behaviour of the code that the models show; no run is spent on it:

- A request that cannot read the counter falls back to generation 0; if entries
  of that generation are left, it serves them although they are superseded. It
  is promised committed rows of any age only, and what it stores is still no
  older than the generation it stores it under.
- An atlas run overtaken by the end of its month lays the old month out after
  the run of the new month has read its pinned frames.
- Once a day has left the window of the activity summary, its row keeps the
  counts of subjects who have revoked consent since. A read for several
  purposes asks for each in a statement of its own.
- A late retry of an older dump's job makes that dump the current release.
- `is_result_complete` knows a finished result by `partial: false`, which the trimmed
  result alone carries. A full result has no such field, so a full measurement
  is taken again when it is run again, although the docstring counts the final
  result of `main_async` as finished.
- A recall run that dies while it builds or drops the larger index leaves it
  behind under the standard one's name, and one that dies while it writes rows
  leaves part of a month that the next run takes as written. The container is
  thrown away by the operator; the properties speak of containers in which no
  run has died.
- A recall checkpoint that was cut short stops every later run until it is
  removed.

### Bounds

Every bound is a constant named `Max...` or `Num...` in its module, or a set
given in the MC module.

- Log: three runs and two stops let a run be stopped, swept and followed by
  another computation's run and by one more stop. Two computations are enough
  for one to hold up another and for the status endpoint to confuse them.
- Cache: two requests and one key give every pair of a writer of an old
  generation and a reader of a new one; generations 0 to 2 give a superseded
  generation, the current one and the unset counter. Requests and keys are
  symmetric, and no temporal property is checked under symmetry.
- Atlas: two engines are enough for a winner and a loser of the lock, two
  months for a layout whose month is over while it is made. Of the two versions
  of the catalog one has parents, so `style_parents` is emptied and filled. The
  finding needs one month, one run and two versions.
- Rarity: two releases and pages of one give a release before and one behind
  the cursor, full, empty and last pages; two attempts are a retry and the last
  one. Two walks are enough for one to wait for, fail on or be overtaken by
  another.
- Activity: three days of window and four days let a day be counted while it is
  incomplete, again when it is over, and leave the window, and let a run follow
  the last one by two days, with a skipped or failed cycle between them. Pages
  of one row and two rows give a row behind and one before the cursor, and full,
  short and empty pages. There is one purpose, as in the computation, and one
  subject: a second one multiplies the states beyond what can be enumerated.
  The theorems hold for any set of subjects.
- Top-k: five rows in blocks of two give three blocks, the last one short; with
  k of two a list is full only after a second block. Two threads let a threshold grow stale, one
  crash falls before, between and after checkpoints. The catalogs are cosines
  with a row above, a row below and ties.
- Release: two dumps after a current release give a release that is retired;
  two blocks give a spool that is half computed; two builds give a resumed and
  a foreign spool; one death, failed retire, revert and change of the graph each
  fall at any step. Two relations and artists give an artist that only a second
  relation names.
- Dump: three records give one before, in and after a chunk; two attempts, three
  broken streams and two deaths let a pass be redone, exhausted and continued,
  and the next run meet a fault as well. Credits cover a name with two ids, with
  none, and with one that another level or an unkept role provides.
- Recall: three parts are the trial, the rest of its chunk and one more chunk;
  two deaths let a continued run die again; two versions let a file or a table
  belong to another run. The finding needs one version and no death.

### Fairness

All fairness is weak. `ComputationLog` assumes it of the startup and of the
wrapper's steps: the supervisor restarts the engine, and every call in a
computation has a read budget, so the event loop reaches the next await. Stops,
faults and status requests are not fair. `InsightsCache` assumes it of the end
of a cycle and of the steps of `invalidate_all`, for the same reason. Requests,
commits and restarts are not fair. `RarityWalk` assumes it of each walk's own
steps once it has begun: requests have a read budget and statements return. A
lock that another walk holds is not assumed to be released, and the lock timeout
is not fair: that walks do not wait for one another forever is what
`EveryWalkEnds` shows. `ExactTopK` assumes it of the work as a whole, not of a
thread; a run that died is run again, which is part of the crash. In
`MonthlyRelease` each dump's job is fair, which includes that the deployment
runs it again until it has succeeded; deaths, failed retires, reverts and
imports are not fair. `DumpGraph` and `RecallChurn` assume it of a run's steps
and of runs being started again, `DumpGraph` also of the fetch of the masters
dump, `RecallChurn` of the container being provided when it is gone.
`StyleAtlas` and `ActivitySummary` state safety only.

Deadlock is checked in every run but those of `RecallChurn`, where a finished
measurement and an unreadable checkpoint really end everything. Elsewhere the
status endpoint, new requests and reads, the reruns and the explicit `Finished`
of `ExactTopK` keep the systems from stopping when the bounds are used up.

## 5. Proofs

The proofs hold for every value of the constants that satisfies the named
assumptions (bounds are natural numbers, sizes are positive, there is at least
one computation). `TypeOK` is part of every invariant below and a theorem
(`TypeCorrect`) of each of these modules. The runs check it again only where it
says more than the range of each variable: in `MonthlyRelease`, `DumpGraph` and
`RecallChurn`. Every safety property that a passing run checks, invariant or
action property, is a theorem.

- `ComputationLogProofs`: `TypeCorrect`, `LiveRunCorrect`, `OutcomeFinal`,
  `LastComputedCorrect`, `ServedRunCorrect`. The
  invariant `LogInv` adds what the wrapper knows of its row at each await
  (`RowAtEachPoint`: with an id the row is `running` until the outcome is
  written), that runs not begun have no row, and that the current run belongs
  to this process. `OnlyTheLiveRunIsRunning` alone is not inductive: the step
  that ends a run needs the row to be finished by then. `StatusInv` is what the
  status endpoint rests on: a run with a `completed` row has returned
  (`CompletedHasReturned`), so its completion is real; between the two SELECTs
  the answer holds no completed row it could report twice
  (`NewestIsNotCompleted`), so the log may move in between; and the run whose
  rows are served has a row of its own by then, or could not get one because its
  log write failed (`ServedRunHasARow`).
- `InsightsCacheProofs`: `TypeCorrect`, `EntriesFresh`, `AnswersFresh`,
  `Refinement`. `CacheInv` adds that floors and entries are committed versions
  and that a request about to write holds rows at least as new as the floor of
  the generation it captured (`CapturedGeneration`), which is the reason the
  generation is read before the SELECT. A request that could not read the
  counter captured generation 0, whose floor every committed version meets. The
  refinement is proved step by step from the invariant and the lemmas that match
  a request's begin and answer, and an increment, to actions of `FreshReads`.
- `StyleAtlasProofs`: `TypeCorrect`, `LayoutFinal`, `OneLayoutAnswered`,
  `TablesTogether`. The invariant is `AtlasInv`: a run holds the lock from its
  recheck to its commit (`LockHeld`), so what the recheck saw still holds when it
  inserts (`FreeMonth`); hence one layout per month, with the nodes drawn in it
  (`OneLayout`), and what a read has collected of a month stays true
  (`ReadSoFar`). An answer of the producer that is stored is whole
  (`CountsAreWhole`), so the tables are of one (`StoredTogether`).
- `RarityWalkProofs`: `TypeCorrect`, `RankedAgainstEveryStayer`,
  `StoredComplete`, `TableFilled`, `OneWalk`. `WalkInv` says that a release that
  stayed is either past the cursor or already counted (`CountedSoFar`), in the
  second walk copied (`CopiedSoFar`), and that the first total is positive by
  then (`TotalIsPositive`), so that an empty second walk is a short one.
  `OneWalk`: a release that has always been in the catalog is in every table a
  walk commits (`AnchorsStay`), so two overlapping walks meet in it
  (`CopiesAreDisjoint`), what a transaction saw of the table is all or nothing
  of it (`WholeOrNothing`, and before the first commit all of it,
  `EarlierIsDeleted`), and a walk that has copied such a release has deleted the
  whole table (`AnchorsReplaceTheTable`). Without such a release two walks over
  disjoint catalogs could each leave their rows, which is why the property asks
  for one.
- `ActivityProofs`: `TypeCorrect`, `ReadsAreComplete`, `CountsAreComplete`,
  `NoDayIsLeftOut`, and for one purpose `YieldedWithConsent` and
  `RevocationTakesEffect`. `ReadInv` says of a read that what is owed of the
  places before the cursor has been yielded (`YieldedSoFar`) and that nothing
  behind it has (`YieldedOnce`), so a page never repeats nor skips a row though
  rows are inserted on both sides of it. `SummaryInv` carries this from the
  reads to the buckets (`CountedSoFar`), and, for the days between two runs,
  that a record made on its day was there when a later run began (`MadeInTime`)
  and which days have been stored (`StoredDays`). `PurposeInv` adds that who is
  eligible, yielded, counted or stored consented at some moment of the read or
  the run; with several purposes this fails (see the known behaviour), and the
  theorems assume one.
- `NeighbourProofs`, about `ExactTopK`: `TypeCorrect` (of `TopKTypeOK`),
  `HandedExact`, `EachFoldedOnce`. Two lemmas
  carry the algorithm: `MergeIsExact` (rows may be left out of a pool as long as
  its top k stays in it) and `CandidatesSuffice` (candidates chosen by the
  threshold of an earlier list leave out nothing of the later one). `TopKInv`
  then says that every list is the best of what has been folded into it, every
  threshold that was read is of the best of a part of it, and a checkpoint is a
  state between two blocks. That each pair is folded once (`FoldedOnce`) is part
  of it: a second fold would count a position twice.

- `MonthlyReleaseProofs`: `TypeCorrect`, `VectorsCoverTheGraph`, `ListsExact`,
  `RollBackPossible`, `TwoReleasesKept`, `ListsNotRewritten`. `LoadInv` says of a
  load that everything it has read was in the graph at some moment of the read,
  and that the edges of the relations it has scanned which were there throughout
  are among its blocks (`ReadCovers`); only with what the graph has held since
  the read began (`HistoryOfRead`) is that kept when the importer changes it.
  `StageInv` has one part per version. Its spool is of no later build than the
  job that would resume it, and if it is of that one, the blocks before the
  checkpoint are exact (`SpoolIsSound`): of a spool of another build nothing is
  known, and nothing needs to be, since its identity sends the job to start it
  over. The job knows at each step how much of its spool is exact
  (`JobIsSound`), up to the write of the lists. `CanRollBack` and `OnlyTwoAreKept`
  come from `KeptReleases`: the current release and the one it displaced are
  published and stored, and a retire is of neither.
- `DumpGraphProofs`: `TypeCorrect`, `EveryRecordCounted`,
  `CreditsResolved`. A chunk is whole records between even and odd marks, and
  `tail` begins behind the last closing tag (`ChunksAreWhole`), however the
  stream was cut into blocks. In pass 1 the pairs of all records before `tail`
  are merged or pending (`MapSoFar`); chunks come back in any order there, since
  a map does not count. In pass 2 they are merged in order: the edges are those
  of the first `count` records, and the pending chunks go on from there without
  a gap (`EdgesSoFar`, with the marks at which one piece ends and the next
  begins in `Joints`). A pass whose stream ends early or breaks is not merged
  into the next attempt, so the map, the edges and the graph are of the whole
  dump once their pass is over (`MapIsWhole`, `EdgesAreWhole`, `GraphsAreWhole`,
  the last one also of every checkpoint and output that can be loaded). A file
  beside its place is cut short or holds what belongs there (`BesideIsWhole`),
  and only one that is not cut short is moved.
  `CreditsResolved` follows with the lemma that ids stand for a name exactly
  when some record anywhere pairs them.
- `NeighbourProofs`, about `RecallChurn`: `MeasurementTypeCorrect`,
  `MeasurementsCorrect`, `ResultsWhole`, `PartialResultFirst`. The module extends
  `ExactTopK` too, with which `RecallChurn` shares neither state nor constants;
  of each of the two, only its own assumptions are used. `ChurnInv` says
  what a container is known to hold in which no run has died: no index is the
  larger one but that of the run measuring it (`IndexIsKnown`), and without a
  month written in batches every month is there as a whole or not at all, but
  for the one being written (`RowsAreKnown`), which is why a run may take any
  rows it finds for a written month. A container that is gone is empty
  (`GoneIsEmpty`): without it, a run that dies between `docker rm` and the new
  container would leave one of which nothing is known. Of the measurements it
  says that there is one of each kind that the run has passed, of its version
  (`FoundOnce`, `FoundOfVersion`, `FoundSoFar`), and that a checkpoint that can
  be read holds exactly what was asked of August (`CheckpointIsWhole`). That a
  result has as many measurements as were asked for is then a bijection with
  their kinds.

The constants `None` and `Torn` are assumed to be no graph, checkpoint or result
themselves; they stand for files that cannot be loaded.

## 6. Only model-checked

The liveness properties (`LeftoverRunsAreClosed`, `EveryComputationGetsItsTurn`,
`CommitsBecomeDue`, `EveryWalkEnds`, `EveryBlockIsHandedOut`,
`EveryDumpIsPublished`, `EveryOutputIsWritten`, `MeasurementFinishes`) rest on
fairness, which the proof system cannot treat. The findings are counterexamples
of TLC.

## 7. Not modelled

- Floating-point numerics: FastRP, projections, layout coordinates, the
  products and scores; a vector or a list is what it was computed from. Scores
  of `ExactTopK` are integers.
- The row rules of the catalog snapshots (label longevity ranks and trims), the
  style lifecycle rule and the atlas layout: functions of one call.
- Configuration, telemetry, response models and the generated contract: no
  state the other parts depend on. The `stale` status by elapsed time is a
  function of a clock that the models do not have.
- A second engine beside a running one, except for the atlas and the rarity
  walk, whose code expects it: the startup sweep assumes a single process.
- Two jobs of one stored version at once, a return to an earlier build, and
  checkpoints of another dump: the deployment starts one job per dump, and each
  dump has files of its own.
- Killed pool workers, waits for memory, disk and host load, `--limit-chunks`
  and the parity report of the offline tools.
- Which neighbours an approximate index returns.
- Other scripts: each reads its inputs, computes and writes once.
- The producer (`catalog-api`) is external: each of its answers is taken to be
  of one version of the catalog, possibly with parts missing.
