---------------------------- MODULE SimilarArtists ----------------------------
(***************************************************************************)
(* The similar-artist stage of the monthly job                             *)
(* (insights/similar_artists.py): lists computed block by block into a     *)
(* spool on disk, written to the database as a pending release, published  *)
(* as the current one, and the releases before the one it replaced         *)
(* retired.                                                                *)
(*                                                                         *)
(* Each stored model_version has its own spool and at most one job; jobs   *)
(* of several versions may overlap.  A job may die between any two steps,  *)
(* and within the resetting or the removal of a spool, and be run again    *)
(* from the start.  The kernel that computes a block is ExactTopK.         *)
(***************************************************************************)
EXTENDS Integers, FiniteSets

CONSTANTS
    Releases,     \* the model_versions that may have a release
    None,         \* no version
    First,        \* the release that is current before the jobs run
    NumBlocks,    \* n_blocks, the row blocks of a catalog
    Builds,       \* bound: builds of the program, each with block_rows of its own
    MaxDeaths,    \* bound: jobs that die
    MaxFailures,  \* bound: retires that fail
    MaxReverts    \* bound: an operator's returns to the previous release

ASSUME ReleaseAssumption ==
    /\ IsFiniteSet(Releases) /\ First \in Releases /\ None \notin Releases
    /\ NumBlocks \in Nat \ {0} /\ Builds \in Nat \ {0}
    /\ MaxDeaths \in Nat /\ MaxFailures \in Nat /\ MaxReverts \in Nat

VARIABLES
    deployed,     \* the build that jobs are started with
    job,          \* per version: the next step of its job
    build,        \* per version: the build its job runs
    block,        \* per version: the block its job computes next
    spool,        \* per version: the files on disk
    release,      \* artist_embedding_releases: per version, absent, pending or published
    rows,         \* artist_similar_artists: per version, the blocks whose lists are exact, or Absent
    current,      \* the release with is_current
    publishedAt,  \* published_at of each release, 0 while it has none
    publications, \* releases published so far; the newest published_at
    displaced,    \* history: the release that was current before the current one
    rotation,     \* the RotateResult last returned: kept_previous and retire_failures
    deaths, failures, reverts

jobVars == <<deployed, job, build, block>>
dbVars == <<release, rows, current, publishedAt, publications, displaced, rotation,
            failures, reverts>>
stageVars == <<jobVars, spool, dbVars, deaths>>

Blocks == 1 .. NumBlocks

\* A file of lists as the blocks written to it (the others are zeros), a release's
\* rows as the blocks whose lists are exact; or neither is there.
Absent == {0}
Zeros == {}
Contents == {Absent} \cup SUBSET Blocks

\* meta.json as the build whose identity it holds (0: no file) and its `complete`;
\* checkpoint.npz as its next_block (0: no file).
Spools == [positions : Contents, scores : Contents, meta : 0 .. Builds,
           complete : BOOLEAN, checkpoint : 0 .. NumBlocks]
NoSpool == [positions |-> Absent, scores |-> Absent, meta |-> 0, complete |-> FALSE, checkpoint |-> 0]

Steps == {"idle", "open", "compute", "after", "complete", "unlink", "write", "publish", "remove"}

StageTypeOK ==
    /\ deployed \in 1 .. Builds
    /\ job \in [Releases -> Steps]
    /\ build \in [Releases -> 1 .. Builds]
    /\ block \in [Releases -> 1 .. NumBlocks + 1]
    /\ spool \in [Releases -> Spools]
    /\ release \in [Releases -> {"absent", "pending", "published"}]
    /\ rows \in [Releases -> Contents]
    /\ current \in Releases
    /\ publications \in Nat
    /\ publishedAt \in [Releases -> 0 .. publications]
    /\ displaced \in Releases \cup {None}
    /\ rotation \in [previous : Releases \cup {None}, failed : SUBSET Releases]
    /\ deaths \in 0 .. MaxDeaths /\ failures \in 0 .. MaxFailures /\ reverts \in 0 .. MaxReverts

Published == {v \in Releases : release[v] = "published"}
Stored == {v \in Releases : rows[v] # Absent}

StageInit ==
    /\ deployed = 1
    /\ job = [v \in Releases |-> "idle"]
    /\ build = [v \in Releases |-> 1]
    /\ block = [v \in Releases |-> 1]
    /\ spool = [v \in Releases |-> NoSpool]
    /\ release = [v \in Releases |-> IF v = First THEN "published" ELSE "absent"]
    /\ rows = [v \in Releases |-> IF v = First THEN Blocks ELSE Absent]
    /\ current = First /\ displaced = None
    /\ publishedAt = [v \in Releases |-> IF v = First THEN 1 ELSE 0]
    /\ publications = 1
    /\ rotation = [previous |-> None, failed |-> {}]
    /\ deaths = 0 /\ failures = 0 /\ reverts = 0

Goto(v, step) == job' = [job EXCEPT ![v] = step]

\* A job that is over leaves nothing behind in memory.
EndJob(v) ==
    /\ Goto(v, "idle")
    /\ block' = [block EXCEPT ![v] = 1]
    /\ build' = [build EXCEPT ![v] = 1]

\* Killed, over its memory budget, or stopped by an error of the disk or the database.
Dies(v) ==
    /\ deaths < MaxDeaths
    /\ deaths' = deaths + 1
    /\ EndJob(v)

Die(v) ==
    /\ job[v] # "idle"
    /\ Dies(v)
    /\ UNCHANGED <<deployed, spool, dbVars>>

\* A deployment does not return to an earlier build.
Deploy(b) ==
    /\ b > deployed
    /\ deployed' = b
    /\ UNCHANGED <<job, build, block, spool, dbVars, deaths>>

-----------------------------------------------------------------------------
(* compute_to_spool.                                                         *)

\* A published release is skipped.  A version without vectors is an error.
CheckPublished(v, hasVectors) ==
    /\ job[v] = "idle"
    /\ IF release[v] = "published" \/ ~hasVectors
         THEN UNCHANGED <<job, build>>
         ELSE Goto(v, "open") /\ build' = [build EXCEPT ![v] = deployed]
    /\ UNCHANGED <<deployed, block, spool, dbVars, deaths>>

SameIdentity(v) == spool[v].meta = build[v]

ReturnIf(v, finished) ==
    /\ job[v] = "open" /\ SameIdentity(v) /\ finished
    /\ Goto(v, "write")
    /\ UNCHANGED <<deployed, build, block, spool, dbVars, deaths>>

\* Mutation of ReturnComplete: `complete` is not looked at.
ReturnUnfinished(v) == ReturnIf(v, TRUE)

\* A spool that is complete for this identity is returned as it is.
ReturnComplete(v) == ReturnIf(v, spool[v].complete)

Resume(v) ==
    /\ job[v] = "open" /\ SameIdentity(v) /\ ~spool[v].complete /\ spool[v].checkpoint # 0
    /\ Goto(v, "compute")
    /\ block' = [block EXCEPT ![v] = spool[v].checkpoint]
    /\ UNCHANGED <<deployed, build, spool, dbVars, deaths>>

\* The spool after the first n of the six steps that start it over: unlink
\* positions, scores and checkpoint, lay out positions and scores as zeros, then
\* rename the new meta.json into place.
ResetSteps == 6
AfterReset(s, b, n) ==
    [positions |-> IF n < 1 THEN s.positions ELSE IF n < 4 THEN Absent ELSE Zeros,
     scores |-> IF n < 2 THEN s.scores ELSE IF n < 5 THEN Absent ELSE Zeros,
     checkpoint |-> IF n < 3 THEN s.checkpoint ELSE 0,
     meta |-> IF n < 6 THEN s.meta ELSE b,
     complete |-> IF n < 6 THEN s.complete ELSE FALSE]

\* The spool is started over, and the job may die on the way.
Reset(v, n) ==
    /\ job[v] = "open"
    /\ ~(SameIdentity(v) /\ (spool[v].complete \/ spool[v].checkpoint # 0))
    /\ spool' = [spool EXCEPT ![v] = AfterReset(@, build[v], n)]
    /\ IF n = ResetSteps
         THEN Goto(v, "compute") /\ UNCHANGED <<build, block, deaths>>
         ELSE Dies(v)
    /\ UNCHANGED <<deployed, dbVars>>

\* on_block: the block's positions, then its scores; the job may die in between.
\* _write_rows opens a file that must exist; were it gone, no later run would pass.
WriteBlock(v, both) ==
    /\ job[v] = "compute"
    /\ spool[v].positions # Absent /\ (both => spool[v].scores # Absent)
    /\ spool' = [spool EXCEPT ![v].positions = @ \cup {block[v]},
                             ![v].scores = IF both THEN @ \cup {block[v]} ELSE @]
    /\ IF both THEN Goto(v, "after") /\ UNCHANGED <<build, block, deaths>> ELSE Dies(v)
    /\ UNCHANGED <<deployed, dbVars>>

\* A checkpoint when the interval has passed, none after the last block.
AfterBlockSaving(v, maySave) ==
    /\ job[v] = "after"
    /\ block' = [block EXCEPT ![v] = @ + 1]
    /\ Goto(v, IF block[v] = NumBlocks THEN "complete" ELSE "compute")
    /\ \/ UNCHANGED spool
       \/ maySave /\ spool' = [spool EXCEPT ![v].checkpoint = block[v] + 1]
    /\ UNCHANGED <<deployed, build, dbVars, deaths>>

\* Mutation of AfterBlock: one after the last block too.
AfterBlockSavingLast(v) == AfterBlockSaving(v, TRUE)

AfterBlock(v) == AfterBlockSaving(v, block[v] < NumBlocks)

\* meta.json says complete, then the checkpoint goes.
Complete(v) ==
    /\ job[v] = "complete"
    /\ spool' = [spool EXCEPT ![v].complete = TRUE]
    /\ Goto(v, "unlink")
    /\ UNCHANGED <<deployed, build, block, dbVars, deaths>>

UnlinkCheckpoint(v) ==
    /\ job[v] = "unlink"
    /\ spool' = [spool EXCEPT ![v].checkpoint = 0]
    /\ Goto(v, "write")
    /\ UNCHANGED <<deployed, build, block, dbVars, deaths>>

-----------------------------------------------------------------------------
(* write_similar_artists, publish_and_rotate: one transaction each, under    *)
(* the release lock.  A transaction that fails is Die: nothing of it stays.  *)

\* The blocks whose lists a spool holds; a block of zeros is no list.
ExactBlocks(s) == s.positions \cap s.scores

\* create makes the release or takes a pending one, the guard refuses a published
\* one, and DELETE and COPY replace its rows.
WriteLists(v) ==
    /\ job[v] = "write"
    /\ Absent \notin {spool[v].positions, spool[v].scores}
    /\ IF release[v] = "published"
         THEN EndJob(v) /\ UNCHANGED <<release, rows>>
         ELSE /\ release' = [release EXCEPT ![v] = "pending"]
              /\ rows' = [rows EXCEPT ![v] = ExactBlocks(spool[v])]
              /\ Goto(v, "publish") /\ UNCHANGED <<build, block>>
    /\ UNCHANGED <<deployed, spool, current, publishedAt, publications, displaced, rotation,
                   failures, reverts, deaths>>

\* publish of the registry: the release is current from now on.
MakeCurrent(v) ==
    /\ release' = [release EXCEPT ![v] = "published"]
    /\ publications' = publications + 1
    /\ publishedAt' = [publishedAt EXCEPT ![v] = publications']
    /\ current' = v
    /\ displaced' = IF current = v THEN displaced ELSE current

\* Of the other published releases all but `kept` are retired.  A failed retire
\* leaves the lists and is reported.
RotateKeeping(previous, retired) ==
    \E failed \in SUBSET (retired \cap Stored) :
      /\ failures + Cardinality(failed) <= MaxFailures
      /\ failures' = failures + Cardinality(failed)
      /\ rows' = [w \in Releases |-> IF w \in retired \ failed THEN Absent ELSE rows[w]]
      /\ rotation' = [previous |-> previous, failed |-> failed]

PublishRetiring(v, previous, retired) ==
    /\ job[v] = "publish"
    /\ MakeCurrent(v)
    /\ RotateKeeping(previous, retired)
    /\ Goto(v, "remove")
    /\ UNCHANGED <<deployed, build, block, spool, reverts, deaths>>

\* The release this one replaces; when it is current already, the one published
\* last before it.
LastOf(S) == CHOOSE w \in S : \A x \in S : publishedAt[x] <= publishedAt[w]

Displacing(v) ==
    LET older == Published \ {v}
    IN  IF current # v THEN current ELSE IF older = {} THEN None ELSE LastOf(older)

\* Mutations of PublishAndRotate: the oldest release is kept; the release that is
\* replaced is reported but nothing is retired; a pending release is retired too.
FirstPublished == CHOOSE w \in Published : \A x \in Published : publishedAt[w] <= publishedAt[x]
PublishKeepingOldest(v) == PublishRetiring(v, FirstPublished, Published \ {v, FirstPublished})
PublishRetiringNothing(v) == PublishRetiring(v, Displacing(v), {})
PublishRetiringPending(v) == PublishRetiring(v, Displacing(v), Stored \ {v, Displacing(v)})

PublishAndRotate(v) == PublishRetiring(v, Displacing(v), Published \ {v, Displacing(v)})

\* shutil.rmtree: the files go in any order, and the job may die on the way.
RemoveSpool(v, kept) ==
    /\ job[v] = "remove"
    /\ spool' = [spool EXCEPT ![v] =
                   [positions |-> IF "positions" \in kept THEN @.positions ELSE Absent,
                    scores |-> IF "scores" \in kept THEN @.scores ELSE Absent,
                    meta |-> IF "meta" \in kept THEN @.meta ELSE 0,
                    complete |-> "meta" \in kept /\ @.complete,
                    checkpoint |-> IF "checkpoint" \in kept THEN @.checkpoint ELSE 0]]
    /\ IF kept = {} THEN EndJob(v) /\ UNCHANGED deaths ELSE Dies(v)
    /\ UNCHANGED <<deployed, dbVars>>

\* An operator republishes the previous release with the registry's helper alone.
Revert ==
    /\ reverts < MaxReverts /\ displaced # None
    /\ reverts' = reverts + 1
    /\ MakeCurrent(displaced)
    /\ UNCHANGED <<jobVars, spool, rows, rotation, failures, deaths>>

-----------------------------------------------------------------------------
JobStep(v) ==
    \/ ReturnComplete(v) \/ Resume(v) \/ Reset(v, ResetSteps) \/ WriteBlock(v, TRUE) \/ AfterBlock(v)
    \/ Complete(v) \/ UnlinkCheckpoint(v) \/ WriteLists(v) \/ PublishAndRotate(v)
    \/ RemoveSpool(v, {})

DiesWithin(v) ==
    \/ \E n \in 1 .. ResetSteps - 1 : Reset(v, n)
    \/ WriteBlock(v, FALSE)
    \/ \E kept \in SUBSET {"positions", "scores", "meta", "checkpoint"} : kept # {} /\ RemoveSpool(v, kept)

-----------------------------------------------------------------------------
(***************************************************************************)
(* The lists of a release are exact in every block, whatever runs its      *)
(* spool was resumed and started over by (docs/similar_artists.md: "It is  *)
(* exact"; "A run with the same model_version, catalog size, and K resumes *)
(* from its last checkpoint.  A different one starts over").               *)
(***************************************************************************)
StoredListsAreExact == \A v \in Stored : rows[v] = Blocks

(***************************************************************************)
(* The current release has its lists, and so has the one it replaced, so   *)
(* that a bad month can be rolled back (docs/similar_artists.md: "Its rows *)
(* are still present, because only releases older than the previous one    *)
(* are retired").                                                          *)
(***************************************************************************)
CanRollBack == {current, displaced} \ {None} \subseteq Stored

(***************************************************************************)
(* Published releases whose lists are kept are the current one, the one it *)
(* replaced, and those the last rotation reported it could not retire: the *)
(* storage docs/similar_artists.md plans for.                              *)
(***************************************************************************)
OnlyTwoAreKept == Published \cap Stored \subseteq {current, displaced} \cup rotation.failed

(***************************************************************************)
(* Published lists are never rewritten; they go only by being retired,     *)
(* when the release is neither current nor the one before it.  The rows of *)
(* a pending release are touched by its own job alone.                     *)
(***************************************************************************)
PublishedAreNotRewritten ==
    [][\A v \in Stored :
         /\ v \in Published => rows'[v] = rows[v] \/ (rows'[v] = Absent /\ v \notin {current', displaced'})
         /\ rows'[v] # rows[v] /\ v \notin Published => job[v] = "write"]_stageVars
=============================================================================
