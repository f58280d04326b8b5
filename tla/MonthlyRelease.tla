---------------------------- MODULE MonthlyRelease ----------------------------
(***************************************************************************)
(* The monthly job of a dump (run_embedding_pipeline, main): the embedding *)
(* load, and then, whether it wrote the vectors or found them, the         *)
(* similar-artist stage.  The deployment runs a dump's job again when it   *)
(* has failed; jobs of several dumps may overlap.                          *)
(***************************************************************************)
EXTENDS EmbeddingLoad, SimilarArtists

ASSUME DumpsAreReleases == Versions \subseteq Releases \ {First}

vars == <<loadVars, stageVars>>

Init == LoadInit /\ StageInit

\* main: a dump's job is started.
Start(v) ==
    /\ loadStep[v] = Idle /\ job[v] = "idle"
    /\ loadStep' = [loadStep EXCEPT ![v] = Check]
    /\ UNCHANGED <<graph, imports, readVars, storeVars, histVars, stageVars>>

LoadStep(v) ==
    /\ Load(v)
    /\ UNCHANGED stageVars

\* read_embeddings: the stored vectors, in one read-only transaction.
HasVectors(v) == embeddings[v] # {}

\* run_similar_artists follows the load, loaded or skipped.
RunSimilarArtists(v) ==
    /\ loadStep[v] = Returned
    /\ loadStep' = [loadStep EXCEPT ![v] = Idle]
    /\ CheckPublished(v, HasVectors(v))
    /\ UNCHANGED <<graph, imports, readVars, storeVars, histVars>>

\* The job dies while it loads: the transaction that is open is rolled back.
DieLoading(v) ==
    /\ loadStep[v] \notin {Returned, Idle}
    /\ LoadFails(v) /\ Dies(v)
    /\ UNCHANGED <<deployed, spool, dbVars>>

StageStep(v) == JobStep(v) /\ UNCHANGED loadVars

Job(v) == Start(v) \/ LoadStep(v) \/ RunSimilarArtists(v) \/ StageStep(v)

Environment ==
    \/ \E e \in Edges : Import(e) /\ UNCHANGED stageVars
    \/ /\ \/ \E v \in Versions : Die(v) \/ DiesWithin(v)
          \/ \E b \in 1 .. Builds : Deploy(b)
          \/ Revert
       /\ UNCHANGED loadVars

Next ==
    \/ \E v \in Versions : Job(v) \/ DieLoading(v)
    \/ Environment

Spec == Init /\ [][Next]_vars

\* A dump's job goes on by itself, and is run again until it has succeeded.
FairSpec == Spec /\ \A v \in Versions : WF_vars(Job(v))

-----------------------------------------------------------------------------
\* Lists are of the artists whose vectors are stored.
TypeOK == LoadTypeOK /\ StageTypeOK

(***************************************************************************)
(* A dump whose graph has artists is published in the end: no failed load, *)
(* interrupted spool or dead job leaves something behind that stops every  *)
(* later run of it.                                                        *)
(***************************************************************************)
EveryDumpIsPublished ==
    \A v \in Versions : <>[](ArtistsOf(graph) # {}) => <>(release[v] = "published")
=============================================================================
