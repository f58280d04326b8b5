---------------------------- MODULE EmbeddingLoad ----------------------------
(***************************************************************************)
(* The monthly embedding load (insights/embedding_pipeline.py): read the   *)
(* graph, embed its artists, store their vectors under the dump's own      *)
(* model_version.                                                          *)
(*                                                                         *)
(* Nothing holds the graph still while it is read.  The vertices are read  *)
(* in one transaction and the edges in another, one statement per relation *)
(* and each with its own snapshot, so an edge may name a vertex that the   *)
(* first transaction did not see.  An artist it names is added; any other  *)
(* vertex that is missing fails the load when the edges are turned into    *)
(* positions, before anything is written.                                  *)
(*                                                                         *)
(* A vector is abstracted to the edges it was computed from.               *)
(***************************************************************************)
EXTENDS Integers, Sequences

CONSTANTS
    Versions,    \* the stored model_versions, one per dump
    Artists,     \* artist vertices; every other vertex an edge names is a release
    Edges,       \* the edges the importer may assert: [relation, source, target]
    Imported,    \* the edges the graph holds at first
    Relations,   \* _EDGE_RELATIONS: the relations, in the order they are read
    Counted,     \* the relations graph.vertex_degree sums
    MaxImports   \* bound: changes of the graph

\* Only edges of the relations that the load reads are of interest here.
ASSUME LoadAssumption ==
    /\ Imported \subseteq Edges /\ MaxImports \in Nat /\ Len(Relations) \in Nat
    /\ \A e \in Edges : \E i \in 1 .. Len(Relations) : e.relation = Relations[i]

VARIABLES
    graph,       \* the edges the graph holds
    imports,     \* how often it has changed
    loadStep,    \* per version: the statement its load runs next
    vertices,    \* per version: _VertexSet, the vertices known so far
    blocks,      \* per version: the edges streamed so far
    embeddings,  \* artist_embeddings: per version, the artists that have a vector
    basis,       \* per version: the edges those vectors were computed from
    steady,      \* history: per version, the edges the graph has held since its read began
    met          \* history: per version, the edges it has held at some time since

readVars == <<vertices, blocks>>
storeVars == <<embeddings, basis>>
histVars == <<steady, met>>
loadVars == <<graph, imports, loadStep, readVars, storeVars, histVars>>

Ends(edges) == UNION {{e.source, e.target} : e \in edges}
ArtistsOf(edges) == Ends(edges) \cap Artists

\* The load's statements: the idempotency check, vertex_degree, the discovery
\* queries, one scan per relation (1 .. Len(Relations)), then fastrp and the write.
Check == -2
Degree == -1
Discover == 0
Write == Len(Relations) + 1
Returned == Len(Relations) + 2
Idle == Len(Relations) + 3

LoadTypeOK ==
    /\ graph \subseteq Edges
    /\ imports \in 0 .. MaxImports
    /\ loadStep \in [Versions -> Check .. Idle]
    /\ vertices \in [Versions -> SUBSET Ends(Edges)]
    /\ blocks \in [Versions -> SUBSET Edges]
    /\ embeddings \in [Versions -> SUBSET Artists]
    /\ basis \in [Versions -> SUBSET Edges]
    /\ steady \in [Versions -> SUBSET Edges]
    /\ met \in [Versions -> SUBSET Edges]

LoadInit ==
    /\ graph = Imported /\ imports = 0
    /\ loadStep = [v \in Versions |-> Idle]
    /\ vertices = [v \in Versions |-> {}] /\ blocks = [v \in Versions |-> {}]
    /\ embeddings = [v \in Versions |-> {}] /\ basis = [v \in Versions |-> {}]
    /\ steady = [v \in Versions |-> {}] /\ met = [v \in Versions |-> {}]

\* The importer asserts or withdraws an edge.
Import(e) ==
    /\ imports < MaxImports
    /\ imports' = imports + 1
    /\ graph' = IF e \in graph THEN graph \ {e} ELSE graph \cup {e}
    /\ steady' = [v \in Versions |-> IF loadStep[v] \in Discover .. Write THEN steady[v] \cap graph' ELSE steady[v]]
    /\ met' = [v \in Versions |-> IF loadStep[v] \in Discover .. Write THEN met[v] \cup graph' ELSE met[v]]
    /\ UNCHANGED <<loadStep, readVars, storeVars>>

-----------------------------------------------------------------------------
(* load_embeddings(v).                                                       *)

\* What was read is gone with the call.
Forget(v) ==
    /\ vertices' = [vertices EXCEPT ![v] = {}]
    /\ blocks' = [blocks EXCEPT ![v] = {}]

AlreadyLoaded(v) == embeddings[v] # {}

\* A version with rows is not loaded again.
CheckLoaded(v) ==
    /\ loadStep[v] = Check
    /\ loadStep' = [loadStep EXCEPT ![v] = IF AlreadyLoaded(v) THEN Returned ELSE Degree]
    /\ UNCHANGED <<graph, imports, readVars, storeVars, histVars>>

\* _read_vertices: the vertices of the counted relations.
ReadDegrees(v) ==
    /\ loadStep[v] = Degree
    /\ loadStep' = [loadStep EXCEPT ![v] = Discover]
    /\ vertices' = [vertices EXCEPT ![v] = Ends({e \in graph : e.relation \in Counted})]
    /\ steady' = [steady EXCEPT ![v] = graph]
    /\ met' = [met EXCEPT ![v] = graph]
    /\ UNCHANGED <<graph, imports, blocks, storeVars>>

\* _DISCOVERY_QUERIES: the releases of the relations that are not counted.
Discovered == {e.source : e \in {d \in graph : d.relation \notin Counted}}

DiscoverReleases(v) ==
    /\ loadStep[v] = Discover
    /\ loadStep' = [loadStep EXCEPT ![v] = 1]
    /\ vertices' = [vertices EXCEPT ![v] = @ \cup Discovered]
    /\ UNCHANGED <<graph, imports, blocks, storeVars, histVars>>

\* _stream_edge_blocks, one relation: its edges are kept, and the artists found
\* in them are added to the vertices.
Scanned(v) == {e \in graph : e.relation = Relations[loadStep[v]]}

ScanFinding(v, found) ==
    /\ loadStep[v] \in 1 .. Len(Relations)
    /\ loadStep' = [loadStep EXCEPT ![v] = @ + 1]
    /\ blocks' = [blocks EXCEPT ![v] = @ \cup Scanned(v)]
    /\ vertices' = [vertices EXCEPT ![v] = @ \cup found]
    /\ UNCHANGED <<graph, imports, storeVars, histVars>>

\* Mutation of ScanRelation: artists come from vertex_degree only.
ScanWithoutArtists(v) == ScanFinding(v, {})

ScanRelation(v) == ScanFinding(v, ArtistsOf(Scanned(v)))

\* _assemble: NodeIndex.positions raises KeyError for an edge whose vertex is unknown.
Assembled(v) == Ends(blocks[v]) \subseteq vertices[v]

\* fastrp over the adjacency, then DELETE and COPY in one transaction.  A graph
\* without artists is a load of no rows.
WriteRows(v, artists) ==
    /\ loadStep[v] = Write
    /\ Assembled(v)
    /\ loadStep' = [loadStep EXCEPT ![v] = Returned]
    /\ embeddings' = [embeddings EXCEPT ![v] = artists]
    /\ basis' = [basis EXCEPT ![v] = IF artists = {} THEN {} ELSE blocks[v]]
    /\ Forget(v)
    /\ UNCHANGED <<graph, imports, histVars>>

\* Mutation of WriteEmbeddings: rows for the artists of the counted relations only.
WriteCounted(v) == WriteRows(v, ArtistsOf({e \in blocks[v] : e.relation \in Counted}))

WriteEmbeddings(v) == WriteRows(v, vertices[v] \cap Artists)

\* The load is over without a row: KeyError, a lost connection, a killed process.
LoadFails(v) ==
    /\ loadStep' = [loadStep EXCEPT ![v] = Idle]
    /\ Forget(v)
    /\ IF embeddings[v] = {}
         THEN steady' = [steady EXCEPT ![v] = {}] /\ met' = [met EXCEPT ![v] = {}]
         ELSE UNCHANGED histVars
    /\ UNCHANGED <<graph, imports, storeVars>>

KeyUnknown(v) == loadStep[v] = Write /\ ~Assembled(v) /\ LoadFails(v)

Load(v) ==
    \/ CheckLoaded(v) \/ ReadDegrees(v) \/ DiscoverReleases(v)
    \/ ScanRelation(v) \/ WriteEmbeddings(v) \/ KeyUnknown(v)

-----------------------------------------------------------------------------
(***************************************************************************)
(* Stored vectors are those of the graph that was read: every edge that    *)
(* was there all through the read is in them and so is its artist, and     *)
(* none that was never there.                                              *)
(***************************************************************************)
EmbeddingsCoverTheGraph ==
    \A v \in Versions : embeddings[v] # {} =>
        /\ steady[v] \subseteq basis[v] /\ basis[v] \subseteq met[v]
        /\ ArtistsOf(steady[v]) \subseteq embeddings[v] /\ embeddings[v] \subseteq ArtistsOf(met[v])
        /\ Ends(basis[v]) \cap Artists \subseteq embeddings[v]
=============================================================================
