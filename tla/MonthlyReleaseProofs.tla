------------------------ MODULE MonthlyReleaseProofs ------------------------
(***************************************************************************)
(* Proofs about MonthlyRelease, for any number of dumps, edges, blocks and *)
(* builds, deaths, failed retires and reverts: type correctness, what the  *)
(* stored vectors cover, that stored lists are exact, that the release     *)
(* before the current one is kept, and no other, and that published lists  *)
(* are not rewritten.                                                      *)
(***************************************************************************)
EXTENDS MonthlyRelease, FiniteSetTheorems, TLAPS

Reading == Discover .. Write

\* A load that reads has stored nothing yet, and keeps no edge before its scans.
NothingStoredYet ==
    \A v \in Versions :
        /\ loadStep[v] \in Degree .. Write => embeddings[v] = {}
        /\ loadStep[v] \notin 1 .. Write => blocks[v] = {}

\* The history of a read: what the graph has held throughout and at some time.
HistoryOfRead ==
    \A v \in Versions : loadStep[v] \in Reading => steady[v] \subseteq graph /\ graph \subseteq met[v]

\* What has been read comes from the graph, and the relations scanned are covered.
ReadCovers ==
    \A v \in Versions : loadStep[v] \in Reading =>
        /\ blocks[v] \subseteq met[v] /\ vertices[v] \subseteq Ends(met[v])
        /\ ArtistsOf(blocks[v]) \subseteq vertices[v]
        /\ \A e \in steady[v], i \in 1 .. Len(Relations) :
               i < loadStep[v] /\ e.relation = Relations[i] => e \in blocks[v]

\* The inductive invariant of the load.
LoadInv ==
    /\ LoadTypeOK
    /\ NothingStoredYet
    /\ HistoryOfRead
    /\ ReadCovers
    /\ EmbeddingsCoverTheGraph

\* The first n - 1 blocks of a spool are exact; all of them are.
ExactBefore(s, n) == 1 .. n - 1 \subseteq ExactBlocks(s)
ExactInFull(s) == s.positions = Blocks /\ s.scores = Blocks

\* The build a spool would be resumed by: the one of its job, or of the next job.
BuildFor(v) == IF job[v] = "idle" THEN deployed ELSE build[v]

\* A spool whose lists are what its meta.json and its checkpoint say.
AsPromised(s) ==
    /\ s.complete => ExactInFull(s)
    /\ s.checkpoint # 0 => ExactBefore(s, s.checkpoint)

\* Of a release that is not published, the spool is of no later build than that one,
\* and if it is of that one its lists are as promised.
SpoolIsSound(v) ==
    release[v] # "published" =>
        /\ spool[v].meta <= BuildFor(v)
        /\ spool[v].meta = BuildFor(v) => AsPromised(spool[v])

\* What a job knows at each of its steps.
JobIsSound(v) ==
    /\ build[v] <= deployed
    /\ job[v] \notin {"idle", "remove"} => release[v] # "published"
    /\ job[v] \in {"idle", "open"} => block[v] = 1
    /\ job[v] \in {"compute", "after", "complete", "unlink", "write"} => spool[v].meta = build[v]
    /\ job[v] = "compute" => block[v] \in Blocks /\ ExactBefore(spool[v], block[v])
    /\ job[v] = "after" => block[v] \in Blocks /\ ExactBefore(spool[v], block[v] + 1)
    /\ job[v] \in {"complete", "unlink", "write"} => ExactInFull(spool[v])
    /\ job[v] = "publish" => release[v] = "pending" /\ rows[v] = Blocks
    /\ job[v] = "remove" => release[v] = "published"

VersionIsSound(v) == SpoolIsSound(v) /\ JobIsSound(v)

\* The current release and the one it replaced are published and have their lists.
KeptReleases == {current, displaced} \ {None} \subseteq Published \cap Stored

\* The inductive invariant of the stage.
StageInv ==
    /\ StageTypeOK
    /\ \A v \in Releases : VersionIsSound(v)
    /\ KeptReleases
    /\ StoredListsAreExact
    /\ OnlyTwoAreKept

ReleaseInv == LoadInv /\ StageInv

-----------------------------------------------------------------------------
(* The embedding load.                                                       *)

\* The steps a load can make, and those of the importer.
LoadNext ==
    \/ \E e \in Edges : Import(e)
    \/ \E v \in Versions :
         \/ loadStep[v] = Idle /\ loadStep' = [loadStep EXCEPT ![v] = Check]
              /\ UNCHANGED <<graph, imports, readVars, storeVars, histVars>>
         \/ loadStep[v] = Returned /\ loadStep' = [loadStep EXCEPT ![v] = Idle]
              /\ UNCHANGED <<graph, imports, readVars, storeVars, histVars>>
         \/ Load(v)
         \/ LoadFails(v)
    \/ UNCHANGED loadVars

(* More edges have more ends, and name more artists.                         *)
LEMMA EndsGrow ==
    ASSUME NEW S, NEW T, S \subseteq T
    PROVE  Ends(S) \subseteq Ends(T) /\ ArtistsOf(S) \subseteq ArtistsOf(T)
BY DEF Ends, ArtistsOf

(* The ends of two sets of edges are those of both.                          *)
LEMMA EndsOfUnion ==
    ASSUME NEW S, NEW T
    PROVE  /\ Ends(S \cup T) = Ends(S) \cup Ends(T)
           /\ ArtistsOf(S \cup T) = ArtistsOf(S) \cup ArtistsOf(T)
BY DEF Ends, ArtistsOf

(* The steps of a load are numbered in their order.                          *)
LEMMA StepOrder ==
    /\ Len(Relations) \in Nat
    /\ Check = -2 /\ Degree = -1 /\ Discover = 0
    /\ Write = Len(Relations) + 1 /\ Returned = Write + 1 /\ Idle = Write + 2
BY LoadAssumption DEF Check, Degree, Discover, Write, Returned, Idle

(* A load that reads is past its check.                                       *)
LEMMA ReadsStoreNothing ==
    ASSUME LoadInv, NEW v \in Versions, loadStep[v] \in Reading
    PROVE  embeddings[v] = {}
<1>1. loadStep[v] \in Degree .. Write
  BY StepOrder DEF Reading
<1>2. QED
  BY <1>1 DEF LoadInv, NothingStoredYet

(* The importer changes the graph under every read: the history follows, what *)
(* was read stays covered by it.                                              *)
LEMMA ImportStep ==
    ASSUME LoadInv, NEW e \in Edges, Import(e)
    PROVE  LoadInv'
<1> USE LoadAssumption DEF LoadInv, Import, readVars, storeVars
<1>1. graph' \subseteq Edges /\ imports' \in 0 .. MaxImports
  BY DEF LoadTypeOK
<1>2. \A v \in Versions :
        IF loadStep[v] \in Reading
          THEN steady'[v] = steady[v] \cap graph' /\ met'[v] = met[v] \cup graph'
          ELSE steady'[v] = steady[v] /\ met'[v] = met[v]
  BY DEF Reading
<1>3. LoadTypeOK'
  BY <1>1 DEF LoadTypeOK
<1>4. NothingStoredYet'
  BY DEF NothingStoredYet
<1>5. HistoryOfRead'
  BY <1>2 DEF HistoryOfRead
<1>6. ReadCovers'
  <2> SUFFICES ASSUME NEW v \in Versions, loadStep[v] \in Reading
               PROVE  /\ blocks[v] \subseteq met'[v] /\ vertices[v] \subseteq Ends(met'[v])
                      /\ ArtistsOf(blocks[v]) \subseteq vertices[v]
                      /\ \A d \in steady'[v], i \in 1 .. Len(Relations) :
                             i < loadStep[v] /\ d.relation = Relations[i] => d \in blocks[v]
    BY DEF ReadCovers, ArtistsOf, Ends
  <2>1. met[v] \subseteq met'[v] /\ steady'[v] \subseteq steady[v]
    BY <1>2
  <2>2. Ends(met[v]) \subseteq Ends(met'[v])
    BY <2>1, EndsGrow
  <2>3. QED
    BY <2>1, <2>2 DEF ReadCovers
<1>7. EmbeddingsCoverTheGraph'
  <2>1. \A v \in Versions : embeddings[v] # {} => loadStep[v] \notin Reading
    BY ReadsStoreNothing
  <2>2. \A v \in Versions : embeddings'[v] # {} =>
          /\ embeddings'[v] = embeddings[v] /\ basis'[v] = basis[v]
          /\ steady'[v] = steady[v] /\ met'[v] = met[v]
    BY <1>2, <2>1
  <2>3. QED
    BY <2>2 DEF EmbeddingsCoverTheGraph, ArtistsOf, Ends
<1>8. QED
  BY <1>3, <1>4, <1>5, <1>6, <1>7

(* A step that touches what a load has read, stored or recorded of one dump.  *)
LEMMA OtherDumps ==
    ASSUME LoadInv, LoadTypeOK', NEW v \in Versions, UNCHANGED graph,
           \A w \in Versions \ {v} :
              /\ loadStep'[w] = loadStep[w] /\ vertices'[w] = vertices[w] /\ blocks'[w] = blocks[w]
              /\ embeddings'[w] = embeddings[w] /\ basis'[w] = basis[w]
              /\ steady'[w] = steady[w] /\ met'[w] = met[w],
           loadStep'[v] \in Degree .. Write => embeddings'[v] = {},
           loadStep'[v] \notin 1 .. Write => blocks'[v] = {},
           loadStep'[v] \in Reading =>
              /\ steady'[v] \subseteq graph /\ graph \subseteq met'[v]
              /\ blocks'[v] \subseteq met'[v] /\ vertices'[v] \subseteq Ends(met'[v])
              /\ ArtistsOf(blocks'[v]) \subseteq vertices'[v]
              /\ \A e \in steady'[v], i \in 1 .. Len(Relations) :
                     i < loadStep'[v] /\ e.relation = Relations[i] => e \in blocks'[v],
           embeddings'[v] # {} =>
              /\ steady'[v] \subseteq basis'[v] /\ basis'[v] \subseteq met'[v]
              /\ ArtistsOf(steady'[v]) \subseteq embeddings'[v]
              /\ embeddings'[v] \subseteq ArtistsOf(met'[v])
              /\ ArtistsOf(basis'[v]) \subseteq embeddings'[v]
    PROVE  LoadInv'
<1>1. NothingStoredYet' /\ HistoryOfRead' /\ ReadCovers'
  BY DEF LoadInv, NothingStoredYet, HistoryOfRead, ReadCovers, Reading, Degree, Discover, Write,
         ArtistsOf, Ends
<1>2. EmbeddingsCoverTheGraph'
  BY DEF LoadInv, EmbeddingsCoverTheGraph, ArtistsOf, Ends
<1>3. QED
  BY <1>1, <1>2 DEF LoadInv

(* A job that starts, finds its vectors or goes on to the next stage.         *)
LEMMA PassingStep ==
    ASSUME LoadInv, NEW v \in Versions, NEW step \in {Check, Degree, Returned, Idle},
           loadStep[v] \in {Check, Returned, Idle},
           step = Degree => embeddings[v] = {},
           loadStep' = [loadStep EXCEPT ![v] = step],
           UNCHANGED <<graph, imports, readVars, storeVars, histVars>>
    PROVE  LoadInv'
<1> USE StepOrder DEF LoadInv, readVars, storeVars, histVars
<1>1. step \in Check .. Idle /\ step \notin Reading /\ step \notin 1 .. Write
  BY DEF Reading
<1>2. LoadTypeOK'
  BY <1>1 DEF LoadTypeOK
<1>3. loadStep'[v] = step /\ blocks[v] = {}
  <2>1. loadStep'[v] = step
    BY DEF LoadTypeOK
  <2>2. loadStep[v] \notin 1 .. Write
    OBVIOUS
  <2>3. QED
    BY <2>1, <2>2 DEF NothingStoredYet
<1>4. embeddings[v] # {} =>
              /\ steady[v] \subseteq basis[v] /\ basis[v] \subseteq met[v]
              /\ ArtistsOf(steady[v]) \subseteq embeddings[v]
              /\ embeddings[v] \subseteq ArtistsOf(met[v])
              /\ ArtistsOf(basis[v]) \subseteq embeddings[v]
  BY DEF EmbeddingsCoverTheGraph, ArtistsOf
<1>5. step \in Degree .. Write => step = Degree
  OBVIOUS
<1>6. \A w \in Versions \ {v} : loadStep'[w] = loadStep[w]
  BY DEF LoadTypeOK
<1>7. QED
  BY <1>1, <1>2, <1>3, <1>4, <1>5, <1>6, OtherDumps

(* The vertices of vertex_degree begin the read and its history.              *)
LEMMA ReadDegreesStep ==
    ASSUME LoadInv, NEW v \in Versions, ReadDegrees(v)
    PROVE  LoadInv'
<1> USE StepOrder DEF LoadInv
<1> DEFINE counted == Ends({e \in graph : e.relation \in Counted})
<1>1. /\ loadStep[v] = Degree
      /\ loadStep' = [loadStep EXCEPT ![v] = Discover]
      /\ vertices' = [vertices EXCEPT ![v] = counted]
      /\ steady' = [steady EXCEPT ![v] = graph]
      /\ met' = [met EXCEPT ![v] = graph]
      /\ UNCHANGED <<graph, imports, blocks, embeddings, basis>>
  BY DEF ReadDegrees, storeVars
<1>2. counted \subseteq Ends(graph) /\ counted \subseteq Ends(Edges)
  BY EndsGrow DEF LoadTypeOK
<1> HIDE DEF counted
<1>3. LoadTypeOK'
  BY <1>1, <1>2 DEF LoadTypeOK
<1>4. /\ loadStep'[v] = Discover /\ steady'[v] = graph /\ met'[v] = graph
      /\ vertices'[v] \subseteq Ends(graph)
  BY <1>1, <1>2 DEF LoadTypeOK
<1>5. blocks'[v] = {} /\ embeddings'[v] = {}
  BY <1>1 DEF NothingStoredYet
<1>6. ArtistsOf(blocks'[v]) = {}
  BY <1>5 DEF ArtistsOf, Ends
<1>7. \A w \in Versions \ {v} :
         /\ loadStep'[w] = loadStep[w] /\ vertices'[w] = vertices[w]
         /\ steady'[w] = steady[w] /\ met'[w] = met[w]
  BY <1>1 DEF LoadTypeOK
<1>8. \A i \in 1 .. Len(Relations) : ~(i < loadStep'[v])
  BY <1>4
<1>9. QED
  BY <1>1, <1>3, <1>4, <1>5, <1>6, <1>7, <1>8, OtherDumps

(* The releases of the relations that are not counted.                        *)
LEMMA DiscoverStep ==
    ASSUME LoadInv, NEW v \in Versions, DiscoverReleases(v)
    PROVE  LoadInv'
<1> USE StepOrder DEF LoadInv
<1> DEFINE found == {e.source : e \in {d \in graph : d.relation \notin Counted}}
<1>1. /\ loadStep[v] = Discover
      /\ loadStep' = [loadStep EXCEPT ![v] = 1]
      /\ vertices' = [vertices EXCEPT ![v] = @ \cup found]
      /\ UNCHANGED <<graph, imports, blocks, embeddings, basis, steady, met>>
  BY DEF DiscoverReleases, Discovered, storeVars, histVars
<1>2. found \subseteq Ends(graph)
  BY DEF Ends
<1>3. Ends(graph) \subseteq Ends(Edges)
  BY EndsGrow DEF LoadTypeOK
<1> HIDE DEF found
<1>4. LoadTypeOK'
  BY <1>1, <1>2, <1>3 DEF LoadTypeOK
<1>5. /\ steady[v] \subseteq graph /\ graph \subseteq met[v] /\ vertices[v] \subseteq Ends(met[v])
      /\ embeddings[v] = {} /\ blocks[v] = {}
  BY <1>1, ReadsStoreNothing DEF Reading, NothingStoredYet, HistoryOfRead, ReadCovers
<1>6. Ends(graph) \subseteq Ends(met[v])
  BY <1>5, EndsGrow
<1>7. loadStep'[v] = 1 /\ vertices'[v] \subseteq Ends(met[v])
  BY <1>1, <1>2, <1>5, <1>6 DEF LoadTypeOK
<1>8. ArtistsOf(blocks'[v]) = {}
  BY <1>1, <1>5 DEF ArtistsOf, Ends
<1>9. \A w \in Versions \ {v} : loadStep'[w] = loadStep[w] /\ vertices'[w] = vertices[w]
  BY <1>1 DEF LoadTypeOK
<1>10. \A i \in 1 .. Len(Relations) : ~(i < loadStep'[v])
  BY <1>7
<1>11. QED
  BY <1>1, <1>4, <1>5, <1>7, <1>8, <1>9, <1>10, OtherDumps

(* One relation: its edges, and the artists they name.                        *)
LEMMA ScanStep ==
    ASSUME LoadInv, NEW v \in Versions, ScanRelation(v)
    PROVE  LoadInv'
<1> USE StepOrder DEF LoadInv, ScanRelation, ScanFinding, storeVars, histVars
<1> DEFINE found == ArtistsOf(Scanned(v))
<1>1. /\ Scanned(v) \subseteq graph /\ graph \subseteq Edges
      /\ loadStep[v] \in 1 .. Len(Relations) /\ loadStep[v] \in Reading
  BY DEF Scanned, LoadTypeOK, Reading
<1>2. steady[v] \subseteq graph /\ graph \subseteq met[v]
  BY <1>1 DEF HistoryOfRead
<1>3. found \subseteq Ends(Edges) /\ found \subseteq Ends(met[v])
  <2>1. found \subseteq Ends(Scanned(v))
    BY DEF ArtistsOf
  <2>2. Ends(Scanned(v)) \subseteq Ends(Edges) /\ Ends(Scanned(v)) \subseteq Ends(met[v])
    BY <1>1, <1>2, EndsGrow
  <2>3. QED
    BY <2>1, <2>2
<1>4. /\ loadStep' = [loadStep EXCEPT ![v] = @ + 1]
      /\ blocks' = [blocks EXCEPT ![v] = @ \cup Scanned(v)]
      /\ vertices' = [vertices EXCEPT ![v] = @ \cup found]
      /\ UNCHANGED <<graph, imports, embeddings, basis, steady, met>>
  OBVIOUS
<1> HIDE DEF found, ScanRelation, ScanFinding
<1>5. LoadTypeOK'
  BY <1>1, <1>3, <1>4 DEF LoadTypeOK
<1>6. /\ loadStep'[v] = loadStep[v] + 1 /\ blocks'[v] = blocks[v] \cup Scanned(v)
      /\ vertices'[v] = vertices[v] \cup found
  BY <1>4 DEF LoadTypeOK
<1>7. loadStep'[v] \in 1 .. Write /\ embeddings'[v] = {}
  BY <1>1, <1>4, <1>6 DEF NothingStoredYet
<1>8. blocks'[v] \subseteq met'[v] /\ vertices'[v] \subseteq Ends(met'[v])
  <2>1. blocks[v] \subseteq met[v] /\ vertices[v] \subseteq Ends(met[v]) /\ met' = met
    BY <1>1, <1>4 DEF ReadCovers
  <2>2. QED
    BY <1>1, <1>2, <1>3, <1>6, <2>1
<1>9. ArtistsOf(blocks'[v]) \subseteq vertices'[v]
  <2>1. ArtistsOf(blocks'[v]) = ArtistsOf(blocks[v]) \cup found
    <3>1. ArtistsOf(blocks[v] \cup Scanned(v)) = ArtistsOf(blocks[v]) \cup ArtistsOf(Scanned(v))
      BY EndsOfUnion
    <3>2. QED
      BY <1>6, <3>1 DEF found
  <2>2. ArtistsOf(blocks[v]) \subseteq vertices[v]
    BY <1>1 DEF ReadCovers
  <2>3. QED
    BY <1>6, <2>1, <2>2
<1>10. ASSUME NEW e \in steady'[v], NEW i \in 1 .. Len(Relations), i < loadStep'[v], e.relation = Relations[i]
       PROVE  e \in blocks'[v]
  <2>1. CASE i = loadStep[v]
    BY <1>2, <1>4, <1>6, <1>10, <2>1 DEF Scanned
  <2>2. CASE i < loadStep[v]
    BY <1>1, <1>4, <1>6, <1>10, <2>2 DEF ReadCovers
  <2>3. QED
    BY <1>1, <1>6, <1>10, <2>1, <2>2
<1>11. \A w \in Versions \ {v} :
         loadStep'[w] = loadStep[w] /\ vertices'[w] = vertices[w] /\ blocks'[w] = blocks[w]
  BY <1>4 DEF LoadTypeOK
<1>12. QED
  BY <1>2, <1>4, <1>5, <1>7, <1>8, <1>9, <1>10, <1>11, OtherDumps

(* The vectors that are stored cover what the graph has held all through.     *)
LEMMA WriteStep ==
    ASSUME LoadInv, NEW v \in Versions, WriteEmbeddings(v)
    PROVE  LoadInv'
<1> USE StepOrder DEF LoadInv
<1> DEFINE artists == vertices[v] \cap Artists
<1>1. /\ loadStep[v] = Write
      /\ loadStep' = [loadStep EXCEPT ![v] = Returned]
      /\ embeddings' = [embeddings EXCEPT ![v] = artists]
      /\ basis' = [basis EXCEPT ![v] = IF artists = {} THEN {} ELSE blocks[v]]
      /\ vertices' = [vertices EXCEPT ![v] = {}] /\ blocks' = [blocks EXCEPT ![v] = {}]
      /\ UNCHANGED <<graph, imports, steady, met>>
  BY DEF WriteEmbeddings, WriteRows, Forget, histVars
<1>2. LoadTypeOK'
  <2>1. artists \subseteq Artists /\ blocks[v] \subseteq Edges
    BY DEF LoadTypeOK
  <2> HIDE DEF artists
  <2>2. QED
    BY <1>1, <2>1 DEF LoadTypeOK
<1>3. /\ loadStep[v] \in Reading
      /\ blocks[v] \subseteq met[v] /\ vertices[v] \subseteq Ends(met[v])
      /\ ArtistsOf(blocks[v]) \subseteq vertices[v]
  BY <1>1 DEF ReadCovers, Reading
<1>4. steady[v] \subseteq blocks[v]
  <2> SUFFICES ASSUME NEW e \in steady[v] PROVE e \in blocks[v]
    OBVIOUS
  <2>1. e \in Edges
    BY DEF LoadTypeOK
  <2>2. PICK i \in 1 .. Len(Relations) : e.relation = Relations[i]
    BY <2>1, LoadAssumption
  <2>3. QED
    BY <1>1, <1>3, <2>2 DEF ReadCovers
<1>5. ASSUME artists # {}
      PROVE  /\ ArtistsOf(steady[v]) \subseteq artists /\ artists \subseteq ArtistsOf(met[v])
             /\ ArtistsOf(blocks[v]) \subseteq artists
  <2>1. ArtistsOf(steady[v]) \subseteq ArtistsOf(blocks[v])
    BY <1>4, EndsGrow
  <2>2. QED
    BY <1>3, <2>1 DEF ArtistsOf
<1>6. /\ loadStep'[v] = Returned /\ embeddings'[v] = artists /\ blocks'[v] = {}
      /\ artists # {} => basis'[v] = blocks[v]
  BY <1>1 DEF LoadTypeOK
<1> HIDE DEF artists
<1>7. embeddings'[v] # {} =>
              /\ steady'[v] \subseteq basis'[v] /\ basis'[v] \subseteq met'[v]
              /\ ArtistsOf(steady'[v]) \subseteq embeddings'[v]
              /\ embeddings'[v] \subseteq ArtistsOf(met'[v])
              /\ ArtistsOf(basis'[v]) \subseteq embeddings'[v]
  BY <1>1, <1>3, <1>4, <1>5, <1>6
<1>8. \A w \in Versions \ {v} :
              /\ loadStep'[w] = loadStep[w] /\ vertices'[w] = vertices[w] /\ blocks'[w] = blocks[w]
              /\ embeddings'[w] = embeddings[w] /\ basis'[w] = basis[w]
  BY <1>1 DEF LoadTypeOK
<1>9. loadStep'[v] \notin Degree .. Write /\ loadStep'[v] \notin Reading
  BY <1>6 DEF Reading
<1>10. QED
  BY <1>1, <1>2, <1>6, <1>7, <1>8, <1>9, OtherDumps

(* A load that fails leaves the stored vectors and their history alone.       *)
LEMMA FailStep ==
    ASSUME LoadInv, NEW v \in Versions, LoadFails(v)
    PROVE  LoadInv'
<1> USE StepOrder DEF LoadInv
<1>1. /\ loadStep' = [loadStep EXCEPT ![v] = Idle]
      /\ vertices' = [vertices EXCEPT ![v] = {}] /\ blocks' = [blocks EXCEPT ![v] = {}]
      /\ IF embeddings[v] = {}
           THEN steady' = [steady EXCEPT ![v] = {}] /\ met' = [met EXCEPT ![v] = {}]
           ELSE UNCHANGED <<steady, met>>
      /\ UNCHANGED <<graph, imports, embeddings, basis>>
  BY DEF LoadFails, Forget, histVars, storeVars
<1>2. LoadTypeOK'
  <2>1. Idle \in Check .. Idle
    OBVIOUS
  <2>2. steady' \in [Versions -> SUBSET Edges] /\ met' \in [Versions -> SUBSET Edges]
    BY <1>1 DEF LoadTypeOK
  <2>3. QED
    BY <1>1, <2>1, <2>2 DEF LoadTypeOK
<1>3. /\ loadStep'[v] = Idle /\ blocks'[v] = {}
      /\ \A w \in Versions \ {v} :
              /\ loadStep'[w] = loadStep[w] /\ vertices'[w] = vertices[w] /\ blocks'[w] = blocks[w]
              /\ steady'[w] = steady[w] /\ met'[w] = met[w]
  BY <1>1 DEF LoadTypeOK
<1>4. embeddings'[v] # {} =>
              /\ steady'[v] \subseteq basis'[v] /\ basis'[v] \subseteq met'[v]
              /\ ArtistsOf(steady'[v]) \subseteq embeddings'[v]
              /\ embeddings'[v] \subseteq ArtistsOf(met'[v])
              /\ ArtistsOf(basis'[v]) \subseteq embeddings'[v]
  BY <1>1 DEF EmbeddingsCoverTheGraph, ArtistsOf
<1>5. loadStep'[v] \notin Degree .. Write /\ loadStep'[v] \notin Reading
  BY <1>3 DEF Reading
<1>6. QED
  BY <1>1, <1>2, <1>3, <1>4, <1>5, OtherDumps

(* Every step of the loads and of the importer preserves the load's invariant. *)
LEMMA LoadInvStep == LoadInv /\ LoadNext => LoadInv'
<1> SUFFICES ASSUME LoadInv, LoadNext PROVE LoadInv'
  OBVIOUS
<1>1. CASE \E e \in Edges : Import(e)
  BY <1>1, ImportStep
<1>2. CASE UNCHANGED loadVars
  <2>1. UNCHANGED <<graph, imports, loadStep, vertices, blocks, embeddings, basis, steady, met>>
    BY <1>2 DEF loadVars, readVars, storeVars, histVars
  <2>2. LoadTypeOK' /\ NothingStoredYet' /\ HistoryOfRead'
    BY <2>1 DEF LoadInv, LoadTypeOK, NothingStoredYet, HistoryOfRead
  <2>3. ReadCovers' /\ EmbeddingsCoverTheGraph'
    BY <2>1 DEF LoadInv, ReadCovers, EmbeddingsCoverTheGraph, ArtistsOf, Ends
  <2>4. QED
    BY <2>2, <2>3 DEF LoadInv
<1>3. ASSUME NEW v \in Versions, loadStep[v] = Idle, loadStep' = [loadStep EXCEPT ![v] = Check],
             UNCHANGED <<graph, imports, readVars, storeVars, histVars>>
      PROVE  LoadInv'
  <2>1. Check # Degree
    BY StepOrder
  <2>2. QED
    BY <1>3, <2>1, PassingStep
<1>4. ASSUME NEW v \in Versions, loadStep[v] = Returned, loadStep' = [loadStep EXCEPT ![v] = Idle],
             UNCHANGED <<graph, imports, readVars, storeVars, histVars>>
      PROVE  LoadInv'
  <2>1. Idle # Degree
    BY StepOrder
  <2>2. QED
    BY <1>4, <2>1, PassingStep
<1>5. ASSUME NEW v \in Versions, CheckLoaded(v) PROVE LoadInv'
  <2>1. CASE embeddings[v] = {}
    BY <1>5, <2>1, PassingStep DEF CheckLoaded, AlreadyLoaded
  <2>2. CASE embeddings[v] # {}
    <3>1. Returned # Degree
      BY StepOrder
    <3>2. QED
      BY <1>5, <2>2, <3>1, PassingStep DEF CheckLoaded, AlreadyLoaded
  <2>3. QED
    BY <2>1, <2>2
<1>6. ASSUME NEW v \in Versions, KeyUnknown(v) PROVE LoadInv'
  BY <1>6, FailStep DEF KeyUnknown
<1>7. QED
  BY <1>1, <1>2, <1>3, <1>4, <1>5, <1>6, ReadDegreesStep, DiscoverStep, ScanStep, WriteStep, FailStep
  DEF LoadNext, Load

-----------------------------------------------------------------------------
(* The similar-artist stage.                                                 *)

(* A step of the job of v that leaves the database and the deployment alone.  *)
LEMMA JobKeepsInv ==
    ASSUME StageInv, StageTypeOK', NEW v \in Releases, UNCHANGED <<deployed, dbVars>>,
           \A w \in Releases \ {v} :
              job'[w] = job[w] /\ build'[w] = build[w] /\ block'[w] = block[w] /\ spool'[w] = spool[w],
           VersionIsSound(v)'
    PROVE  StageInv'
<1>1. UNCHANGED <<release, rows, current, displaced, rotation>>
  BY DEF dbVars
<1>2. ASSUME NEW w \in Releases \ {v} PROVE VersionIsSound(w)'
  BY <1>1 DEF StageInv, VersionIsSound, SpoolIsSound, JobIsSound, BuildFor, AsPromised, ExactBefore,
              ExactInFull, ExactBlocks
<1>3. KeptReleases' /\ StoredListsAreExact' /\ OnlyTwoAreKept'
  BY <1>1 DEF StageInv, KeptReleases, StoredListsAreExact, OnlyTwoAreKept, Published, Stored
<1>4. QED
  BY <1>2, <1>3 DEF StageInv

(* A job may end at any point at which no later job would take up a spool of  *)
(* its build that does not hold what it promises.                             *)
LEMMA EndKeepsInv ==
    ASSUME StageInv, NEW v \in Releases, EndJob(v), UNCHANGED <<deployed, dbVars>>,
           deaths' \in 0 .. MaxDeaths,
           NEW s \in Spools, spool' = [spool EXCEPT ![v] = s],
           release[v] # "published" => s.meta <= deployed /\ (s.meta = deployed => AsPromised(s))
    PROVE  StageInv'
<1> USE ReleaseAssumption DEF StageInv
<1>1. /\ job' = [job EXCEPT ![v] = "idle"]
      /\ block' = [block EXCEPT ![v] = 1]
      /\ build' = [build EXCEPT ![v] = 1]
      /\ UNCHANGED <<deployed, release, rows, current, publishedAt, publications, displaced, rotation,
                     failures, reverts>>
  BY DEF EndJob, Goto, dbVars
<1>2. StageTypeOK'
  <2>1. 1 \in 1 .. Builds /\ 1 \in 1 .. NumBlocks + 1 /\ "idle" \in Steps
    BY DEF Steps
  <2>2. QED
    BY <1>1, <2>1 DEF StageTypeOK
<1>3. job'[v] = "idle" /\ build'[v] = 1 /\ block'[v] = 1 /\ spool'[v] = s /\ deployed \in Nat /\ 1 <= deployed
  BY <1>1 DEF StageTypeOK
<1>4. JobIsSound(v)'
  BY <1>1, <1>3 DEF JobIsSound
<1>5. SpoolIsSound(v)'
  BY <1>1, <1>3 DEF SpoolIsSound, BuildFor, AsPromised, ExactBefore, ExactInFull, ExactBlocks
<1>6. \A w \in Releases \ {v} :
         job'[w] = job[w] /\ build'[w] = build[w] /\ block'[w] = block[w] /\ spool'[w] = spool[w]
  BY <1>1 DEF StageTypeOK
<1>7. QED
  BY <1>2, <1>4, <1>5, <1>6, JobKeepsInv DEF VersionIsSound

\* A job of build b may go on to a step with block n and the spool s.
ReadyFor(step, b, n, s) ==
    /\ step \in Steps \ {"idle", "publish", "remove"}
    /\ s.meta <= b /\ (s.meta = b => AsPromised(s))
    /\ step = "open" => n = 1
    /\ step # "open" => s.meta = b
    /\ step = "compute" => n \in Blocks /\ ExactBefore(s, n)
    /\ step = "after" => n \in Blocks /\ ExactBefore(s, n + 1)
    /\ step \in {"complete", "unlink", "write"} => ExactInFull(s)

(* A step of a job from one point to the next, on its own files and memory.   *)
LEMMA GoesOnKeepsInv ==
    ASSUME StageInv, NEW v \in Releases, UNCHANGED <<deployed, dbVars, deaths>>,
           NEW step, NEW b \in 1 .. Builds, NEW n \in 1 .. NumBlocks + 1, NEW s \in Spools,
           Goto(v, step), build' = [build EXCEPT ![v] = b], block' = [block EXCEPT ![v] = n],
           spool' = [spool EXCEPT ![v] = s],
           release[v] # "published", b <= deployed, ReadyFor(step, b, n, s)
    PROVE  StageInv'
<1> USE ReleaseAssumption DEF StageInv, ReadyFor
<1>1. /\ job' = [job EXCEPT ![v] = step]
      /\ UNCHANGED <<deployed, release, rows, current, publishedAt, publications, displaced, rotation,
                     failures, reverts, deaths>>
  BY DEF Goto, dbVars
<1>2. StageTypeOK'
  BY <1>1 DEF StageTypeOK
<1>3. job'[v] = step /\ build'[v] = b /\ block'[v] = n /\ spool'[v] = s
  BY <1>1 DEF StageTypeOK
<1>4. JobIsSound(v)'
  BY <1>1, <1>3 DEF JobIsSound, Steps, ExactBefore, ExactInFull, ExactBlocks, Blocks
<1>5. SpoolIsSound(v)'
  BY <1>1, <1>3 DEF SpoolIsSound, BuildFor, AsPromised, ExactBefore, ExactInFull, ExactBlocks
<1>6. \A w \in Releases \ {v} :
         job'[w] = job[w] /\ build'[w] = build[w] /\ block'[w] = block[w] /\ spool'[w] = spool[w]
  BY <1>1 DEF StageTypeOK
<1>7. QED
  BY <1>2, <1>4, <1>5, <1>6, JobKeepsInv DEF VersionIsSound

(* What the invariant says of a job under way.                                *)
LEMMA JobFacts ==
    ASSUME StageInv, NEW v \in Releases
    PROVE  /\ build[v] \in 1 .. Builds /\ deployed \in 1 .. Builds /\ build[v] <= deployed
           /\ block[v] \in 1 .. NumBlocks + 1 /\ spool[v] \in Spools
           /\ build = [build EXCEPT ![v] = build[v]]
           /\ block = [block EXCEPT ![v] = block[v]]
           /\ spool = [spool EXCEPT ![v] = spool[v]]
           /\ release[v] # "published" =>
                 spool[v].meta <= BuildFor(v) /\ (spool[v].meta = BuildFor(v) => AsPromised(spool[v]))
           /\ job[v] # "idle" => BuildFor(v) = build[v]
           /\ NumBlocks \in Nat /\ 1 \in Blocks
BY ReleaseAssumption DEF StageInv, StageTypeOK, VersionIsSound, SpoolIsSound, JobIsSound, BuildFor, Blocks

(* A death leaves the files as they are.                                      *)
LEMMA DieStep ==
    ASSUME StageInv, NEW v \in Releases, Dies(v), UNCHANGED <<deployed, spool, dbVars>>
    PROVE  StageInv'
<1>1. deaths' \in 0 .. MaxDeaths
  BY ReleaseAssumption DEF StageInv, StageTypeOK, Dies
<1>2. spool[v] \in Spools /\ spool[v].meta \in 0 .. Builds
  BY JobFacts DEF Spools
<1>3. release[v] # "published" =>
        spool[v].meta <= deployed /\ (spool[v].meta = deployed => AsPromised(spool[v]))
  BY <1>2, JobFacts DEF BuildFor
<1>4. spool' = [spool EXCEPT ![v] = spool[v]]
  BY JobFacts
<1>5. EndJob(v) /\ UNCHANGED <<deployed, dbVars>>
  BY DEF Dies
<1>6. QED
  BY <1>1, <1>2, <1>3, <1>4, <1>5, EndKeepsInv

(* A new build is deployed: the spools of the builds before it are refused.   *)
LEMMA DeployStep ==
    ASSUME StageInv, NEW b \in 1 .. Builds, Deploy(b)
    PROVE  StageInv'
<1> USE ReleaseAssumption DEF StageInv
<1>1. /\ deployed' = b /\ deployed < b /\ deployed \in 1 .. Builds
      /\ UNCHANGED <<job, build, block, spool, release, rows, current, publishedAt, publications,
                     displaced, rotation, failures, reverts, deaths>>
  BY DEF Deploy, dbVars, StageTypeOK
<1>2. StageTypeOK'
  BY <1>1 DEF StageTypeOK
<1>3. ASSUME NEW v \in Releases PROVE VersionIsSound(v)'
  <2>1. spool[v].meta \in 0 .. Builds /\ build[v] \in 1 .. Builds
    BY DEF StageTypeOK, Spools
  <2>2. JobIsSound(v)'
    BY <1>1, <2>1 DEF VersionIsSound, JobIsSound, ExactBefore, ExactInFull, ExactBlocks
  <2>3. SpoolIsSound(v)'
    BY <1>1, <2>1 DEF VersionIsSound, SpoolIsSound, BuildFor, AsPromised, ExactBefore, ExactInFull, ExactBlocks
  <2>4. QED
    BY <2>2, <2>3 DEF VersionIsSound
<1>4. KeptReleases' /\ StoredListsAreExact' /\ OnlyTwoAreKept'
  BY <1>1 DEF KeptReleases, StoredListsAreExact, OnlyTwoAreKept, Published, Stored
<1>5. QED
  BY <1>2, <1>3, <1>4

(* A job begins with the build that is deployed.                              *)
LEMMA CheckPublishedStep ==
    ASSUME StageInv, NEW v \in Releases, NEW hasVectors \in BOOLEAN, CheckPublished(v, hasVectors)
    PROVE  StageInv'
<1>1. CASE release[v] = "published" \/ ~hasVectors
  <2>1. UNCHANGED stageVars
    BY <1>1 DEF CheckPublished, stageVars, jobVars
  <2>2. UNCHANGED <<deployed, job, build, block, spool, release, rows, current, publishedAt,
                    publications, displaced, rotation, failures, reverts, deaths>>
    BY <2>1 DEF stageVars, jobVars, dbVars
  <2>3. QED
    BY <2>2 DEF StageInv, StageTypeOK, VersionIsSound, SpoolIsSound, JobIsSound, BuildFor, AsPromised,
       ExactBefore, ExactInFull, ExactBlocks, KeptReleases, StoredListsAreExact, OnlyTwoAreKept,
       Published, Stored
<1>2. CASE ~(release[v] = "published" \/ ~hasVectors)
  <2>1. /\ job[v] = "idle" /\ release[v] # "published" /\ Goto(v, "open")
        /\ build' = [build EXCEPT ![v] = deployed]
        /\ UNCHANGED <<deployed, block, spool, dbVars, deaths>>
    BY <1>2 DEF CheckPublished
  <2>2. /\ spool[v].meta <= deployed
        /\ spool[v].meta = deployed => AsPromised(spool[v])
    BY <2>1, JobFacts DEF BuildFor
  <2>3. block[v] = 1
    BY <2>1 DEF StageInv, VersionIsSound, JobIsSound
  <2>4. ReadyFor("open", deployed, block[v], spool[v])
    BY <2>2, <2>3 DEF ReadyFor, Steps
  <2>5. /\ block' = [block EXCEPT ![v] = block[v]] /\ spool' = [spool EXCEPT ![v] = spool[v]]
        /\ deployed \in 1 .. Builds /\ deployed <= deployed
        /\ block[v] \in 1 .. NumBlocks + 1 /\ spool[v] \in Spools
    BY <2>1, JobFacts
  <2>6. QED
    BY <2>1, <2>4, <2>5, GoesOnKeepsInv
<1>3. QED
  BY <1>1, <1>2

(* A spool that is complete for this build goes to the database as it is.     *)
LEMMA ReturnCompleteStep ==
    ASSUME StageInv, NEW v \in Releases, ReturnComplete(v)
    PROVE  StageInv'
<1>1. /\ job[v] = "open" /\ spool[v].meta = build[v] /\ spool[v].complete /\ Goto(v, "write")
      /\ UNCHANGED <<deployed, build, block, spool, dbVars, deaths>>
  BY DEF ReturnComplete, ReturnIf, SameIdentity
<1>2. release[v] # "published"
  BY <1>1 DEF StageInv, VersionIsSound, JobIsSound
<1>3. spool[v].meta <= build[v] /\ AsPromised(spool[v]) /\ ExactInFull(spool[v])
  BY <1>1, <1>2, JobFacts DEF AsPromised
<1>4. ReadyFor("write", build[v], block[v], spool[v])
  BY <1>1, <1>3 DEF ReadyFor, Steps
<1>5. /\ build' = [build EXCEPT ![v] = build[v]] /\ block' = [block EXCEPT ![v] = block[v]]
      /\ spool' = [spool EXCEPT ![v] = spool[v]]
      /\ build[v] \in 1 .. Builds /\ build[v] <= deployed
      /\ block[v] \in 1 .. NumBlocks + 1 /\ spool[v] \in Spools
  BY <1>1, JobFacts
<1>6. QED
  BY <1>1, <1>2, <1>4, <1>5, GoesOnKeepsInv

(* A resumed job goes on where its checkpoint says, and no further.           *)
LEMMA ResumeStep ==
    ASSUME StageInv, NEW v \in Releases, Resume(v)
    PROVE  StageInv'
<1> DEFINE n == spool[v].checkpoint
<1>1. /\ job[v] = "open" /\ spool[v].meta = build[v] /\ n # 0 /\ Goto(v, "compute")
      /\ block' = [block EXCEPT ![v] = n]
      /\ UNCHANGED <<deployed, build, spool, dbVars, deaths>>
  BY DEF Resume, SameIdentity
<1>2. release[v] # "published"
  BY <1>1 DEF StageInv, VersionIsSound, JobIsSound
<1>3. spool[v].meta <= build[v] /\ AsPromised(spool[v]) /\ ExactBefore(spool[v], n)
  BY <1>1, <1>2, JobFacts DEF AsPromised
<1>4. n \in Blocks /\ n \in 1 .. NumBlocks + 1
  BY <1>1, JobFacts DEF Spools, Blocks
<1>5. ReadyFor("compute", build[v], n, spool[v])
  BY <1>1, <1>3, <1>4 DEF ReadyFor, Steps
<1>6. /\ build' = [build EXCEPT ![v] = build[v]] /\ spool' = [spool EXCEPT ![v] = spool[v]]
      /\ build[v] \in 1 .. Builds /\ build[v] <= deployed /\ spool[v] \in Spools
  BY <1>1, JobFacts
<1> HIDE DEF n
<1>7. QED
  BY <1>1, <1>2, <1>4, <1>5, <1>6, GoesOnKeepsInv

(* Starting a spool over, in whole or in part, promises nothing: until the    *)
(* new meta.json is in place the old one is of an earlier build, or there is  *)
(* no checkpoint.                                                             *)
LEMMA ResetSpool ==
    ASSUME NEW s \in Spools, NEW b \in 1 .. Builds, NEW n \in 1 .. ResetSteps,
           s.meta <= b, ~(s.meta = b /\ (s.complete \/ s.checkpoint # 0))
    PROVE  LET t == AfterReset(s, b, n)
           IN  /\ t \in Spools /\ t.meta <= b /\ (t.meta = b => AsPromised(t))
               /\ n = ResetSteps => t.meta = b /\ ~t.complete /\ t.checkpoint = 0
<1> DEFINE t == AfterReset(s, b, n)
<1> USE ReleaseAssumption
<1>1. n \in 1 .. 6
  BY DEF ResetSteps
<1>2. /\ s.positions \in Contents /\ s.scores \in Contents /\ s.meta \in 0 .. Builds
      /\ s.complete \in BOOLEAN /\ s.checkpoint \in 0 .. NumBlocks
  BY DEF Spools
<1>3. Absent \in Contents /\ Zeros \in Contents
  BY DEF Contents, Zeros
<1>4. /\ t.positions = IF n < 1 THEN s.positions ELSE IF n < 4 THEN Absent ELSE Zeros
      /\ t.scores = IF n < 2 THEN s.scores ELSE IF n < 5 THEN Absent ELSE Zeros
      /\ t.checkpoint = IF n < 3 THEN s.checkpoint ELSE 0
      /\ t.meta = IF n < 6 THEN s.meta ELSE b
      /\ t.complete = IF n < 6 THEN s.complete ELSE FALSE
  BY DEF AfterReset
<1>5. t \in Spools
  <2>1. t.complete \in BOOLEAN
    BY <1>2, <1>4
  <2>2. /\ t.positions \in Contents /\ t.scores \in Contents
        /\ t.meta \in 0 .. Builds /\ t.checkpoint \in 0 .. NumBlocks
    BY <1>1, <1>2, <1>3, <1>4
  <2>3. t = [positions |-> t.positions, scores |-> t.scores, checkpoint |-> t.checkpoint,
             meta |-> t.meta, complete |-> t.complete]
    BY DEF AfterReset
  <2>4. QED
    BY <2>1, <2>2, <2>3 DEF Spools
<1>6. t.meta <= b
  BY <1>1, <1>2, <1>4
<1>7. t.meta = b => ~t.complete /\ t.checkpoint = 0
  BY <1>1, <1>2, <1>4
<1>8. n = ResetSteps => t.meta = b
  BY <1>4 DEF ResetSteps
<1> HIDE DEF t
<1>9. t.meta = b => AsPromised(t)
  BY <1>7 DEF AsPromised
<1>10. QED
  BY <1>5, <1>6, <1>7, <1>8, <1>9 DEF t

(* The job that starts its spool over begins with the first block.            *)
LEMMA ResetStep ==
    ASSUME StageInv, NEW v \in Releases, NEW n \in 1 .. ResetSteps, Reset(v, n)
    PROVE  StageInv'
<1> DEFINE s == AfterReset(spool[v], build[v], n)
<1>1. /\ job[v] = "open" /\ spool' = [spool EXCEPT ![v] = s] /\ UNCHANGED <<deployed, dbVars>>
      /\ ~(spool[v].meta = build[v] /\ (spool[v].complete \/ spool[v].checkpoint # 0))
      /\ IF n = ResetSteps
           THEN Goto(v, "compute") /\ UNCHANGED <<build, block, deaths>>
           ELSE Dies(v)
  BY DEF Reset, SameIdentity, StageInv, StageTypeOK
<1>2. release[v] # "published"
  BY <1>1 DEF StageInv, VersionIsSound, JobIsSound
<1>3. spool[v].meta <= build[v] /\ build[v] <= deployed /\ build[v] \in 1 .. Builds /\ deployed \in 1 .. Builds
  BY <1>1, <1>2, JobFacts
<1>4. /\ s \in Spools /\ s.meta <= build[v] /\ (s.meta = build[v] => AsPromised(s))
      /\ n = ResetSteps => s.meta = build[v]
  BY <1>1, <1>3, JobFacts, ResetSpool
<1> HIDE DEF s
<1>5. CASE n = ResetSteps
  <2>1. block[v] = 1
    BY <1>1 DEF StageInv, VersionIsSound, JobIsSound
  <2>2. block[v] \in Blocks /\ ExactBefore(s, block[v])
    BY <2>1, JobFacts DEF ExactBefore
  <2>3. ReadyFor("compute", build[v], block[v], s)
    BY <1>4, <1>5, <2>2 DEF ReadyFor, Steps
  <2>4. /\ build' = [build EXCEPT ![v] = build[v]] /\ block' = [block EXCEPT ![v] = block[v]]
        /\ block[v] \in 1 .. NumBlocks + 1
    BY <1>1, <1>5, JobFacts
  <2>5. QED
    BY <1>1, <1>2, <1>3, <1>4, <1>5, <2>3, <2>4, GoesOnKeepsInv
<1>6. CASE n # ResetSteps
  <2>1. EndJob(v) /\ deaths' \in 0 .. MaxDeaths
    BY <1>1, <1>6, ReleaseAssumption DEF Dies, StageInv, StageTypeOK
  <2>2. s.meta \in 0 .. Builds
    BY <1>4 DEF Spools
  <2>3. s.meta <= deployed /\ (s.meta = deployed => AsPromised(s))
    BY <1>3, <1>4, <2>2
  <2>4. QED
    BY <1>1, <1>4, <2>1, <2>3, EndKeepsInv
<1>7. QED
  BY <1>5, <1>6

(* A block written to a spool is one more exact block, and takes nothing back. *)
LEMMA WriteBlockSpool ==
    ASSUME NEW s \in Spools, NEW b \in Blocks, NEW both \in BOOLEAN,
           s.positions # Absent, both => s.scores # Absent
    PROVE  LET t == [s EXCEPT !.positions = @ \cup {b}, !.scores = IF both THEN @ \cup {b} ELSE @]
           IN  /\ t \in Spools /\ t.meta = s.meta
               /\ AsPromised(s) => AsPromised(t)
               /\ both /\ ExactBefore(s, b) => ExactBefore(t, b + 1)
<1> DEFINE p == s.positions \cup {b}
           q == IF both THEN s.scores \cup {b} ELSE s.scores
           t == [s EXCEPT !.positions = p, !.scores = q]
<1>1. /\ s.positions \in Contents /\ s.scores \in Contents
  BY DEF Spools
<1>2. p \in Contents /\ q \in Contents
  BY <1>1 DEF Contents
<1> HIDE DEF p, q
<1>3. t \in Spools /\ t.meta = s.meta /\ t.complete = s.complete /\ t.checkpoint = s.checkpoint
  BY <1>2 DEF Spools
<1>4. t.positions = p /\ t.scores = q
  BY DEF Spools
<1> HIDE DEF t
<1>5. ExactBlocks(s) \subseteq ExactBlocks(t)
  BY <1>4 DEF ExactBlocks, p, q
<1>6. ExactInFull(s) => ExactInFull(t)
  BY <1>4 DEF ExactInFull, p, q
<1>7. AsPromised(s) => AsPromised(t)
  BY <1>3, <1>5, <1>6 DEF AsPromised, ExactBefore
<1>8. ASSUME both, ExactBefore(s, b) PROVE ExactBefore(t, b + 1)
  <2>1. b \in ExactBlocks(t) /\ b \in Nat
    BY <1>4, <1>8, ReleaseAssumption DEF ExactBlocks, p, q, Blocks
  <2>2. 1 .. b + 1 - 1 \subseteq 1 .. b - 1 \cup {b}
    BY <2>1
  <2>3. QED
    BY <1>5, <1>8, <2>1, <2>2 DEF ExactBefore
<1>9. QED
  BY <1>3, <1>7, <1>8 DEF t, p, q

(* The job writes the block it is at, or dies between the two files.          *)
LEMMA WriteBlockStep ==
    ASSUME StageInv, NEW v \in Releases, NEW both \in BOOLEAN, WriteBlock(v, both)
    PROVE  StageInv'
<1> DEFINE s == [spool[v] EXCEPT !.positions = @ \cup {block[v]},
                                 !.scores = IF both THEN @ \cup {block[v]} ELSE @]
<1>1. /\ job[v] = "compute" /\ spool' = [spool EXCEPT ![v] = s] /\ UNCHANGED <<deployed, dbVars>>
      /\ spool[v].positions # Absent /\ (both => spool[v].scores # Absent)
      /\ IF both THEN Goto(v, "after") /\ UNCHANGED <<build, block, deaths>> ELSE Dies(v)
  BY DEF WriteBlock
<1>2. /\ release[v] # "published" /\ spool[v].meta = build[v]
      /\ block[v] \in Blocks /\ ExactBefore(spool[v], block[v])
  BY <1>1 DEF StageInv, VersionIsSound, JobIsSound
<1>3. /\ build[v] \in 1 .. Builds /\ deployed \in 1 .. Builds /\ build[v] <= deployed
      /\ spool[v] \in Spools /\ AsPromised(spool[v]) /\ block[v] \in 1 .. NumBlocks + 1
  BY <1>1, <1>2, JobFacts
<1>4. /\ s \in Spools /\ s.meta = build[v] /\ AsPromised(s)
      /\ both => ExactBefore(s, block[v] + 1)
  BY <1>1, <1>2, <1>3, WriteBlockSpool
<1> HIDE DEF s
<1>5. CASE both
  <2>1. ReadyFor("after", build[v], block[v], s)
    BY <1>2, <1>3, <1>4, <1>5 DEF ReadyFor, Steps
  <2>2. build' = [build EXCEPT ![v] = build[v]] /\ block' = [block EXCEPT ![v] = block[v]]
    BY <1>1, <1>5, JobFacts
  <2>3. QED
    BY <1>1, <1>2, <1>3, <1>4, <1>5, <2>1, <2>2, GoesOnKeepsInv
<1>6. CASE ~both
  <2>1. EndJob(v) /\ deaths' \in 0 .. MaxDeaths
    BY <1>1, <1>6, ReleaseAssumption DEF Dies, StageInv, StageTypeOK
  <2>2. s.meta <= deployed
    BY <1>3, <1>4
  <2>3. QED
    BY <1>1, <1>4, <2>1, <2>2, EndKeepsInv
<1>7. QED
  BY <1>5, <1>6

(* What a new checkpoint leaves alone.                                        *)
LEMMA CheckpointSpool ==
    ASSUME NEW s \in Spools, NEW n \in 0 .. NumBlocks
    PROVE  LET t == [s EXCEPT !.checkpoint = n]
           IN  /\ t \in Spools /\ t.meta = s.meta /\ t.complete = s.complete /\ t.checkpoint = n
               /\ ExactInFull(t) <=> ExactInFull(s)
               /\ ExactBlocks(t) = ExactBlocks(s)
BY DEF Spools, ExactInFull, ExactBlocks

(* And what a meta.json that says complete does.                              *)
LEMMA CompleteSpool ==
    ASSUME NEW s \in Spools
    PROVE  LET t == [s EXCEPT !.complete = TRUE]
           IN  /\ t \in Spools /\ t.meta = s.meta /\ t.checkpoint = s.checkpoint
               /\ ExactInFull(t) <=> ExactInFull(s)
               /\ ExactBlocks(t) = ExactBlocks(s)
BY DEF Spools, ExactInFull, ExactBlocks

(* A checkpoint that is saved after a block names the next one.               *)
LEMMA AfterBlockStep ==
    ASSUME StageInv, NEW v \in Releases, AfterBlock(v)
    PROVE  StageInv'
<1> USE ReleaseAssumption
<1>1. /\ job[v] = "after" /\ UNCHANGED <<deployed, build, dbVars, deaths>>
      /\ block' = [block EXCEPT ![v] = @ + 1]
      /\ Goto(v, IF block[v] = NumBlocks THEN "complete" ELSE "compute")
      /\ \/ UNCHANGED spool
         \/ block[v] < NumBlocks /\ spool' = [spool EXCEPT ![v].checkpoint = block[v] + 1]
  BY DEF AfterBlock, AfterBlockSaving
<1>2. /\ release[v] # "published" /\ spool[v].meta = build[v]
      /\ block[v] \in Blocks /\ ExactBefore(spool[v], block[v] + 1)
  BY <1>1 DEF StageInv, VersionIsSound, JobIsSound
<1>3. /\ build[v] \in 1 .. Builds /\ build[v] <= deployed /\ spool[v] \in Spools
      /\ AsPromised(spool[v]) /\ spool[v].meta <= build[v]
      /\ build' = [build EXCEPT ![v] = build[v]]
  BY <1>1, <1>2, JobFacts
<1>4. block[v] + 1 \in 1 .. NumBlocks + 1 /\ block' = [block EXCEPT ![v] = block[v] + 1]
  BY <1>1, <1>2 DEF Blocks
<1> DEFINE step == IF block[v] = NumBlocks THEN "complete" ELSE "compute"
<1>5. Goto(v, step)
  BY <1>1
<1>6. ASSUME NEW s \in Spools, spool' = [spool EXCEPT ![v] = s], s.meta = build[v], AsPromised(s),
             ExactBefore(s, block[v] + 1)
      PROVE  StageInv'
  <2>1. step = "compute" => block[v] + 1 \in Blocks
    BY <1>2 DEF Blocks
  <2>2. ASSUME step = "complete" PROVE ExactInFull(s)
    <3>1. Blocks \subseteq ExactBlocks(s)
      BY <1>2, <1>6, <2>2 DEF ExactBefore, Blocks
    <3>2. s.positions \in Contents /\ s.scores \in Contents /\ 1 \in Blocks
      BY DEF Spools, Blocks
    <3>3. QED
      BY <3>1, <3>2 DEF ExactBlocks, ExactInFull, Contents, Absent
  <2>3. step \in {"complete", "compute"}
    OBVIOUS
  <2> HIDE DEF step
  <2>4. ReadyFor(step, build[v], block[v] + 1, s)
    BY <1>3, <1>6, <2>1, <2>2, <2>3 DEF ReadyFor, Steps
  <2>5. build[v] \in 1 .. Builds /\ build[v] <= deployed /\ UNCHANGED <<deployed, dbVars, deaths>>
    BY <1>1, <1>3
  <2>6. QED
    BY <1>2, <1>3, <1>4, <1>5, <1>6, <2>4, <2>5, GoesOnKeepsInv
<1>7. CASE UNCHANGED spool
  BY <1>2, <1>3, <1>6, <1>7, JobFacts
<1>8. CASE block[v] < NumBlocks /\ spool' = [spool EXCEPT ![v].checkpoint = block[v] + 1]
  <2> DEFINE s == [spool[v] EXCEPT !.checkpoint = block[v] + 1]
  <2>1. block[v] + 1 \in 0 .. NumBlocks
    BY <1>2, <1>8 DEF Blocks
  <2>2. /\ s \in Spools /\ s.meta = spool[v].meta /\ s.complete = spool[v].complete
        /\ s.checkpoint = block[v] + 1 /\ (ExactInFull(s) <=> ExactInFull(spool[v]))
        /\ ExactBlocks(s) = ExactBlocks(spool[v])
    BY <1>3, <2>1, CheckpointSpool
  <2>3. spool' = [spool EXCEPT ![v] = s]
    BY <1>8
  <2> HIDE DEF s
  <2>4. AsPromised(s) /\ ExactBefore(s, block[v] + 1)
    BY <1>2, <1>3, <2>2 DEF AsPromised, ExactBefore
  <2>5. QED
    BY <1>2, <1>6, <2>2, <2>3, <2>4
<1>9. QED
  BY <1>1, <1>7, <1>8

(* meta.json says complete when every block is there.                         *)
LEMMA CompleteStep ==
    ASSUME StageInv, NEW v \in Releases, Complete(v)
    PROVE  StageInv'
<1>1. /\ job[v] = "complete" /\ UNCHANGED <<deployed, build, block, dbVars, deaths>>
      /\ spool' = [spool EXCEPT ![v].complete = TRUE] /\ Goto(v, "unlink")
  BY DEF Complete
<1>2. release[v] # "published" /\ spool[v].meta = build[v] /\ ExactInFull(spool[v])
  BY <1>1 DEF StageInv, VersionIsSound, JobIsSound
<1>3. /\ build[v] \in 1 .. Builds /\ build[v] <= deployed /\ spool[v] \in Spools
      /\ AsPromised(spool[v]) /\ block[v] \in 1 .. NumBlocks + 1
      /\ build' = [build EXCEPT ![v] = build[v]] /\ block' = [block EXCEPT ![v] = block[v]]
  BY <1>1, <1>2, JobFacts
<1> DEFINE s == [spool[v] EXCEPT !.complete = TRUE]
<1>4. /\ s \in Spools /\ s.meta = spool[v].meta /\ s.checkpoint = spool[v].checkpoint
      /\ ExactInFull(s) /\ ExactBlocks(s) = ExactBlocks(spool[v])
  BY <1>2, <1>3, CompleteSpool
<1>5. spool' = [spool EXCEPT ![v] = s]
  BY <1>1
<1> HIDE DEF s
<1>6. AsPromised(s) /\ s.meta <= build[v] /\ s.meta = build[v]
  BY <1>2, <1>3, <1>4 DEF AsPromised, ExactBefore
<1>7. ReadyFor("unlink", build[v], block[v], s)
  BY <1>4, <1>6 DEF ReadyFor, Steps
<1>8. /\ release[v] # "published" /\ s \in Spools /\ Goto(v, "unlink")
      /\ build[v] \in 1 .. Builds /\ build[v] <= deployed /\ block[v] \in 1 .. NumBlocks + 1
      /\ build' = [build EXCEPT ![v] = build[v]] /\ block' = [block EXCEPT ![v] = block[v]]
      /\ UNCHANGED <<deployed, dbVars, deaths>>
  BY <1>1, <1>2, <1>3, <1>4
<1>9. QED
  BY <1>5, <1>7, <1>8, GoesOnKeepsInv

(* Then the checkpoint goes.                                                  *)
LEMMA UnlinkStep ==
    ASSUME StageInv, NEW v \in Releases, UnlinkCheckpoint(v)
    PROVE  StageInv'
<1>1. /\ job[v] = "unlink" /\ UNCHANGED <<deployed, build, block, dbVars, deaths>>
      /\ spool' = [spool EXCEPT ![v].checkpoint = 0] /\ Goto(v, "write")
  BY DEF UnlinkCheckpoint
<1>2. release[v] # "published" /\ spool[v].meta = build[v] /\ ExactInFull(spool[v])
  BY <1>1 DEF StageInv, VersionIsSound, JobIsSound
<1>3. /\ build[v] \in 1 .. Builds /\ build[v] <= deployed /\ spool[v] \in Spools
      /\ block[v] \in 1 .. NumBlocks + 1
      /\ build' = [build EXCEPT ![v] = build[v]] /\ block' = [block EXCEPT ![v] = block[v]]
  BY <1>1, <1>2, JobFacts
<1> DEFINE s == [spool[v] EXCEPT !.checkpoint = 0]
<1>4. 0 \in 0 .. NumBlocks
  BY ReleaseAssumption
<1>5. s \in Spools /\ s.meta = spool[v].meta /\ s.checkpoint = 0 /\ ExactInFull(s)
  BY <1>2, <1>3, <1>4, CheckpointSpool
<1>6. spool' = [spool EXCEPT ![v] = s]
  BY <1>1
<1> HIDE DEF s
<1>7. AsPromised(s) /\ s.meta <= build[v] /\ s.meta = build[v]
  BY <1>2, <1>3, <1>5 DEF AsPromised, ExactBefore
<1>8. ReadyFor("write", build[v], block[v], s)
  BY <1>5, <1>7 DEF ReadyFor, Steps
<1>9. /\ release[v] # "published" /\ s \in Spools /\ Goto(v, "write")
      /\ build[v] \in 1 .. Builds /\ build[v] <= deployed /\ block[v] \in 1 .. NumBlocks + 1
      /\ build' = [build EXCEPT ![v] = build[v]] /\ block' = [block EXCEPT ![v] = block[v]]
      /\ UNCHANGED <<deployed, dbVars, deaths>>
  BY <1>1, <1>2, <1>3, <1>5
<1>10. QED
  BY <1>6, <1>8, <1>9, GoesOnKeepsInv

(* A spool goes when its release is published: nobody takes it up again.      *)
LEMMA RemoveStep ==
    ASSUME StageInv, NEW v \in Releases,
           NEW kept \in SUBSET {"positions", "scores", "meta", "checkpoint"}, RemoveSpool(v, kept)
    PROVE  StageInv'
<1> DEFINE s == [positions |-> IF "positions" \in kept THEN spool[v].positions ELSE Absent,
                 scores |-> IF "scores" \in kept THEN spool[v].scores ELSE Absent,
                 meta |-> IF "meta" \in kept THEN spool[v].meta ELSE 0,
                 complete |-> "meta" \in kept /\ spool[v].complete,
                 checkpoint |-> IF "checkpoint" \in kept THEN spool[v].checkpoint ELSE 0]
<1>1. /\ job[v] = "remove" /\ UNCHANGED <<deployed, dbVars>>
      /\ spool' = [spool EXCEPT ![v] = s]
      /\ IF kept = {} THEN EndJob(v) /\ UNCHANGED deaths ELSE Dies(v)
  BY DEF RemoveSpool, StageInv, StageTypeOK
<1>2. release[v] = "published"
  BY <1>1 DEF StageInv, VersionIsSound, JobIsSound
<1>3. s \in Spools
  <2>1. /\ spool[v].positions \in Contents /\ spool[v].scores \in Contents
        /\ spool[v].meta \in 0 .. Builds /\ spool[v].complete \in BOOLEAN
        /\ spool[v].checkpoint \in 0 .. NumBlocks
    BY JobFacts DEF Spools
  <2>2. Absent \in Contents /\ 0 \in 0 .. Builds /\ 0 \in 0 .. NumBlocks
    BY ReleaseAssumption DEF Contents
  <2>3. QED
    BY <2>1, <2>2 DEF Spools
<1> HIDE DEF s
<1>4. EndJob(v) /\ deaths' \in 0 .. MaxDeaths
  BY <1>1, ReleaseAssumption DEF Dies, StageInv, StageTypeOK
<1>5. QED
  BY <1>1, <1>2, <1>3, <1>4, EndKeepsInv

(* Lists are written from a spool that is exact in full, for a release that   *)
(* is not published.                                                          *)
LEMMA WriteListsStep ==
    ASSUME StageInv, NEW v \in Releases, WriteLists(v)
    PROVE  StageInv'
<1> USE ReleaseAssumption DEF StageInv
<1>1. job[v] = "write" /\ release[v] # "published" /\ ExactInFull(spool[v])
  BY DEF WriteLists, VersionIsSound, JobIsSound
<1>2. ExactBlocks(spool[v]) = Blocks
  BY <1>1 DEF ExactInFull, ExactBlocks
<1>3. /\ release' = [release EXCEPT ![v] = "pending"]
      /\ rows' = [rows EXCEPT ![v] = Blocks]
      /\ job' = [job EXCEPT ![v] = "publish"]
      /\ UNCHANGED <<deployed, build, block, spool, current, publishedAt, publications, displaced,
                     rotation, failures, reverts, deaths>>
  BY <1>1, <1>2 DEF WriteLists, Goto
<1>4. StageTypeOK'
  <2>1. Blocks \in Contents /\ "publish" \in Steps
    BY DEF Contents, Steps
  <2>2. QED
    BY <1>3, <2>1 DEF StageTypeOK
<1>5. \A w \in Releases \ {v} : job'[w] = job[w] /\ release'[w] = release[w] /\ rows'[w] = rows[w]
  BY <1>3 DEF StageTypeOK
<1>6. job'[v] = "publish" /\ release'[v] = "pending" /\ rows'[v] = Blocks
  BY <1>3 DEF StageTypeOK
<1>7. ASSUME NEW w \in Releases PROVE VersionIsSound(w)'
  <2>1. CASE w = v
    <3>1. SpoolIsSound(v)'
      BY <1>1, <1>3, <1>6 DEF VersionIsSound, SpoolIsSound, BuildFor, AsPromised, ExactBefore,
                              ExactInFull, ExactBlocks
    <3>2. JobIsSound(v)'
      BY <1>3, <1>6 DEF VersionIsSound, JobIsSound
    <3>3. QED
      BY <2>1, <3>1, <3>2 DEF VersionIsSound
  <2>2. CASE w # v
    BY <1>3, <1>5, <2>2 DEF VersionIsSound, SpoolIsSound, JobIsSound, BuildFor, AsPromised, ExactBefore,
                            ExactInFull, ExactBlocks
  <2>3. QED
    BY <2>1, <2>2
<1>8. Blocks # Absent
  BY DEF Blocks, Absent
<1>9. Published' = Published /\ Stored' = Stored \cup {v} /\ v \notin Published
  BY <1>1, <1>5, <1>6, <1>8 DEF Published, Stored
<1>10. KeptReleases' /\ OnlyTwoAreKept'
  BY <1>3, <1>9 DEF KeptReleases, OnlyTwoAreKept
<1>11. StoredListsAreExact'
  BY <1>5, <1>6, <1>9 DEF StoredListsAreExact, Stored
<1>12. QED
  BY <1>4, <1>7, <1>10, <1>11

(* The release that is published replaces the current one, and the lists of   *)
(* the others that are published go, or their retiring is reported failed.    *)
LEMMA PublishStep ==
    ASSUME StageInv, NEW v \in Releases, PublishAndRotate(v)
    PROVE  StageInv'
<1> USE ReleaseAssumption DEF StageInv
<1>1. job[v] = "publish" /\ release[v] = "pending" /\ rows[v] = Blocks
  BY DEF PublishAndRotate, PublishRetiring, VersionIsSound, JobIsSound
<1>2. current \in Published /\ current \in Stored /\ v \notin Published /\ current # v /\ current \in Releases
  BY <1>1 DEF KeptReleases, StageTypeOK, Published
<1>3. Displacing(v) = current
  BY <1>2 DEF Displacing
<1> DEFINE retired == Published \ {v, current}
<1>4. PICK failed \in SUBSET (retired \cap Stored) :
        /\ failures + Cardinality(failed) <= MaxFailures
        /\ failures' = failures + Cardinality(failed)
        /\ rows' = [w \in Releases |-> IF w \in retired \ failed THEN Absent ELSE rows[w]]
        /\ rotation' = [previous |-> current, failed |-> failed]
  BY <1>3 DEF PublishAndRotate, PublishRetiring, RotateKeeping
<1>5. /\ release' = [release EXCEPT ![v] = "published"]
      /\ publications' = publications + 1
      /\ publishedAt' = [publishedAt EXCEPT ![v] = publications + 1]
      /\ current' = v /\ displaced' = current
      /\ job' = [job EXCEPT ![v] = "remove"]
      /\ UNCHANGED <<deployed, build, block, spool, reverts, deaths>>
  BY <1>2 DEF PublishAndRotate, PublishRetiring, MakeCurrent, Goto
<1>6. StageTypeOK'
  <2>1. failures' \in 0 .. MaxFailures
    <3>1. IsFiniteSet(failed)
      BY FS_Subset DEF Published
    <3>2. Cardinality(failed) \in Nat
      BY <3>1, FS_CardinalityType
    <3>3. QED
      BY <1>4, <3>2 DEF StageTypeOK
  <2>2. rows' \in [Releases -> Contents]
    BY <1>4 DEF StageTypeOK, Contents
  <2>3. rotation' \in [previous : Releases \cup {None}, failed : SUBSET Releases]
    BY <1>2, <1>4 DEF Published
  <2>4. publications' \in Nat /\ publishedAt' \in [Releases -> 0 .. publications']
    BY <1>5 DEF StageTypeOK
  <2>5. job' \in [Releases -> Steps] /\ release' \in [Releases -> {"absent", "pending", "published"}]
    BY <1>5 DEF StageTypeOK, Steps
  <2>6. QED
    BY <1>2, <1>5, <2>1, <2>2, <2>3, <2>4, <2>5 DEF StageTypeOK
<1>7. /\ \A w \in Releases \ {v} : job'[w] = job[w] /\ release'[w] = release[w]
      /\ job'[v] = "remove" /\ release'[v] = "published"
  BY <1>5 DEF StageTypeOK
<1>8. \A w \in Releases : w \notin Published => rows'[w] = rows[w]
  BY <1>4
<1>9. ASSUME NEW w \in Releases PROVE VersionIsSound(w)'
  <2>1. CASE w = v
    BY <1>5, <1>7, <2>1 DEF VersionIsSound, SpoolIsSound, JobIsSound
  <2>2. CASE w # v
    <3>1. SpoolIsSound(w)'
      BY <1>5, <1>7, <2>2 DEF VersionIsSound, SpoolIsSound, BuildFor, AsPromised, ExactBefore,
                              ExactInFull, ExactBlocks
    <3>2. JobIsSound(w)'
      BY <1>5, <1>7, <1>8, <2>2 DEF VersionIsSound, JobIsSound, Published, ExactBefore,
                                    ExactInFull, ExactBlocks
    <3>3. QED
      BY <3>1, <3>2 DEF VersionIsSound
  <2>3. QED
    BY <2>1, <2>2
<1>10. Blocks # Absent
  BY DEF Blocks, Absent
<1>11. /\ Published' = Published \cup {v}
       /\ rows'[v] = Blocks /\ rows'[current] = rows[current]
       /\ \A w \in Stored' : w \in Stored \cup {v} /\ rows'[w] = rows[w]
  BY <1>1, <1>2, <1>4, <1>7, <1>8, <1>10 DEF Published, Stored
<1>12. KeptReleases'
  BY <1>2, <1>5, <1>10, <1>11 DEF KeptReleases, Stored
<1>13. StoredListsAreExact'
  BY <1>1, <1>11 DEF StoredListsAreExact
<1>14. OnlyTwoAreKept'
  <2> SUFFICES ASSUME NEW w \in Published', w \in Stored', w # v, w # current
               PROVE  w \in failed
    BY <1>4, <1>5 DEF OnlyTwoAreKept
  <2>1. w \in retired /\ w \in Releases
    BY <1>11 DEF Published
  <2>2. rows'[w] # Absent
    BY DEF Stored
  <2>3. QED
    BY <1>4, <2>1, <2>2
<1>15. QED
  BY <1>6, <1>9, <1>12, <1>13, <1>14

(* Going back swaps the current release and the one it replaced.              *)
LEMMA RevertStep ==
    ASSUME StageInv, Revert
    PROVE  StageInv'
<1> USE ReleaseAssumption DEF StageInv
<1> DEFINE v == displaced
<1>1. v \in Published /\ v \in Stored /\ v \in Releases /\ current \in Releases
  BY DEF Revert, KeptReleases, StageTypeOK
<1>2. /\ release' = [release EXCEPT ![v] = "published"]
      /\ publications' = publications + 1
      /\ publishedAt' = [publishedAt EXCEPT ![v] = publications + 1]
      /\ current' = v /\ displaced' = IF current = v THEN v ELSE current
      /\ reverts' = reverts + 1 /\ reverts < MaxReverts
      /\ UNCHANGED <<job, build, block, deployed, spool, rows, rotation, failures, deaths>>
  BY DEF Revert, MakeCurrent, jobVars
<1> HIDE DEF v
<1>3. release' = release
  BY <1>1, <1>2 DEF StageTypeOK, Published
<1>4. {current', displaced'} = {current, displaced} /\ displaced # None
  BY <1>2 DEF v, Revert
<1>5. StageTypeOK'
  <2>1. publications' \in Nat /\ publishedAt' \in [Releases -> 0 .. publications']
    BY <1>1, <1>2 DEF StageTypeOK
  <2>2. reverts' \in 0 .. MaxReverts
    BY <1>2 DEF StageTypeOK
  <2>3. current' \in Releases /\ displaced' \in Releases
    BY <1>1, <1>2
  <2>4. QED
    BY <1>2, <1>3, <2>1, <2>2, <2>3 DEF StageTypeOK
<1>6. ASSUME NEW w \in Releases PROVE VersionIsSound(w)'
  BY <1>2, <1>3 DEF VersionIsSound, SpoolIsSound, JobIsSound, BuildFor, AsPromised, ExactBefore,
                    ExactInFull, ExactBlocks
<1>7. Published' = Published /\ Stored' = Stored
  BY <1>2, <1>3 DEF Published, Stored
<1>8. KeptReleases' /\ OnlyTwoAreKept' /\ StoredListsAreExact'
  BY <1>2, <1>4, <1>7 DEF KeptReleases, OnlyTwoAreKept, StoredListsAreExact
<1>9. QED
  BY <1>5, <1>6, <1>8

(* Nothing changes when the stage does not move.                              *)
LEMMA StageStutters == StageInv /\ UNCHANGED stageVars => StageInv'
<1> SUFFICES ASSUME StageInv, UNCHANGED stageVars PROVE StageInv'
  OBVIOUS
<1>1. UNCHANGED <<deployed, job, build, block, spool, release, rows, current, publishedAt,
                  publications, displaced, rotation, failures, reverts, deaths>>
  BY DEF stageVars, jobVars, dbVars
<1>2. QED
  BY <1>1 DEF StageInv, StageTypeOK, VersionIsSound, SpoolIsSound, JobIsSound, BuildFor, AsPromised,
     ExactBefore, ExactInFull, ExactBlocks, KeptReleases, StoredListsAreExact, OnlyTwoAreKept,
     Published, Stored

\* The steps of the stage.
StageNext ==
    \/ \E v \in Versions :
         JobStep(v) \/ DiesWithin(v) \/ Die(v) \/ CheckPublished(v, embeddings[v] # {})
           \/ (Dies(v) /\ UNCHANGED <<deployed, spool, dbVars>>)
    \/ \E b \in 1 .. Builds : Deploy(b)
    \/ Revert
    \/ UNCHANGED stageVars

(* Every step of the jobs and of their environment preserves the stage's      *)
(* invariant.                                                                 *)
LEMMA StageInvStep == StageInv /\ StageNext => StageInv'
<1> SUFFICES ASSUME StageInv, StageNext PROVE StageInv'
  OBVIOUS
<1> USE DumpsAreReleases
<1>1. ASSUME NEW v \in Versions, JobStep(v) PROVE StageInv'
  <2>1. v \in Releases /\ ResetSteps \in 1 .. ResetSteps /\ TRUE \in BOOLEAN
        /\ {} \in SUBSET {"positions", "scores", "meta", "checkpoint"}
    BY DEF ResetSteps
  <2>2. CASE Reset(v, ResetSteps)
    BY <2>1, <2>2, ResetStep
  <2>3. CASE WriteBlock(v, TRUE)
    BY <2>1, <2>3, WriteBlockStep
  <2>4. CASE RemoveSpool(v, {})
    BY <2>1, <2>4, RemoveStep
  <2>5. QED
    BY <1>1, <2>1, <2>2, <2>3, <2>4, ReturnCompleteStep, ResumeStep, AfterBlockStep, CompleteStep,
       UnlinkStep, WriteListsStep, PublishStep DEF JobStep
<1>2. ASSUME NEW v \in Versions, DiesWithin(v) PROVE StageInv'
  <2>1. v \in Releases /\ FALSE \in BOOLEAN /\ 1 .. ResetSteps - 1 \subseteq 1 .. ResetSteps
    BY DEF ResetSteps
  <2>2. QED
    BY <1>2, <2>1, ResetStep, WriteBlockStep, RemoveStep DEF DiesWithin
<1>3. ASSUME NEW v \in Versions, Die(v) \/ (Dies(v) /\ UNCHANGED <<deployed, spool, dbVars>>)
      PROVE  StageInv'
  BY <1>3, DieStep DEF Die
<1>4. ASSUME NEW v \in Versions, CheckPublished(v, embeddings[v] # {}) PROVE StageInv'
  BY <1>4, CheckPublishedStep
<1>5. QED
  BY <1>1, <1>2, <1>3, <1>4, DeployStep, RevertStep, StageStutters DEF StageNext

-----------------------------------------------------------------------------
(* The program.                                                              *)

(* A step of the program is a step of its load and of its stage, one of them  *)
(* possibly standing still.                                                   *)
LEMMA StepsOfBoth == [Next]_vars => LoadNext /\ StageNext
<1> SUFFICES ASSUME [Next]_vars PROVE LoadNext /\ StageNext
  OBVIOUS
<1> USE DEF LoadNext, StageNext
<1>1. CASE UNCHANGED vars
  BY <1>1 DEF vars
<1>2. ASSUME NEW v \in Versions, Start(v) PROVE LoadNext /\ StageNext
  BY <1>2 DEF Start
<1>3. ASSUME NEW v \in Versions, LoadStep(v) PROVE LoadNext /\ StageNext
  BY <1>3 DEF LoadStep
<1>4. ASSUME NEW v \in Versions, RunSimilarArtists(v) PROVE LoadNext /\ StageNext
  <2>1. /\ loadStep[v] = Returned /\ loadStep' = [loadStep EXCEPT ![v] = Idle]
        /\ UNCHANGED <<graph, imports, readVars, storeVars, histVars>>
        /\ CheckPublished(v, embeddings[v] # {})
    BY <1>4, Zenon DEF RunSimilarArtists, HasVectors
  <2>2. LoadNext
    BY <2>1
  <2>3. StageNext
    BY <2>1, Zenon
  <2>4. QED
    BY <2>2, <2>3
<1>5. ASSUME NEW v \in Versions, StageStep(v) PROVE LoadNext /\ StageNext
  <2>1. JobStep(v) /\ UNCHANGED loadVars
    BY <1>5 DEF StageStep
  <2>2. QED
    BY <2>1, Zenon
<1>6. ASSUME NEW v \in Versions, DieLoading(v) PROVE LoadNext /\ StageNext
  BY <1>6 DEF DieLoading
<1>7. CASE Environment
  <2>1. ASSUME NEW e \in Edges, Import(e), UNCHANGED stageVars PROVE LoadNext /\ StageNext
    BY <2>1
  <2>2. ASSUME NEW v \in Versions, Die(v) \/ DiesWithin(v), UNCHANGED loadVars
        PROVE  LoadNext /\ StageNext
    BY <2>2, Zenon
  <2>3. ASSUME NEW b \in 1 .. Builds, Deploy(b), UNCHANGED loadVars PROVE LoadNext /\ StageNext
    BY <2>3
  <2>4. ASSUME Revert, UNCHANGED loadVars PROVE LoadNext /\ StageNext
    BY <2>4
  <2>5. QED
    BY <1>7, <2>1, <2>2, <2>3, <2>4 DEF Environment
<1>8. QED
  BY <1>1, <1>2, <1>3, <1>4, <1>5, <1>6, <1>7 DEF Next, Job

(* The invariant holds in every reachable state. *)
LEMMA ReleaseInvHolds == Spec => []ReleaseInv
<1>1. Init => LoadInv
  <2> SUFFICES ASSUME LoadInit PROVE LoadInv
    BY DEF Init
  <2>1. LoadTypeOK
    BY LoadAssumption, StepOrder DEF LoadInit, LoadTypeOK
  <2>2. \A v \in Versions : loadStep[v] = Idle /\ embeddings[v] = {} /\ blocks[v] = {}
    BY DEF LoadInit
  <2>3. Idle \notin Reading
    BY StepOrder DEF Reading
  <2>4. QED
    BY <2>1, <2>2, <2>3 DEF LoadInv, NothingStoredYet, HistoryOfRead, ReadCovers, EmbeddingsCoverTheGraph
<1>2. Init => StageInv
  <2> SUFFICES ASSUME StageInit PROVE StageInv
    BY DEF Init
  <2> USE ReleaseAssumption
  <2>1. Blocks # Absent /\ Blocks \in Contents /\ Absent \in Contents /\ NoSpool \in Spools
    BY DEF Blocks, Absent, Contents, NoSpool, Spools
  <2>2. StageTypeOK
    <3>1. /\ spool \in [Releases -> Spools] /\ rows \in [Releases -> Contents]
          /\ release \in [Releases -> {"absent", "pending", "published"}]
      BY <2>1 DEF StageInit
    <3>2. job \in [Releases -> Steps] /\ build \in [Releases -> 1 .. Builds]
          /\ block \in [Releases -> 1 .. NumBlocks + 1]
      BY DEF StageInit, Steps
    <3>3. publications \in Nat /\ publishedAt \in [Releases -> 0 .. publications]
      BY DEF StageInit
    <3>4. /\ deployed \in 1 .. Builds /\ current \in Releases /\ displaced \in Releases \cup {None}
          /\ rotation \in [previous : Releases \cup {None}, failed : SUBSET Releases]
          /\ deaths \in 0 .. MaxDeaths /\ failures \in 0 .. MaxFailures /\ reverts \in 0 .. MaxReverts
      BY DEF StageInit
    <3>5. QED
      BY <3>1, <3>2, <3>3, <3>4 DEF StageTypeOK
  <2>3. ASSUME NEW v \in Releases PROVE VersionIsSound(v)
    <3>1. /\ job[v] = "idle" /\ build[v] = 1 /\ block[v] = 1 /\ deployed = 1 /\ spool[v] = NoSpool
      BY DEF StageInit
    <3>2. QED
      BY <3>1 DEF VersionIsSound, SpoolIsSound, JobIsSound, BuildFor, NoSpool
  <2>4. Published = {First} /\ Stored = {First} /\ rows[First] = Blocks
    BY <2>1 DEF StageInit, Published, Stored
  <2>5. KeptReleases /\ StoredListsAreExact /\ OnlyTwoAreKept
    BY <2>4 DEF StageInit, KeptReleases, StoredListsAreExact, OnlyTwoAreKept
  <2>6. QED
    BY <2>2, <2>3, <2>5 DEF StageInv
<1>3. ReleaseInv /\ [Next]_vars => ReleaseInv'
  BY LoadInvStep, StageInvStep, StepsOfBoth DEF ReleaseInv
<1>4. QED
  BY <1>1, <1>2, <1>3, PTL DEF Spec, ReleaseInv

(* The state of the load and of the stage is well-formed in every reachable   *)
(* state.                                                                     *)
THEOREM TypeCorrect == Spec => []TypeOK
<1>1. ReleaseInv => TypeOK
  BY DEF ReleaseInv, LoadInv, StageInv, TypeOK
<1>2. QED
  BY <1>1, ReleaseInvHolds, PTL

(* The stored vectors of a dump are computed from every edge that the graph   *)
(* held all through the read, and from none that it never held, however the   *)
(* importer's changes fall between the statements of the read.                *)
THEOREM VectorsCoverTheGraph == Spec => []EmbeddingsCoverTheGraph
<1>1. ReleaseInv => EmbeddingsCoverTheGraph
  BY DEF ReleaseInv, LoadInv
<1>2. QED
  BY <1>1, ReleaseInvHolds, PTL

(* The lists in the database are exact in every block, wherever jobs died and *)
(* whatever builds resumed or reset their spools.                             *)
THEOREM ListsExact == Spec => []StoredListsAreExact
<1>1. ReleaseInv => StoredListsAreExact
  BY DEF ReleaseInv, StageInv
<1>2. QED
  BY <1>1, ReleaseInvHolds, PTL

(* The current release and the one it replaced have their lists: a month can  *)
(* be rolled back, also when the months of two dumps are published at once,   *)
(* when a retire fails and after the operator has gone back before.           *)
THEOREM RollBackPossible == Spec => []CanRollBack
<1>1. ReleaseInv => CanRollBack
  BY DEF ReleaseInv, StageInv, KeptReleases, CanRollBack
<1>2. QED
  BY <1>1, ReleaseInvHolds, PTL

(* No other published release has its lists, but those the last rotation      *)
(* reported.                                                                  *)
THEOREM TwoReleasesKept == Spec => []OnlyTwoAreKept
<1>1. ReleaseInv => OnlyTwoAreKept
  BY DEF ReleaseInv, StageInv
<1>2. QED
  BY <1>1, ReleaseInvHolds, PTL

\* What a step may do to the stored lists of a release.
ListsAreKept(v) ==
    /\ v \in Published => rows'[v] = rows[v] \/ (rows'[v] = Absent /\ v \notin {current', displaced'})
    /\ rows'[v] # rows[v] /\ v \notin Published => job[v] = "write"

(* Rows change when they are written, of a release that is not published, and *)
(* when they are retired, of one that is neither current nor the one before.  *)
LEMMA RowsStep ==
    ASSUME StageInv, StageNext, NEW v \in Stored
    PROVE  ListsAreKept(v)
<1> USE ReleaseAssumption, DumpsAreReleases DEF StageInv
<1>1. v \in Releases
  BY DEF Stored
<1>2. CASE rows' = rows
  BY <1>2 DEF ListsAreKept
<1>3. ASSUME NEW w \in Versions, WriteLists(w), rows' # rows PROVE ListsAreKept(v)
  <2>1. /\ rows' = [rows EXCEPT ![w] = ExactBlocks(spool[w])]
        /\ job[w] = "write" /\ release[w] # "published"
    BY <1>3 DEF WriteLists
  <2>2. v # w => rows'[v] = rows[v]
    BY <1>1, <2>1 DEF StageTypeOK
  <2>3. QED
    BY <2>1, <2>2 DEF ListsAreKept, Published
<1>4. ASSUME NEW w \in Versions, PublishAndRotate(w) PROVE ListsAreKept(v)
  <2>1. release[w] = "pending"
    BY <1>4 DEF PublishAndRotate, PublishRetiring, VersionIsSound, JobIsSound
  <2>2. current \in Published /\ current # w
    BY <2>1 DEF KeptReleases, StageTypeOK, Published
  <2>3. Displacing(w) = current
    BY <2>2 DEF Displacing
  <2>4. current' = w /\ displaced' = current
    BY <1>4, <2>2 DEF PublishAndRotate, PublishRetiring, MakeCurrent
  <2>5. PICK failed \in SUBSET ((Published \ {w, current}) \cap Stored) :
          rows' = [u \in Releases |-> IF u \in (Published \ {w, current}) \ failed THEN Absent ELSE rows[u]]
    BY <1>4, <2>3 DEF PublishAndRotate, PublishRetiring, RotateKeeping
  <2>6. rows'[v] = IF v \in (Published \ {w, current}) \ failed THEN Absent ELSE rows[v]
    BY <1>1, <2>5
  <2>7. QED
    BY <2>4, <2>6 DEF ListsAreKept
<1>5. ASSUME NEW w \in Versions, JobStep(w), ~WriteLists(w), ~PublishAndRotate(w) PROVE rows' = rows
  BY <1>5 DEF JobStep, ReturnComplete, ReturnIf, Resume, Reset, WriteBlock, AfterBlock, AfterBlockSaving,
              Complete, UnlinkCheckpoint, RemoveSpool, dbVars
<1>6. ASSUME NEW w \in Versions, DiesWithin(w) PROVE rows' = rows
  BY <1>6 DEF DiesWithin, Reset, WriteBlock, RemoveSpool, dbVars
<1>7. ASSUME NEW w \in Versions, Die(w) \/ (Dies(w) /\ UNCHANGED <<deployed, spool, dbVars>>)
      PROVE  rows' = rows
  BY <1>7 DEF Die, dbVars
<1>8. ASSUME NEW w \in Versions, CheckPublished(w, embeddings[w] # {}) PROVE rows' = rows
  BY <1>8 DEF CheckPublished, dbVars
<1>9. ASSUME NEW b \in 1 .. Builds, Deploy(b) PROVE rows' = rows
  BY <1>9 DEF Deploy, dbVars
<1>10. CASE Revert \/ UNCHANGED stageVars
  BY <1>2, <1>10 DEF Revert, stageVars, dbVars
<1>11. QED
  BY <1>2, <1>3, <1>4, <1>5, <1>6, <1>7, <1>8, <1>9, <1>10 DEF StageNext

(* Published lists are never rewritten, and go only by being retired; pending *)
(* ones are written by their own job alone.                                   *)
THEOREM ListsNotRewritten == Spec => PublishedAreNotRewritten
<1>1. ReleaseInv /\ [Next]_vars =>
        [\A v \in Stored :
           /\ v \in Published => rows'[v] = rows[v] \/ (rows'[v] = Absent /\ v \notin {current', displaced'})
           /\ rows'[v] # rows[v] /\ v \notin Published => job[v] = "write"]_stageVars
  BY RowsStep, StepsOfBoth DEF ReleaseInv, ListsAreKept
<1>2. QED
  BY <1>1, ReleaseInvHolds, PTL DEF Spec, PublishedAreNotRewritten
=============================================================================
