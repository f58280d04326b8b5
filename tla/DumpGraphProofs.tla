--------------------------- MODULE DumpGraphProofs ---------------------------
(***************************************************************************)
(* Proofs about DumpGraph, for any two dumps, any number of weights and    *)
(* attempts, breaks and deaths: type correctness, that a graph that is     *)
(* passed on is of the whole dump with each record once, and that credits  *)
(* are resolved through the names of the whole dump.                       *)
(***************************************************************************)
EXTENDS DumpGraph, FiniteSetTheorems, TLAPS

\* The map of all records, and of those that close before a mark.
PairsOf(records) == UNION {Paired(Releases[k]) : k \in records}
RecordsBefore(mark) == {k \in DOMAIN Releases : 2 * k + 1 < mark}
AllPairs == PairsOf(DOMAIN Releases)

\* The edges of the first n records, and the graph of both dumps.
EdgesUpTo(n) == UNION {EdgesOf(AllPairs, k) : k \in 1 .. n}
WholeGraph == [edges |-> EdgesUpTo(Len(Releases)) \cup MasterEdges,
               releases |-> Len(Releases), masters |-> Len(Masters)]

\* A chunk is whole records that end before `tail`, or what was left at the end.
IsWhole(c) == c[1] % 2 = 0 /\ c[2] % 2 = 1 /\ c[1] < c[2] /\ c[2] < from
IsRest(c) == reader # "reading" /\ c = <<from, pos>> /\ from <= pos

\* What the reader has cut so far: `tail` begins with a record, behind every
\* closing tag that was read, and the chunks before it do not overlap.
ChunksAreWhole ==
    phase \in Passes =>
        /\ pos = 0 => from = 1 /\ pending = {}
        /\ pos > 0 => from >= 2 /\ from <= pos + 1 /\ from % 2 = 0
        /\ \A i \in 1 .. pos : IsClose(i) => i < from
        /\ reader = "done" => pos = LastMark
        /\ \A c \in pending : IsWhole(c) \/ IsRest(c)
        /\ \A c, d \in pending : c = d \/ c[2] < d[1] \/ d[2] < c[1]

\* Pass 1: the pairs of every record before `tail` are merged or pending.
MapSoFar ==
    phase = "pass_1" =>
        sameAs \cup UNION {PairsOf(RecordsOf(c)) : c \in pending} = PairsOf(RecordsBefore(from))

\* After it the map is that of the whole dump, and so is its checkpoint.  A run
\* starts with none.
MapIsWhole ==
    /\ phase = "off" => sameAs = {}
    /\ phase \in {"save_same_as", "replace_same_as", "pass_2"} => sameAs = AllPairs
    /\ sameAsFile \in {None, AllPairs}

\* Pass 2 has merged the first `count` records, and the pending chunks go on from
\* there without a gap, up to `tail`.
Frontier == 2 * count + 2
Joints == {Frontier} \cup {d[2] + 1 : d \in pending}

EdgesSoFar ==
    phase = "pass_2" =>
        /\ count <= Len(Releases) /\ edges = EdgesUpTo(count)
        /\ pos = 0 => count = 0
        /\ pos > 0 => from >= Frontier /\ from \in Joints
        /\ \A c \in pending : c[1] >= Frontier /\ c[1] \in Joints

\* From then on the edges, and then the graph, are of the whole dump.
EdgesAreWhole ==
    /\ phase \in {"masters", "build"} => count = Len(Releases)
    /\ phase = "masters" => edges = EdgesUpTo(Len(Releases))
    /\ phase = "build" => edges = EdgesUpTo(Len(Releases)) \cup MasterEdges

GraphsAreWhole ==
    /\ phase \in {"save_graph", "replace_graph", "delete", "fastrp", "replace_output"} => graph = WholeGraph
    /\ Visible \subseteq {None, WholeGraph} /\ DOMAIN outputs = DOMAIN Weights

\* The inductive invariant.
DumpInv ==
    /\ TypeOK
    /\ ChunksAreWhole
    /\ MapSoFar
    /\ MapIsWhole
    /\ EdgesSoFar
    /\ EdgesAreWhole
    /\ GraphsAreWhole

\* A file beside its place is cut short, or holds what belongs in its place.
BesideIsWhole ==
    /\ phase = "replace_same_as" => beside \in {Torn, AllPairs}
    /\ phase \in {"replace_graph", "replace_output"} => beside \in {Torn, WholeGraph}
-----------------------------------------------------------------------------
(* The marks and the records between them.                                   *)

(* The records are numbered from 1, and the root's closing tag is the last mark. *)
LEMMA Marks ==
    /\ Len(Releases) \in Nat \ {0} /\ DOMAIN Releases = 1 .. Len(Releases)
    /\ LastMark = 2 * Len(Releases) + 2 /\ LastMark \in Nat
BY DumpAssumption DEF LastMark

(* A chunk from an opening to a closing tag holds the records between them.   *)
LEMMA RecordsOfWhole ==
    ASSUME NEW a \in 1 .. LastMark, NEW b \in 1 .. LastMark, a % 2 = 0, b % 2 = 1, a < b
    PROVE  RecordsOf(<<a, b>>) = {k \in DOMAIN Releases : a <= 2 * k /\ 2 * k + 1 <= b}
BY Marks DEF RecordsOf, IsOpen, IsClose

(* A chunk that does not end with a closing tag holds none.                   *)
LEMMA RecordsOfRest ==
    ASSUME NEW a, NEW b, ~IsClose(b)
    PROVE  RecordsOf(<<a, b>>) = {}
BY DEF RecordsOf

(* Of the closing tags in a stretch of marks one is the last.                 *)
LEMMA LastClose ==
    ASSUME NEW start \in Nat, NEW to \in Nat, NEW i \in start .. to, IsClose(i)
    PROVE  \E cut \in {j \in start .. to : IsClose(j)} :
               \A j \in {j \in start .. to : IsClose(j)} : j <= cut
<1>1. CASE to % 2 = 1
  BY <1>1 DEF IsClose
<1>2. CASE to % 2 # 1
  <2>1. i <= to - 1 /\ (to - 1) % 2 = 1
    BY <1>2 DEF IsClose
  <2>2. to - 1 \in {j \in start .. to : IsClose(j)} /\ \A j \in {j \in start .. to : IsClose(j)} : j <= to - 1
    BY <1>2, <2>1 DEF IsClose
  <2>3. QED
    BY <2>2
<1>3. QED
  BY <1>1, <1>2

(* The map of two sets of records is that of both.                            *)
LEMMA PairsOfUnion ==
    ASSUME NEW S, NEW T
    PROVE  PairsOf(S \cup T) = PairsOf(S) \cup PairsOf(T)
BY DEF PairsOf

(* The pairs of a chunk are added to those of the chunks before.               *)
LEMMA PairsOfChunks ==
    ASSUME NEW S, NEW x
    PROVE  UNION {PairsOf(RecordsOf(c)) : c \in S \cup {x}} =
               (UNION {PairsOf(RecordsOf(c)) : c \in S}) \cup PairsOf(RecordsOf(x))
OBVIOUS

(* And its end to the ends of those.                                          *)
LEMMA EndsOfChunks ==
    ASSUME NEW S, NEW a, NEW b
    PROVE  {d[2] + 1 : d \in S \cup {<<a, b>>}} = {d[2] + 1 : d \in S} \cup {b + 1}
<1>1. <<a, b>>[2] = b
  OBVIOUS
<1>2. \A m : m \in {d[2] + 1 : d \in S \cup {<<a, b>>}} <=>
               m \in {d[2] + 1 : d \in S} \/ m = <<a, b>>[2] + 1
  BY Zenon
<1>3. QED
  BY <1>1, <1>2

(* The records before a closing tag are those before an opening tag and those *)
(* of the chunk between them.                                                 *)
LEMMA RecordsGoOn ==
    ASSUME NEW a \in 1 .. LastMark, NEW b \in 1 .. LastMark, a % 2 = 0, b % 2 = 1, a < b
    PROVE  RecordsBefore(b + 1) = RecordsBefore(a) \cup RecordsOf(<<a, b>>)
<1>1. \A k \in DOMAIN Releases :
          2 * k + 1 < b + 1 <=> 2 * k + 1 < a \/ (a <= 2 * k /\ 2 * k + 1 <= b)
  BY Marks
<1>2. RecordsOf(<<a, b>>) = {k \in DOMAIN Releases : a <= 2 * k /\ 2 * k + 1 <= b}
  BY RecordsOfWhole
<1>3. QED
  BY <1>1, <1>2 DEF RecordsBefore

(* No record closes before the first one has opened, and all of them before a *)
(* tail that begins behind every closing tag.                                 *)
LEMMA RecordsAtTheEnds ==
    /\ RecordsBefore(1) = {} /\ RecordsBefore(2) = {}
    /\ \A mark \in Int : mark > 2 * Len(Releases) + 1 => RecordsBefore(mark) = DOMAIN Releases
BY Marks DEF RecordsBefore

(* What a record of each dump is.                                            *)
LEMMA RecordTypes ==
    /\ \A k \in DOMAIN Releases :
         /\ Releases[k].artists \subseteq Artists /\ Releases[k].performers \subseteq Artists
         /\ Releases[k].credits \subseteq Credit
    /\ Len(Masters) \in Nat /\ DOMAIN Masters = 1 .. Len(Masters)
    /\ \A m \in DOMAIN Masters : Masters[m].artists \subseteq Artists
<1> DEFINE Release == [artists : SUBSET Artists, credits : SUBSET Credit, performers : SUBSET Artists]
<1> DEFINE Master == [artists : SUBSET Artists]
<1>1. Releases \in Seq(Release) /\ Masters \in Seq(Master)
  BY DumpAssumption
<1>2. \A r \in Release : r.artists \subseteq Artists /\ r.performers \subseteq Artists /\ r.credits \subseteq Credit
  OBVIOUS
<1>3. \A m \in Master : m.artists \subseteq Artists
  OBVIOUS
<1> HIDE DEF Release, Master
<1>4. \A k \in DOMAIN Releases : Releases[k] \in Release
  BY <1>1
<1>5. /\ \A m \in DOMAIN Masters : Masters[m] \in Master
      /\ Len(Masters) \in Nat /\ DOMAIN Masters = 1 .. Len(Masters)
  BY <1>1
<1>6. QED
  BY <1>2, <1>3, <1>4, <1>5

(* The whole map is one of names and artists.                                 *)
LEMMA AllPairsType ==
    \A S \in SUBSET DOMAIN Releases : PairsOf(S) \subseteq Names \X Artists
<1>1. SUFFICES ASSUME NEW k \in DOMAIN Releases
               PROVE  Paired(Releases[k]) \subseteq Names \X Artists
  BY <1>1 DEF PairsOf
<1>2. Releases[k].credits \in SUBSET Credit
  BY RecordTypes
<1>3. QED
  BY <1>2 DEF Paired, Credit

(* The graph of both dumps is one, and neither a missing file nor a torn one. *)
LEMMA WholeGraphType ==
    WholeGraph \in Graph /\ WholeGraph # None /\ WholeGraph # Torn /\ WholeGraph.releases \in Nat
<1>1. ASSUME NEW k \in DOMAIN Releases
      PROVE  EdgesOf(AllPairs, k) \subseteq EdgeKinds \X Nat \X Artists
  <2>1. Releases[k].artists \in SUBSET Artists /\ Releases[k].performers \in SUBSET Artists
    BY RecordTypes
  <2>2. k \in Nat
    BY Marks
  <2>3. AllPairs \subseteq Names \X Artists
    BY AllPairsType DEF AllPairs
  <2>4. \A levels : Resolved(AllPairs, Releases[k], levels) \subseteq Artists
    BY <2>3 DEF Resolved
  <2>5. QED
    BY <2>1, <2>2, <2>4 DEF EdgesOf, EdgeKinds
<1>2. EdgesUpTo(Len(Releases)) \subseteq EdgeKinds \X Nat \X Artists
  BY <1>1, Marks DEF EdgesUpTo
<1>3. MasterEdges \subseteq EdgeKinds \X Nat \X Artists
  <2>1. \A m \in DOMAIN Masters : m \in Nat /\ Masters[m].artists \in SUBSET Artists
    BY RecordTypes
  <2>2. QED
    BY <2>1 DEF MasterEdges, EdgeKinds
<1>4. Len(Masters) \in Nat
  BY RecordTypes
<1>5. WholeGraph \in Graph
  BY <1>2, <1>3, <1>4, Marks DEF WholeGraph, Graph
<1>6. QED
  BY <1>5, NoGraphAssumption DEF Graph

(* What is visible only changes with the graph and the files it is kept in.   *)
LEMMA VisibleStays ==
    ASSUME UNCHANGED <<graph, graphFile, outputs>>
    PROVE  Visible' = Visible
BY DEF Visible

(* A graph that is none or the whole one has the type of what is passed on.   *)
LEMMA VisibleType ==
    ASSUME NEW S, S \subseteq {None, WholeGraph}
    PROVE  \A g \in S : g = None \/ (g # Torn /\ g.releases \in Nat)
BY WholeGraphType

-----------------------------------------------------------------------------
(* The passes.                                                               *)

(* A step of a pass leaves the graphs, the checkpoints and the outputs alone. *)
LEMMA PassKeepsGraphs ==
    ASSUME DumpInv, phase \in Passes, phase' = phase, UNCHANGED <<graph, fileVars>>
    PROVE  /\ EdgesAreWhole' /\ GraphsAreWhole' /\ sameAsFile' \in {None, AllPairs}
           /\ \A g \in Visible' : g = None \/ (g # Torn /\ g.releases \in Nat)
<1>1. Visible' = Visible /\ UNCHANGED outputs
  BY VisibleStays DEF fileVars
<1>2. QED
  BY <1>1, VisibleType DEF DumpInv, EdgesAreWhole, GraphsAreWhole, MapIsWhole, Passes, fileVars

(* The block that is read next starts at the first record, or where `tail` does. *)
Start == IF pos = 0 THEN 2 ELSE from

(* Reading starts with a record, behind the chunks that were cut before.      *)
LEMMA StartOfBlock ==
    ASSUME DumpInv, phase \in Passes, reader = "reading"
    PROVE  /\ Start \in 2 .. pos + 2 /\ Start % 2 = 0 /\ from <= Start /\ (pos > 0 => Start = from)
           /\ RecordsBefore(Start) = RecordsBefore(from)
           /\ \A c \in pending : IsWhole(c)
           /\ \A i \in Nat : IsClose(i) /\ i <= pos => i < Start
<1>1. /\ pos \in Nat /\ from \in Nat
      /\ pos = 0 => from = 1
      /\ pos > 0 => from >= 2 /\ from <= pos + 1 /\ from % 2 = 0
      /\ \A i \in 1 .. pos : IsClose(i) => i < from
      /\ \A c \in pending : IsWhole(c) \/ IsRest(c)
  BY Marks DEF DumpInv, TypeOK, ChunksAreWhole
<1>2. CASE pos = 0
  BY <1>1, <1>2, RecordsAtTheEnds DEF Start, IsRest, IsClose
<1>3. CASE pos > 0
  BY <1>1, <1>3 DEF Start, IsRest, IsClose
<1>4. QED
  BY <1>1, <1>2, <1>3

(* A block in which no record ends only makes `tail` longer.                  *)
LEMMA BlockWithoutRecord ==
    ASSUME DumpInv, phase \in Passes, reader = "reading",
           NEW to \in pos + 1 .. LastMark, to >= 2, \A i \in Start .. to : ~IsClose(i),
           pos' = to, from' = Start, pending' = pending, phase' = phase, reader' = reader,
           sameAs' = sameAs, edges' = edges, count' = count
    PROVE  ChunksAreWhole' /\ MapSoFar' /\ EdgesSoFar'
<1>1. pos \in Nat /\ from \in Nat /\ to \in Nat /\ LastMark \in Nat /\ Start \in Nat
  BY Marks, StartOfBlock DEF DumpInv, TypeOK
<1>2. ChunksAreWhole'
  <2>1. from' >= 2 /\ from' <= pos' + 1 /\ from' % 2 = 0
    BY <1>1, StartOfBlock
  <2>2. \A i \in 1 .. to : IsClose(i) => i < Start
    BY <1>1
  <2>3. \A c \in pending : IsWhole(c)'
    <3>1. SUFFICES ASSUME NEW c \in pending PROVE IsWhole(c)'
      OBVIOUS
    <3>2. IsWhole(c) /\ c[2] \in Nat
      BY StartOfBlock, Marks DEF DumpInv, TypeOK
    <3>3. QED
      BY <1>1, <3>2, StartOfBlock DEF IsWhole
  <2>4. QED
    BY <1>1, <2>1, <2>2, <2>3 DEF ChunksAreWhole, DumpInv
<1>3. MapSoFar'
  BY StartOfBlock DEF MapSoFar, DumpInv
<1>4. EdgesSoFar'
  <2>1. pos > 0 => from' = from
    BY <1>1, StartOfBlock
  <2>2. pos = 0 => pending = {} /\ from' = 2
    BY DEF DumpInv, ChunksAreWhole, Start
  <2>3. Joints' = Joints /\ Frontier' = Frontier
    BY DEF Joints, Frontier
  <2>4. count \in Nat /\ 2 = 2 * 0 + 2
    BY DEF DumpInv, TypeOK
  <2>5. CASE pos = 0
    BY <1>1, <2>2, <2>3, <2>4, <2>5 DEF DumpInv, EdgesSoFar, Joints, Frontier
  <2>6. CASE pos > 0
    BY <1>1, <2>1, <2>3, <2>4, <2>6 DEF DumpInv, EdgesSoFar
  <2>7. QED
    BY <1>1, <2>5, <2>6
<1>5. QED
  BY <1>2, <1>3, <1>4

(* A block with a closing tag cuts a chunk of whole records off `tail`.       *)
LEMMA BlockWithRecords ==
    ASSUME DumpInv, phase \in Passes, reader = "reading",
           NEW to \in pos + 1 .. LastMark, to >= 2, NEW cut \in Start .. to, IsClose(cut),
           \A i \in Start .. to : IsClose(i) => i <= cut,
           pos' = to, from' = cut + 1, pending' = pending \cup {<<Start, cut>>},
           phase' = phase, reader' = reader, sameAs' = sameAs, edges' = edges, count' = count
    PROVE  ChunksAreWhole' /\ MapSoFar' /\ EdgesSoFar'
<1>1. /\ pos \in Nat /\ from \in Nat /\ to \in Nat /\ LastMark \in Nat /\ Start \in Nat /\ cut \in Nat
      /\ Start % 2 = 0 /\ cut % 2 = 1 /\ 2 <= Start /\ Start < cut /\ cut <= LastMark
      /\ from <= Start
  BY Marks, StartOfBlock DEF DumpInv, TypeOK, IsClose
<1>2. \A c \in pending : IsWhole(c) /\ c[1] \in Nat /\ c[2] \in Nat /\ c[2] < Start
  BY <1>1, StartOfBlock DEF DumpInv, TypeOK, IsWhole
<1>3. ChunksAreWhole'
  <2>1. pos' > 0 /\ from' >= 2 /\ from' <= pos' + 1 /\ from' % 2 = 0
    BY <1>1
  <2>2. \A i \in 1 .. to : IsClose(i) => i < cut + 1
    BY <1>1
  <2>3. \A c \in pending' : IsWhole(c)'
    BY <1>1, <1>2 DEF IsWhole
  <2>4. \A c, d \in pending' : c = d \/ c[2] < d[1] \/ d[2] < c[1]
    <3>1. SUFFICES ASSUME NEW c \in pending', NEW d \in pending'
                   PROVE  c = d \/ c[2] < d[1] \/ d[2] < c[1]
      OBVIOUS
    <3>2. CASE c \in pending /\ d \in pending
      BY <3>2 DEF DumpInv, ChunksAreWhole
    <3>3. CASE c = <<Start, cut>> \/ d = <<Start, cut>>
      BY <3>3, <1>2
    <3>4. QED
      BY <3>2, <3>3
  <2>5. QED
    BY <2>1, <2>2, <2>3, <2>4 DEF ChunksAreWhole, DumpInv
<1>4. MapSoFar'
  <2>1. PairsOf(RecordsBefore(cut + 1)) = PairsOf(RecordsBefore(from)) \cup PairsOf(RecordsOf(<<Start, cut>>))
    BY <1>1, StartOfBlock, RecordsGoOn, PairsOfUnion
  <2>2. UNION {PairsOf(RecordsOf(c)) : c \in pending'} =
            (UNION {PairsOf(RecordsOf(c)) : c \in pending}) \cup PairsOf(RecordsOf(<<Start, cut>>))
    BY PairsOfChunks
  <2>3. QED
    BY <2>1, <2>2 DEF MapSoFar, DumpInv
<1>5. EdgesSoFar'
  <2>1. Frontier' = Frontier /\ Joints' = Joints \cup {cut + 1}
    <3>1. {d[2] + 1 : d \in pending'} = {d[2] + 1 : d \in pending} \cup {cut + 1}
      BY EndsOfChunks
    <3>2. QED
      BY <3>1 DEF Joints, Frontier
  <2>2. ASSUME phase = "pass_2"
        PROVE  /\ count <= Len(Releases) /\ edges = EdgesUpTo(count) /\ Start >= Frontier /\ Start \in Joints
               /\ \A c \in pending : c[1] >= Frontier /\ c[1] \in Joints
    <3>1. count \in Nat
      BY DEF DumpInv, TypeOK
    <3>2. pos = 0 => Start = 2
      BY DEF Start
    <3>3. pos > 0 => Start = from
      BY StartOfBlock
    <3>4. QED
      BY <2>2, <3>1, <3>2, <3>3, <1>1 DEF DumpInv, EdgesSoFar, Joints, Frontier
  <2>3. Frontier \in Int
    BY DEF DumpInv, TypeOK, Frontier
  <2>4. QED
    BY <1>1, <2>1, <2>2, <2>3 DEF EdgesSoFar
<1>6. QED
  BY <1>3, <1>4, <1>5

(* A block that is read keeps the invariant.                                  *)
LEMMA ReadBlockKeepsInv ==
    ASSUME DumpInv, ReadBlock
    PROVE  DumpInv'
<1>1. PICK to \in pos + 1 .. LastMark :
        LET closes == {i \in Start .. to : IsClose(i)}
            cut == CHOOSE i \in closes : \A j \in closes : j <= i
        IN  /\ to >= 2
            /\ pos' = to
            /\ IF closes = {} THEN from' = Start /\ UNCHANGED pending
               ELSE from' = cut + 1 /\ pending' = pending \cup {<<Start, cut>>}
  BY DEF ReadBlock, Start
<1> DEFINE closes == {i \in Start .. to : IsClose(i)}
<1> DEFINE cut == CHOOSE i \in closes : \A j \in closes : j <= i
<1>2. /\ phase \in Passes /\ reader = "reading"
      /\ phase' = phase /\ reader' = reader /\ sameAs' = sameAs /\ edges' = edges /\ count' = count
      /\ attempt' = attempt /\ weight' = weight /\ breaks' = breaks /\ deaths' = deaths
      /\ sameAsFile' = sameAsFile /\ mastersFile' = mastersFile
      /\ UNCHANGED <<graph, fileVars>>
  BY DEF ReadBlock, fileVars, envVars
<1>3. pos \in Nat /\ to \in Nat /\ Start \in 2 .. pos + 2 /\ pos' \in 0 .. LastMark /\ LastMark \in Nat
  BY <1>1, <1>2, Marks, StartOfBlock DEF DumpInv, TypeOK
<1>4. /\ ChunksAreWhole' /\ MapSoFar' /\ EdgesSoFar' /\ from' \in 1 .. LastMark + 1
      /\ pending' \subseteq (1 .. LastMark) \X (1 .. LastMark)
  <2>1. CASE closes = {}
    <3>1. to >= 2 /\ pos' = to /\ from' = Start /\ pending' = pending
      BY <1>1, <2>1
    <3>2. \A i \in Start .. to : ~IsClose(i)
      BY <2>1
    <3>3. ChunksAreWhole' /\ MapSoFar' /\ EdgesSoFar'
      BY <1>2, <3>1, <3>2, BlockWithoutRecord
    <3>4. QED
      BY <1>2, <1>3, <3>1, <3>3 DEF DumpInv, TypeOK
  <2>2. CASE closes # {}
    <3>1. PICK i \in Start .. to : IsClose(i)
      BY <2>2
    <3>2. cut \in closes /\ \A j \in closes : j <= cut
      <4>1. Start \in Nat /\ to \in Nat
        BY <1>3
      <4>2. \E last \in closes : \A j \in closes : j <= last
        BY <4>1, <3>1, LastClose
      <4>3. QED
        BY <4>2
    <3>3. to >= 2 /\ pos' = to /\ from' = cut + 1 /\ pending' = pending \cup {<<Start, cut>>}
      BY <1>1, <2>2
    <3>4. cut \in Start .. to /\ IsClose(cut) /\ \A j \in Start .. to : IsClose(j) => j <= cut
      BY <3>2
    <3> HIDE DEF cut
    <3>5. ChunksAreWhole' /\ MapSoFar' /\ EdgesSoFar'
      BY <1>2, <3>3, <3>4, BlockWithRecords
    <3>6. QED
      BY <1>2, <1>3, <3>3, <3>4, <3>5 DEF DumpInv, TypeOK
  <2>3. QED
    BY <2>1, <2>2
<1>5. /\ EdgesAreWhole' /\ GraphsAreWhole' /\ sameAsFile' \in {None, AllPairs}
      /\ \A g \in Visible' : g = None \/ (g # Torn /\ g.releases \in Nat)
  BY <1>2, PassKeepsGraphs
<1>6. TypeOK'
  BY <1>2, <1>3, <1>4, <1>5 DEF DumpInv, TypeOK
<1>7. MapIsWhole'
  BY <1>2, <1>5 DEF DumpInv, MapIsWhole
<1>8. QED
  BY <1>4, <1>5, <1>6, <1>7 DEF DumpInv

(* What is left at the end of a stream is a chunk without whole records.      *)
LEMMA EndOfStreamKeepsInv ==
    ASSUME DumpInv, EndOfStream
    PROVE  DumpInv'
<1>1. /\ phase \in Passes /\ reader = "reading" /\ pos > 0
      /\ phase' = phase /\ sameAs' = sameAs /\ edges' = edges /\ count' = count
      /\ pos' = pos /\ from' = from
      /\ attempt' = attempt /\ weight' = weight /\ deaths' = deaths
      /\ sameAsFile' = sameAsFile /\ mastersFile' = mastersFile
      /\ UNCHANGED <<graph, fileVars>>
      /\ pending' = IF from <= pos THEN pending \cup {<<from, pos>>} ELSE pending
      /\ reader' \in {"done", "broken"} /\ (reader' = "done" => pos = LastMark)
  BY DEF EndOfStream, fileVars
<1>2. /\ breaks \in 0 .. MaxBreaks /\ MaxBreaks \in Nat /\ breaks' \in 0 .. MaxBreaks
  BY DumpAssumption DEF EndOfStream, DumpInv, TypeOK
<1>3. /\ pos \in Nat /\ from \in Nat /\ LastMark \in Nat /\ pos <= LastMark
      /\ from >= 2 /\ from <= pos + 1 /\ from % 2 = 0
  BY <1>1, Marks DEF DumpInv, TypeOK, ChunksAreWhole
<1>4. \A c \in pending : IsWhole(c) /\ c[1] \in Nat /\ c[2] \in Nat
  BY <1>1, <1>3, StartOfBlock DEF DumpInv, TypeOK
<1>5. ChunksAreWhole'
  <2>1. \A i \in 1 .. pos : IsClose(i) => i < from
    BY <1>1 DEF DumpInv, ChunksAreWhole
  <2>2. \A c \in pending : IsWhole(c)'
    BY <1>1, <1>4 DEF IsWhole
  <2>3. \A c \in pending' : IsWhole(c)' \/ IsRest(c)'
    BY <1>1, <2>2 DEF IsRest
  <2>4. \A c, d \in pending' : c = d \/ c[2] < d[1] \/ d[2] < c[1]
    <3>1. SUFFICES ASSUME NEW c \in pending', NEW d \in pending'
                   PROVE  c = d \/ c[2] < d[1] \/ d[2] < c[1]
      OBVIOUS
    <3>2. CASE c \in pending /\ d \in pending
      BY <3>2, <1>1 DEF DumpInv, ChunksAreWhole
    <3>3. CASE c = <<from, pos>> \/ d = <<from, pos>>
      BY <3>3, <1>1, <1>4 DEF IsWhole
    <3>4. QED
      BY <1>1, <3>2, <3>3
  <2>5. QED
    BY <1>1, <1>3, <2>1, <2>3, <2>4 DEF ChunksAreWhole
<1>6. MapSoFar'
  <2>1. from <= pos => RecordsOf(<<from, pos>>) = {}
    <3>1. from <= pos => ~IsClose(pos)
      BY <1>1, <1>3 DEF DumpInv, ChunksAreWhole
    <3>2. QED
      BY <3>1, RecordsOfRest
  <2>2. PairsOf({}) = {}
    BY DEF PairsOf
  <2>3. UNION {PairsOf(RecordsOf(c)) : c \in pending'} = UNION {PairsOf(RecordsOf(c)) : c \in pending}
    BY <1>1, <2>1, <2>2, PairsOfChunks
  <2>4. QED
    BY <1>1, <2>3 DEF MapSoFar, DumpInv
<1>7. EdgesSoFar'
  <2>1. Frontier' = Frontier /\ Joints \subseteq Joints'
    BY <1>1 DEF Joints, Frontier
  <2>2. \A c \in pending' : c \in pending \/ c[1] = from
    BY <1>1
  <2>3. QED
    BY <1>1, <2>1, <2>2 DEF EdgesSoFar, DumpInv
<1>8. /\ EdgesAreWhole' /\ GraphsAreWhole' /\ sameAsFile' \in {None, AllPairs}
      /\ \A g \in Visible' : g = None \/ (g # Torn /\ g.releases \in Nat)
  BY <1>1, PassKeepsGraphs
<1>9. TypeOK'
  <2>1. pending' \subseteq (1 .. LastMark) \X (1 .. LastMark)
    BY <1>1, <1>3 DEF DumpInv, TypeOK
  <2>2. QED
    BY <1>1, <1>2, <1>8, <2>1 DEF DumpInv, TypeOK
<1>10. MapIsWhole'
  BY <1>1, <1>8 DEF DumpInv, MapIsWhole
<1>11. QED
  BY <1>5, <1>6, <1>7, <1>8, <1>9, <1>10 DEF DumpInv

(* A stream that breaks hands over nothing more.                              *)
LEMMA StreamBreaksKeepsInv ==
    ASSUME DumpInv, StreamBreaks
    PROVE  DumpInv'
<1>1. /\ phase \in Passes /\ reader = "reading"
      /\ phase' = phase /\ sameAs' = sameAs /\ edges' = edges /\ count' = count
      /\ pos' = pos /\ from' = from /\ pending' = pending /\ reader' = "broken"
      /\ attempt' = attempt /\ weight' = weight /\ deaths' = deaths
      /\ sameAsFile' = sameAsFile /\ mastersFile' = mastersFile
      /\ UNCHANGED <<graph, fileVars>>
  BY DEF StreamBreaks, fileVars
<1>2. breaks' \in 0 .. MaxBreaks
  BY DumpAssumption DEF StreamBreaks, DumpInv, TypeOK
<1>3. /\ EdgesAreWhole' /\ GraphsAreWhole' /\ sameAsFile' \in {None, AllPairs}
      /\ \A g \in Visible' : g = None \/ (g # Torn /\ g.releases \in Nat)
  BY <1>1, PassKeepsGraphs
<1>4. ChunksAreWhole'
  <2>1. \A c \in pending : IsWhole(c)'
    BY <1>1, StartOfBlock DEF IsWhole
  <2>2. QED
    BY <1>1, <2>1 DEF DumpInv, ChunksAreWhole
<1>5. MapSoFar' /\ MapIsWhole'
  BY <1>1, <1>3 DEF DumpInv, MapSoFar, MapIsWhole
<1>6. EdgesSoFar'
  BY <1>1 DEF DumpInv, EdgesSoFar, Joints, Frontier
<1>7. TypeOK'
  BY <1>1, <1>2, <1>3 DEF DumpInv, TypeOK
<1>8. QED
  BY <1>3, <1>4, <1>5, <1>6, <1>7 DEF DumpInv

(* A chunk that is merged is a stretch of marks, and overlaps no other.       *)
LEMMA PendingChunks ==
    ASSUME DumpInv, phase \in Passes, NEW c \in pending
    PROVE  /\ c = <<c[1], c[2]>> /\ c[1] \in 1 .. LastMark /\ c[2] \in 1 .. LastMark
           /\ c[1] <= c[2] /\ from \in Nat /\ pos \in Nat /\ pos > 0
           /\ IsWhole(c) \/ (c = <<from, pos>> /\ ~IsClose(pos) /\ RecordsOf(c) = {})
<1>1. c = <<c[1], c[2]>> /\ c[1] \in 1 .. LastMark /\ c[2] \in 1 .. LastMark
  BY DEF DumpInv, TypeOK
<1>2. from \in Nat /\ pos \in Nat /\ pos > 0 /\ LastMark \in Nat
  BY Marks DEF DumpInv, TypeOK, ChunksAreWhole
<1>3. IsWhole(c) \/ IsRest(c)
  BY DEF DumpInv, ChunksAreWhole
<1>4. CASE IsWhole(c)
  BY <1>1, <1>2, <1>4 DEF IsWhole
<1>5. CASE IsRest(c)
  <2>1. c = <<from, pos>> /\ from <= pos
    BY <1>5 DEF IsRest
  <2>2. ~IsClose(pos)
    BY <1>2, <2>1 DEF DumpInv, ChunksAreWhole
  <2>3. RecordsOf(c) = {}
    BY <2>1, <2>2, RecordsOfRest
  <2>4. QED
    BY <1>1, <1>2, <2>1, <2>2, <2>3
<1>6. QED
  BY <1>3, <1>4, <1>5

(* Taking a chunk out leaves whole chunks that do not overlap.                *)
LEMMA MergeKeepsChunks ==
    ASSUME DumpInv, phase \in Passes, NEW c \in pending, pending' = pending \ {c},
           phase' = phase, reader' = reader, pos' = pos, from' = from
    PROVE  ChunksAreWhole'
<1>1. \A d \in pending : IsWhole(d)' = IsWhole(d) /\ IsRest(d)' = IsRest(d)
  BY DEF IsWhole, IsRest
<1>2. QED
  BY <1>1 DEF DumpInv, ChunksAreWhole

(* A merged chunk of pass 1 gives its pairs to the map.                       *)
LEMMA MergeGrowsTheMap ==
    ASSUME DumpInv, phase = "pass_1", NEW c \in pending, pending' = pending \ {c},
           phase' = phase, from' = from,
           sameAs' = sameAs \cup UNION {Paired(Releases[k]) : k \in RecordsOf(c)}
    PROVE  MapSoFar'
<1>1. sameAs' = sameAs \cup PairsOf(RecordsOf(c))
  BY DEF PairsOf
<1>2. pending = pending' \cup {c}
  OBVIOUS
<1>3. UNION {PairsOf(RecordsOf(d)) : d \in pending} =
          (UNION {PairsOf(RecordsOf(d)) : d \in pending'}) \cup PairsOf(RecordsOf(c))
  BY <1>2, PairsOfChunks
<1>4. QED
  BY <1>1, <1>3 DEF DumpInv, MapSoFar

(* The chunk pass 2 merges next begins where the merged records end.          *)
LEMMA FirstChunkIsNext ==
    ASSUME DumpInv, phase = "pass_2", NEW c \in pending, \A d \in pending : c[1] <= d[1]
    PROVE  c[1] = Frontier /\ \A d \in pending : d # c => d[1] > c[2]
<1>1. phase \in Passes /\ Frontier \in Int
  BY DEF Passes, Frontier, DumpInv, TypeOK
<1>2. \A d \in pending : d[1] \in Nat /\ d[2] \in Nat /\ d[1] <= d[2]
  BY <1>1, PendingChunks, Marks
<1>3. c[1] >= Frontier /\ c[1] \in Joints
  BY DEF DumpInv, EdgesSoFar
<1>4. ASSUME NEW d \in pending, d[2] + 1 = c[1] PROVE FALSE
  BY <1>2, <1>4
<1>5. c[1] = Frontier
  BY <1>3, <1>4 DEF Joints
<1>6. \A d \in pending : d # c => d[1] > c[2]
  BY <1>1, <1>2 DEF DumpInv, ChunksAreWhole
<1>7. QED
  BY <1>5, <1>6

(* A whole chunk that begins there holds the records that come next.          *)
LEMMA NextRecords ==
    ASSUME NEW n \in Nat, NEW a \in 1 .. LastMark, NEW b \in 1 .. LastMark,
           a = 2 * n + 2, b % 2 = 1, a < b
    PROVE  \E m \in Nat : /\ b = 2 * m + 1 /\ n < m /\ m <= Len(Releases)
                          /\ RecordsOf(<<a, b>>) = n + 1 .. m
                          /\ Cardinality(RecordsOf(<<a, b>>)) = m - n
<1>1. PICK m \in Nat : b = 2 * m + 1
  BY Marks
<1>2. n < m /\ m <= Len(Releases)
  BY <1>1, Marks
<1>3. a % 2 = 0
  OBVIOUS
<1>4. RecordsOf(<<a, b>>) = n + 1 .. m
  <2>1. RecordsOf(<<a, b>>) = {k \in DOMAIN Releases : a <= 2 * k /\ 2 * k + 1 <= b}
    BY <1>3, RecordsOfWhole
  <2>2. \A k \in 1 .. Len(Releases) : a <= 2 * k /\ 2 * k + 1 <= b <=> k \in n + 1 .. m
    BY <1>1, Marks
  <2>3. n + 1 .. m \subseteq 1 .. Len(Releases)
    BY <1>2, Marks
  <2>4. QED
    BY <2>1, <2>2, <2>3, Marks
<1>5. Cardinality(n + 1 .. m) = m - n
  BY <1>2, FS_Interval
<1>6. QED
  BY <1>1, <1>2, <1>4, <1>5

(* The edges of the records that follow are added to those before.            *)
LEMMA EdgesGoOn ==
    ASSUME NEW n \in Nat, NEW m \in Nat, n <= m
    PROVE  EdgesUpTo(m) = EdgesUpTo(n) \cup UNION {EdgesOf(AllPairs, k) : k \in n + 1 .. m}
<1>1. 1 .. m = (1 .. n) \cup (n + 1 .. m)
  OBVIOUS
<1>2. QED
  BY <1>1 DEF EdgesUpTo

(* Pass 2 has then merged the records up to the end of the chunk, and the rest *)
(* goes on from there.                                                        *)
LEMMA MergeGrowsTheEdges ==
    ASSUME DumpInv, phase = "pass_2", NEW c \in pending, pending' = pending \ {c},
           \A d \in pending : c[1] <= d[1],
           phase' = phase, from' = from, pos' = pos,
           edges' = edges \cup UNION {EdgesOf(sameAs, k) : k \in RecordsOf(c)},
           count' = count + Cardinality(RecordsOf(c))
    PROVE  EdgesSoFar' /\ count' \in Nat
<1>1. /\ phase \in Passes /\ count \in Nat /\ Frontier \in Int /\ sameAs = AllPairs
      /\ count <= Len(Releases) /\ edges = EdgesUpTo(count)
  BY DEF Passes, DumpInv, TypeOK, Frontier, EdgesSoFar, MapIsWhole
<1>2. \A d \in pending : d[1] \in Nat /\ d[2] \in Nat /\ d[1] <= d[2]
  BY <1>1, PendingChunks, Marks
<1>3. /\ c = <<c[1], c[2]>> /\ c[1] \in 1 .. LastMark /\ c[2] \in 1 .. LastMark
      /\ from \in Nat /\ pos \in Nat /\ pos > 0
      /\ IsWhole(c) \/ (c = <<from, pos>> /\ RecordsOf(c) = {})
  BY <1>1, PendingChunks
<1>4. c[1] = Frontier /\ \A d \in pending : d # c => d[1] > c[2]
  BY FirstChunkIsNext
<1>5. /\ from >= Frontier /\ from \in Joints
      /\ \A d \in pending : d[1] >= Frontier /\ d[1] \in Joints
  BY <1>3 DEF DumpInv, EdgesSoFar
<1>6. CASE IsWhole(c)
  <2>1. c[1] = 2 * count + 2 /\ c[2] % 2 = 1 /\ c[1] < c[2] /\ c[2] < from
    BY <1>4, <1>6 DEF IsWhole, Frontier
  <2>2. PICK m \in Nat : /\ c[2] = 2 * m + 1 /\ count < m /\ m <= Len(Releases)
                         /\ RecordsOf(c) = count + 1 .. m
                         /\ Cardinality(RecordsOf(c)) = m - count
    BY <1>1, <1>3, <2>1, NextRecords
  <2>3. count' = m
    BY <1>1, <2>2
  <2>4. edges' = EdgesUpTo(m)
    BY <1>1, <2>2, EdgesGoOn
  <2>5. Frontier' = c[2] + 1
    BY <2>2, <2>3 DEF Frontier
  <2>6. \A mark \in Joints : mark > c[2] => mark \in Joints'
    <3>1. SUFFICES ASSUME NEW mark \in Joints, mark > c[2] PROVE mark \in Joints'
      OBVIOUS
    <3>2. mark # Frontier
      BY <1>3, <1>4, <2>1, <3>1
    <3>3. PICK d \in pending : mark = d[2] + 1
      BY <3>2 DEF Joints
    <3>4. CASE d = c
      BY <2>5, <3>3, <3>4 DEF Joints
    <3>5. CASE d # c
      BY <3>3, <3>5 DEF Joints
    <3>6. QED
      BY <3>4, <3>5
  <2>7. from >= c[2] + 1 /\ from \in Joints'
    BY <1>3, <1>5, <2>1, <2>6
  <2>8. \A d \in pending' : d[1] >= c[2] + 1 /\ d[1] \in Joints'
    BY <1>2, <1>3, <1>4, <1>5, <2>6
  <2>9. QED
    BY <1>3, <2>2, <2>3, <2>4, <2>5, <2>7, <2>8 DEF EdgesSoFar
<1>7. CASE c = <<from, pos>> /\ RecordsOf(c) = {}
  <2>1. Cardinality(RecordsOf(c)) = 0
    BY <1>7, FS_EmptySet
  <2>2. count' = count /\ edges' = edges /\ Frontier' = Frontier
    BY <1>1, <1>7, <2>1 DEF Frontier
  <2>3. pending' = {}
    <3>1. SUFFICES ASSUME NEW d \in pending, d # c PROVE FALSE
      OBVIOUS
    <3>2. IsWhole(d) \/ d = <<from, pos>>
      BY <1>1, PendingChunks
    <3>3. d[2] < from /\ d[1] > c[2] /\ c[2] >= c[1] /\ c[1] = from
      BY <1>2, <1>4, <1>7, <3>1, <3>2 DEF IsWhole
    <3>4. QED
      BY <1>2, <1>3, <3>3
  <2>4. from = Frontier
    BY <1>4, <1>7
  <2>5. QED
    BY <1>1, <1>3, <2>2, <2>3, <2>4 DEF EdgesSoFar, Joints
<1>8. QED
  BY <1>3, <1>6, <1>7

(* Merging a chunk keeps the invariant.                                       *)
LEMMA MergeKeepsInv ==
    ASSUME DumpInv, Merge
    PROVE  DumpInv'
<1>1. /\ phase \in Passes /\ phase' = phase /\ reader' = reader /\ pos' = pos /\ from' = from
      /\ attempt' = attempt /\ weight' = weight /\ breaks' = breaks /\ deaths' = deaths
      /\ sameAsFile' = sameAsFile /\ mastersFile' = mastersFile
      /\ UNCHANGED <<graph, fileVars>>
  BY DEF Merge, fileVars, envVars
<1>2. PICK c \in pending :
        /\ phase = "pass_2" => \A d \in pending : c[1] <= d[1]
        /\ pending' = pending \ {c}
        /\ phase = "pass_1" =>
             /\ sameAs' = sameAs \cup UNION {Paired(Releases[k]) : k \in RecordsOf(c)}
             /\ edges' = edges /\ count' = count
        /\ phase # "pass_1" =>
             /\ edges' = edges \cup UNION {EdgesOf(sameAs, k) : k \in RecordsOf(c)}
             /\ count' = count + Cardinality(RecordsOf(c))
             /\ sameAs' = sameAs
  BY DEF Merge
<1>3. /\ EdgesAreWhole' /\ GraphsAreWhole' /\ sameAsFile' \in {None, AllPairs}
      /\ \A g \in Visible' : g = None \/ (g # Torn /\ g.releases \in Nat)
  BY <1>1, PassKeepsGraphs
<1>4. ChunksAreWhole'
  BY <1>1, <1>2, MergeKeepsChunks
<1>5. CASE phase = "pass_1"
  <2>1. MapSoFar'
    BY <1>1, <1>2, <1>5, MergeGrowsTheMap
  <2>2. EdgesSoFar' /\ MapIsWhole'
    BY <1>1, <1>3, <1>5 DEF EdgesSoFar, MapIsWhole
  <2>3. sameAs' \subseteq Names \X Artists
    <3>1. UNION {Paired(Releases[k]) : k \in RecordsOf(c)} = PairsOf(RecordsOf(c))
      BY DEF PairsOf
    <3>2. RecordsOf(c) \subseteq DOMAIN Releases
      BY DEF RecordsOf
    <3>3. QED
      BY <1>2, <1>5, <3>1, <3>2, AllPairsType DEF DumpInv, TypeOK
  <2>4. TypeOK'
    BY <1>1, <1>2, <1>3, <1>5, <2>3 DEF DumpInv, TypeOK
  <2>5. QED
    BY <1>3, <1>4, <2>1, <2>2, <2>4 DEF DumpInv
<1>6. CASE phase = "pass_2"
  <2>1. EdgesSoFar' /\ count' \in Nat
    BY <1>1, <1>2, <1>6, MergeGrowsTheEdges
  <2>2. MapSoFar' /\ MapIsWhole'
    BY <1>1, <1>2, <1>3, <1>6 DEF DumpInv, MapSoFar, MapIsWhole
  <2>3. TypeOK'
    BY <1>1, <1>2, <1>3, <1>6, <2>1 DEF DumpInv, TypeOK
  <2>4. QED
    BY <1>3, <1>4, <2>1, <2>2, <2>3 DEF DumpInv
<1>7. QED
  BY <1>1, <1>5, <1>6 DEF Passes

-----------------------------------------------------------------------------
(* A run, from its start to its end.                                         *)

(* A graph in a file is the whole one, and so is one that is passed on.       *)
LEMMA VisibleGraphs ==
    ASSUME DumpInv
    PROVE  /\ graph \in {None, WholeGraph} /\ graphFile \in {None, WholeGraph}
           /\ \A w \in DOMAIN Weights : outputs[w] \in {None, WholeGraph}
BY DEF DumpInv, GraphsAreWhole, Visible

(* What a pass starts from is sound.                                          *)
LEMMA StartPassSound ==
    ASSUME NEW p \in Passes, StartPass(p), p = "pass_1" => sameAs' = {}
    PROVE  /\ ChunksAreWhole' /\ MapSoFar' /\ EdgesSoFar' /\ EdgesAreWhole'
           /\ phase' = p /\ reader' = "reading" /\ pos' = 0 /\ from' = 1 /\ pending' = {}
           /\ edges' = {} /\ count' = 0
<1>1. /\ phase' = p /\ reader' = "reading" /\ pos' = 0 /\ from' = 1 /\ pending' = {}
      /\ edges' = {} /\ count' = 0
  BY DEF StartPass, FreshStream
<1>2. ChunksAreWhole'
  BY <1>1 DEF ChunksAreWhole
<1>3. MapSoFar'
  BY <1>1, RecordsAtTheEnds DEF MapSoFar, PairsOf
<1>4. EdgesSoFar'
  BY <1>1, Marks DEF EdgesSoFar, EdgesUpTo
<1>5. EdgesAreWhole'
  BY <1>1 DEF EdgesAreWhole, Passes
<1>6. QED
  BY <1>1, <1>2, <1>3, <1>4, <1>5

(* A run that ends, for whatever reason, leaves only files.                   *)
LEMMA StopKeepsInv ==
    ASSUME DumpInv, Stop, sameAsFile' = sameAsFile, mastersFile' = mastersFile,
           Visible' \subseteq {None, WholeGraph}, DOMAIN outputs' = DOMAIN Weights,
           breaks' = breaks, deaths' \in 0 .. MaxDeaths
    PROVE  DumpInv'
<1>1. /\ phase' = "off" /\ attempt' = 1 /\ reader' = "reading" /\ pos' = 0 /\ from' = 1
      /\ pending' = {} /\ sameAs' = {} /\ edges' = {} /\ count' = 0 /\ graph' = None /\ weight' = 1
  BY DEF Stop, FreshStream
<1>2. TypeOK'
  <2>1. \A g \in Visible' : g = None \/ (g # Torn /\ g.releases \in Nat)
    BY VisibleType
  <2>2. attempt' \in 1 .. MaxAttempts /\ weight' \in DOMAIN Weights
    BY <1>1, DumpAssumption
  <2>3. QED
    BY <1>1, <2>1, <2>2, Marks DEF DumpInv, TypeOK, Phases, Passes
<1>3. ChunksAreWhole' /\ MapSoFar' /\ EdgesSoFar' /\ EdgesAreWhole' /\ MapIsWhole'
  BY <1>1 DEF DumpInv, ChunksAreWhole, MapSoFar, EdgesSoFar, EdgesAreWhole, MapIsWhole, Passes
<1>4. GraphsAreWhole'
  BY <1>1 DEF GraphsAreWhole
<1>5. QED
  BY <1>2, <1>3, <1>4 DEF DumpInv

(* It may end between any two of its steps.                                   *)
LEMMA StopOnly ==
    ASSUME DumpInv, Stop, UNCHANGED <<fileVars, breaks>>, deaths' \in 0 .. MaxDeaths
    PROVE  DumpInv'
<1>1. /\ sameAsFile' = sameAsFile /\ mastersFile' = mastersFile /\ graphFile' = graphFile
      /\ outputs' = outputs /\ breaks' = breaks /\ graph' = None
  BY DEF fileVars, Stop
<1>2. Visible' \subseteq {None, WholeGraph} /\ DOMAIN outputs' = DOMAIN Weights
  BY <1>1, VisibleGraphs DEF DumpInv, GraphsAreWhole, Visible
<1>3. QED
  BY <1>1, <1>2, StopKeepsInv

(* A run starts from the first checkpoint it finds, whose content is whole.   *)
LEMMA RunKeepsInv ==
    ASSUME DumpInv, Run
    PROVE  DumpInv'
<1>1. /\ sameAsFile' = sameAsFile /\ mastersFile' = mastersFile /\ graphFile' = graphFile
      /\ outputs' = outputs /\ breaks' = breaks /\ deaths' = deaths /\ weight' = weight
      /\ attempt' = attempt /\ phase = "off"
  BY DEF Run, LoadGraph, LoadSameAs, StartAfresh, fileVars, envVars, passVars
<1>2. CASE graphFile # None /\ graph' = graphFile /\ phase' = "delete" /\ UNCHANGED passVars
  <2>1. /\ attempt' = attempt /\ reader' = reader /\ pos' = pos /\ from' = from /\ pending' = pending
        /\ sameAs' = sameAs /\ edges' = edges /\ count' = count
    BY <1>2 DEF passVars, streamVars
  <2>2. graph' = WholeGraph
    BY <1>2, VisibleGraphs
  <2>3. Visible' \subseteq {None, WholeGraph}
    BY <1>1, <2>2, VisibleGraphs DEF Visible
  <2>4. GraphsAreWhole'
    BY <1>1, <2>2, <2>3 DEF DumpInv, GraphsAreWhole
  <2>5. TypeOK'
    BY <1>1, <1>2, <2>1, <2>3, VisibleType DEF DumpInv, TypeOK, Phases
  <2>6. ChunksAreWhole' /\ MapSoFar' /\ EdgesSoFar' /\ EdgesAreWhole' /\ MapIsWhole'
    BY <1>1, <1>2 DEF DumpInv, ChunksAreWhole, MapSoFar, EdgesSoFar, EdgesAreWhole, MapIsWhole, Passes
  <2>7. QED
    BY <2>4, <2>5, <2>6 DEF DumpInv
<1>3. ASSUME NEW p \in Passes, StartPass(p), graph' = graph, p = "pass_1" => sameAs' = {},
             p = "pass_2" => sameAs' = AllPairs
      PROVE  DumpInv'
  <2>1. /\ ChunksAreWhole' /\ MapSoFar' /\ EdgesSoFar' /\ EdgesAreWhole'
        /\ phase' = p /\ reader' = "reading" /\ pos' = 0 /\ from' = 1 /\ pending' = {}
        /\ edges' = {} /\ count' = 0
    BY <1>3, StartPassSound
  <2>2. GraphsAreWhole'
    BY <1>1, <1>3, <2>1, VisibleStays DEF DumpInv, GraphsAreWhole, Passes
  <2>3. MapIsWhole'
    BY <1>1, <1>3, <2>1 DEF DumpInv, MapIsWhole, Passes
  <2>4. TypeOK'
    <3>1. \A g \in Visible' : g = None \/ (g # Torn /\ g.releases \in Nat)
      BY <2>2, VisibleType DEF GraphsAreWhole
    <3>2. sameAs' \subseteq Names \X Artists
      BY <1>3, AllPairsType DEF AllPairs, Passes
    <3>3. phase' \in Phases
      BY <2>1 DEF Phases
    <3>4. QED
      BY <1>1, <2>1, <3>1, <3>2, <3>3, Marks DEF DumpInv, TypeOK
  <2>5. QED
    BY <2>1, <2>2, <2>3, <2>4 DEF DumpInv
<1>4. CASE graphFile = None /\ sameAsFile # None /\ sameAs' = sameAsFile /\ StartPass("pass_2")
           /\ graph' = graph
  <2>1. sameAs' = AllPairs
    BY <1>4 DEF DumpInv, MapIsWhole
  <2>2. QED
    BY <1>3, <1>4, <2>1 DEF Passes
<1>5. CASE StartPass("pass_1") /\ graph' = graph /\ sameAs' = sameAs
  <2>1. sameAs = {}
    BY <1>1 DEF DumpInv, MapIsWhole
  <2>2. QED
    BY <1>3, <1>5, <2>1 DEF Passes
<1>6. QED
  BY <1>2, <1>4, <1>5 DEF Run, LoadGraph, LoadSameAs, StartAfresh

(* Outside the passes only the files, the graph and the edges matter.         *)
LEMMA LaterStep ==
    ASSUME DumpInv, phase' \in Phases \ (Passes \cup {"off"}),
           UNCHANGED <<attempt, streamVars>> \/ (attempt' = 1 /\ FreshStream),
           sameAs' \in {sameAs, {}}, count' \in {count, 0}, sameAsFile' = sameAsFile,
           mastersFile' \in {"absent", "there", "deleted"}, weight' \in DOMAIN Weights,
           breaks' = breaks, deaths' = deaths,
           phase' \in {"save_same_as", "replace_same_as"} => sameAs' = AllPairs,
           EdgesAreWhole', GraphsAreWhole'
    PROVE  DumpInv'
<1>1. phase' \notin Passes /\ phase' # "off" /\ phase' \in Phases
  OBVIOUS
<1>2. phase' # "pass_1" /\ phase' # "pass_2"
  BY <1>1 DEF Passes
<1>3. ChunksAreWhole' /\ MapSoFar' /\ EdgesSoFar'
  BY <1>1, <1>2 DEF ChunksAreWhole, MapSoFar, EdgesSoFar
<1>4. MapIsWhole'
  BY <1>1, <1>2 DEF DumpInv, MapIsWhole
<1>5. /\ attempt' \in 1 .. MaxAttempts /\ reader' \in {"reading", "done", "broken"}
      /\ pos' \in 0 .. LastMark /\ from' \in 1 .. LastMark + 1
      /\ pending' \subseteq (1 .. LastMark) \X (1 .. LastMark)
  <2>1. CASE UNCHANGED <<attempt, streamVars>>
    BY <2>1 DEF streamVars, DumpInv, TypeOK
  <2>2. CASE attempt' = 1 /\ FreshStream
    BY <2>2, DumpAssumption, Marks DEF FreshStream
  <2>3. QED
    BY <2>1, <2>2
<1>6. \A g \in Visible' : g = None \/ (g # Torn /\ g.releases \in Nat)
  BY VisibleType DEF GraphsAreWhole
<1>7. TypeOK'
  BY <1>1, <1>5, <1>6 DEF DumpInv, TypeOK
<1>8. QED
  BY <1>3, <1>4, <1>7 DEF DumpInv

(* A pass that fails is redone from nothing, or ends the run.                 *)
LEMMA PassFailsKeepsInv ==
    ASSUME DumpInv, PassFails
    PROVE  DumpInv'
<1>1. /\ phase \in Passes /\ UNCHANGED <<fileVars, breaks>> /\ deaths' = deaths /\ breaks' = breaks
      /\ sameAsFile' = sameAsFile /\ mastersFile' = mastersFile /\ UNCHANGED fileVars
  BY DEF PassFails, fileVars, envVars
<1>2. deaths \in 0 .. MaxDeaths
  BY DEF DumpInv, TypeOK
<1>3. CASE Stop
  BY <1>1, <1>2, <1>3, StopOnly
<1>4. CASE /\ attempt < MaxAttempts /\ attempt' = attempt + 1 /\ StartPass(phase)
           /\ sameAs' = IF phase = "pass_1" THEN {} ELSE sameAs
           /\ graph' = graph /\ weight' = weight
  <2>1. /\ ChunksAreWhole' /\ MapSoFar' /\ EdgesSoFar' /\ EdgesAreWhole'
        /\ phase' = phase /\ reader' = "reading" /\ pos' = 0 /\ from' = 1 /\ pending' = {}
        /\ edges' = {} /\ count' = 0
    BY <1>1, <1>4, StartPassSound
  <2>2. /\ GraphsAreWhole' /\ \A g \in Visible' : g = None \/ (g # Torn /\ g.releases \in Nat)
    BY <1>1, <1>4, <2>1, PassKeepsGraphs
  <2>3. MapIsWhole'
    BY <1>1, <1>4, <2>1 DEF DumpInv, MapIsWhole, Passes
  <2>4. attempt' \in 1 .. MaxAttempts
    BY <1>4, DumpAssumption DEF DumpInv, TypeOK
  <2>5. TypeOK'
    BY <1>1, <1>4, <2>1, <2>2, <2>4, Marks DEF DumpInv, TypeOK
  <2>6. QED
    BY <2>1, <2>2, <2>3, <2>5 DEF DumpInv
<1>5. QED
  BY <1>3, <1>4 DEF PassFails

(* A pass that ends has merged every record.                                  *)
LEMMA PassEndsKeepsInv ==
    ASSUME DumpInv, PassEnds
    PROVE  DumpInv'
<1>1. /\ phase \in Passes /\ reader = "done" /\ pending = {}
      /\ phase' = IF phase = "pass_1" THEN "save_same_as" ELSE "masters"
      /\ attempt' = 1 /\ FreshStream
      /\ sameAs' = sameAs /\ edges' = edges /\ count' = count /\ weight' = weight
      /\ breaks' = breaks /\ deaths' = deaths
      /\ sameAsFile' = sameAsFile /\ mastersFile' = mastersFile
      /\ UNCHANGED <<graph, graphFile, outputs>>
  BY DEF PassEnds, fileVars, envVars
<1>2. pos = LastMark /\ pos > 0 /\ from \in Nat /\ from > 2 * Len(Releases) + 1
  <2>1. pos = LastMark /\ from \in Nat /\ IsClose(2 * Len(Releases) + 1) /\ 2 * Len(Releases) + 1 \in 1 .. pos
    BY <1>1, Marks DEF DumpInv, TypeOK, ChunksAreWhole, IsClose
  <2>2. QED
    BY <1>1, <2>1, Marks DEF DumpInv, ChunksAreWhole
<1>3. phase = "pass_1" => sameAs = AllPairs
  <2>1. UNION {PairsOf(RecordsOf(c)) : c \in pending} = {}
    BY <1>1
  <2>2. RecordsBefore(from) = DOMAIN Releases
    BY <1>2, RecordsAtTheEnds
  <2>3. QED
    BY <2>1, <2>2 DEF DumpInv, MapSoFar, AllPairs
<1>4. phase = "pass_2" => count = Len(Releases) /\ edges = EdgesUpTo(Len(Releases))
  <2>1. SUFFICES ASSUME phase = "pass_2" PROVE count = Len(Releases) /\ edges = EdgesUpTo(Len(Releases))
    OBVIOUS
  <2>2. /\ count \in Nat /\ count <= Len(Releases) /\ edges = EdgesUpTo(count)
        /\ from \in Joints
    BY <1>2, <2>1 DEF DumpInv, TypeOK, EdgesSoFar
  <2>3. from = 2 * count + 2
    BY <1>1, <2>2 DEF Joints, Frontier
  <2>4. count = Len(Releases)
    <3>1. \A n, m \in Nat : n <= m /\ 2 * n + 2 > 2 * m + 1 => n = m
      OBVIOUS
    <3>2. 2 * count + 2 > 2 * Len(Releases) + 1 /\ Len(Releases) \in Nat
      BY <1>2, <2>3, Marks
    <3>3. QED
      BY <2>2, <3>1, <3>2
  <2>5. QED
    BY <2>2, <2>4
<1>5. EdgesAreWhole'
  BY <1>1, <1>4 DEF EdgesAreWhole, Passes
<1>6. GraphsAreWhole'
  BY <1>1, VisibleStays DEF DumpInv, GraphsAreWhole
<1>7. phase' \in Phases \ (Passes \cup {"off"})
  BY <1>1 DEF Phases, Passes
<1>8. phase' \in {"save_same_as", "replace_same_as"} => sameAs' = AllPairs
  BY <1>1, <1>3
<1>9. weight' \in DOMAIN Weights /\ mastersFile' \in {"absent", "there", "deleted"}
  BY <1>1 DEF DumpInv, TypeOK
<1>10. QED
  BY <1>1, <1>5, <1>6, <1>7, <1>8, <1>9, LaterStep

(* The masters dump adds its edges, and is then kept.                         *)
LEMMA MastersPassKeepsInv ==
    ASSUME DumpInv, MastersPass
    PROVE  DumpInv'
<1>1. /\ phase = "masters" /\ phase' = "build" /\ mastersFile' = "there"
      /\ edges' = edges \cup MasterEdges /\ count' = count /\ sameAs' = sameAs /\ weight' = weight
      /\ UNCHANGED <<attempt, streamVars>> /\ breaks' = breaks /\ deaths' = deaths
      /\ sameAsFile' = sameAsFile /\ UNCHANGED <<graph, graphFile, outputs>>
  BY DEF MastersPass, MastersPassThen, envVars
<1>2. EdgesAreWhole'
  BY <1>1 DEF DumpInv, EdgesAreWhole
<1>3. GraphsAreWhole'
  BY <1>1, VisibleStays DEF DumpInv, GraphsAreWhole
<1>4. phase' \in Phases \ (Passes \cup {"off"}) /\ weight' \in DOMAIN Weights
  BY <1>1 DEF Phases, Passes, DumpInv, TypeOK
<1>5. QED
  BY <1>1, <1>2, <1>3, <1>4, LaterStep

(* The graph is built from the edges of both dumps.                           *)
LEMMA BuildKeepsInv ==
    ASSUME DumpInv, Build
    PROVE  DumpInv'
<1>1. /\ phase = "build" /\ phase' = "save_graph"
      /\ graph' = [edges |-> edges, releases |-> count, masters |-> Len(Masters)]
      /\ sameAs' = {} /\ count' = 0 /\ weight' = weight
      /\ UNCHANGED <<attempt, streamVars>> /\ breaks' = breaks /\ deaths' = deaths
      /\ sameAsFile' = sameAsFile /\ mastersFile' = mastersFile
      /\ graphFile' = graphFile /\ outputs' = outputs
  BY DEF Build, envVars, fileVars
<1>2. EdgesAreWhole'
  BY <1>1 DEF EdgesAreWhole
<1>3. graph' = WholeGraph
  BY <1>1 DEF DumpInv, EdgesAreWhole, WholeGraph
<1>4. Visible' \subseteq {None, WholeGraph}
  BY <1>1, <1>3, VisibleGraphs DEF Visible
<1>5. GraphsAreWhole'
  BY <1>1, <1>3, <1>4 DEF DumpInv, GraphsAreWhole
<1>6. /\ phase' \in Phases \ (Passes \cup {"off"}) /\ weight' \in DOMAIN Weights
      /\ mastersFile' \in {"absent", "there", "deleted"}
  BY <1>1 DEF Phases, Passes, DumpInv, TypeOK
<1>7. QED
  BY <1>1, <1>2, <1>5, <1>6, LaterStep

(* Nothing in its place changes while a file is written beside it and closed. *)
LEMMA WritingKeepsInv ==
    ASSUME DumpInv, SaveSameAs \/ SaveGraph \/ WriteVectors \/ Close
    PROVE  DumpInv'
<1>1. /\ \/ phase = "save_same_as" /\ phase' = "replace_same_as"
         \/ phase = "save_graph" /\ phase' = "replace_graph"
         \/ phase = "fastrp" /\ phase' = "replace_output"
         \/ phase \in {"replace_same_as", "replace_graph", "replace_output"} /\ phase' = phase
      /\ UNCHANGED <<attempt, streamVars>> /\ sameAs' = sameAs /\ count' = count /\ edges' = edges
      /\ breaks' = breaks /\ deaths' = deaths /\ weight' = weight
      /\ sameAsFile' = sameAsFile /\ mastersFile' = mastersFile
      /\ UNCHANGED <<graph, graphFile, outputs>>
  BY DEF SaveSameAs, SaveGraph, WriteVectors, Close, WriteBeside, passVars, envVars
<1>2. EdgesAreWhole'
  BY <1>1 DEF EdgesAreWhole
<1>3. GraphsAreWhole'
  BY <1>1, VisibleStays DEF DumpInv, GraphsAreWhole
<1>4. /\ phase' \in Phases \ (Passes \cup {"off"}) /\ weight' \in DOMAIN Weights
      /\ mastersFile' \in {"absent", "there", "deleted"}
  BY <1>1 DEF Phases, Passes, DumpInv, TypeOK
<1>5. phase' \in {"save_same_as", "replace_same_as"} => sameAs' = AllPairs
  BY <1>1 DEF DumpInv, MapIsWhole
<1>6. QED
  BY <1>1, <1>2, <1>3, <1>4, <1>5, LaterStep

(* The whole map becomes its checkpoint, and pass 2 starts from it.           *)
LEMMA ReplaceSameAsKeepsInv ==
    ASSUME DumpInv, BesideIsWhole, ReplaceSameAs
    PROVE  DumpInv'
<1>1. /\ phase = "replace_same_as" /\ sameAsFile' = AllPairs /\ sameAs' = sameAs /\ StartPass("pass_2")
      /\ attempt' = attempt /\ breaks' = breaks /\ deaths' = deaths /\ weight' = weight
      /\ mastersFile' = mastersFile /\ outputs' = outputs /\ UNCHANGED <<graph, graphFile, outputs>>
  BY DEF ReplaceSameAs, BesideIsWhole, envVars
<1>2. sameAs = AllPairs
  BY <1>1 DEF DumpInv, MapIsWhole
<1>3. /\ ChunksAreWhole' /\ MapSoFar' /\ EdgesSoFar' /\ EdgesAreWhole'
      /\ phase' = "pass_2" /\ reader' = "reading" /\ pos' = 0 /\ from' = 1 /\ pending' = {}
      /\ edges' = {} /\ count' = 0
  BY <1>1, StartPassSound DEF Passes
<1>4. GraphsAreWhole'
  BY <1>1, <1>3, VisibleStays DEF DumpInv, GraphsAreWhole
<1>5. MapIsWhole'
  BY <1>1, <1>2, <1>3 DEF MapIsWhole
<1>6. TypeOK'
  <2>1. \A g \in Visible' : g = None \/ (g # Torn /\ g.releases \in Nat)
    BY <1>4, VisibleType DEF GraphsAreWhole
  <2>2. phase' \in Phases
    BY <1>3 DEF Phases, Passes
  <2>3. sameAsFile' \subseteq Names \X Artists
    BY <1>1, AllPairsType DEF AllPairs
  <2>4. QED
    BY <1>1, <1>3, <2>1, <2>2, <2>3, Marks DEF DumpInv, TypeOK
<1>7. QED
  BY <1>3, <1>4, <1>5, <1>6 DEF DumpInv

(* A graph that is kept or passed on is the whole one.                        *)
LEMMA KeepingKeepsInv ==
    ASSUME DumpInv, BesideIsWhole, ReplaceGraph \/ DeleteDumps
    PROVE  DumpInv'
<1>1. /\ \/ phase = "replace_graph" /\ graphFile' = WholeGraph /\ phase' = "delete" /\ mastersFile' = mastersFile
         \/ phase = "delete" /\ graphFile' = graphFile /\ phase' = "fastrp" /\ mastersFile' = "deleted"
      /\ UNCHANGED <<attempt, streamVars>> /\ sameAs' = sameAs /\ count' = count
      /\ breaks' = breaks /\ deaths' = deaths /\ weight' = weight
      /\ sameAsFile' = sameAsFile /\ graph' = graph /\ outputs' = outputs
  BY DEF ReplaceGraph, MoveGraph, BesideIsWhole, DeleteDumps, passVars, envVars
<1>2. EdgesAreWhole'
  BY <1>1 DEF EdgesAreWhole
<1>3. Visible' \subseteq {None, WholeGraph}
  BY <1>1, VisibleGraphs DEF Visible
<1>4. GraphsAreWhole'
  BY <1>1, <1>3 DEF DumpInv, GraphsAreWhole
<1>5. /\ phase' \in Phases \ (Passes \cup {"off"}) /\ weight' \in DOMAIN Weights
      /\ mastersFile' \in {"absent", "there", "deleted"}
  BY <1>1 DEF Phases, Passes, DumpInv, TypeOK
<1>6. QED
  BY <1>1, <1>2, <1>4, <1>5, LaterStep

(* The vectors of a weight are those of the whole graph.                      *)
LEMMA ReplaceOutputKeepsInv ==
    ASSUME DumpInv, BesideIsWhole, ReplaceOutput
    PROVE  DumpInv'
<1>1. /\ phase = "replace_output" /\ outputs' = [outputs EXCEPT ![weight] = WholeGraph]
      /\ breaks' = breaks /\ deaths' = deaths
      /\ sameAsFile' = sameAsFile /\ graphFile' = graphFile /\ mastersFile' = mastersFile
  BY DEF ReplaceOutput, BesideIsWhole, envVars
<1>2. /\ DOMAIN outputs' = DOMAIN Weights
      /\ \A w \in DOMAIN Weights : outputs'[w] \in {None, WholeGraph}
  BY <1>1, VisibleGraphs DEF DumpInv, GraphsAreWhole
<1>3. graph' \in {graph, None} => Visible' \subseteq {None, WholeGraph}
  BY <1>1, <1>2, VisibleGraphs DEF Visible
<1>4. CASE Stop
  <2>1. Visible' \subseteq {None, WholeGraph}
    BY <1>3, <1>4 DEF Stop
  <2>2. deaths' \in 0 .. MaxDeaths
    BY <1>1 DEF DumpInv, TypeOK
  <2>3. QED
    BY <1>1, <1>2, <1>4, <2>1, <2>2, StopKeepsInv
<1>5. CASE /\ weight < Len(Weights) /\ weight' = weight + 1 /\ phase' = "fastrp"
           /\ UNCHANGED <<passVars, graph>>
  <2>1. /\ UNCHANGED <<attempt, streamVars>> /\ sameAs' = sameAs /\ count' = count /\ graph' = graph
    BY <1>5 DEF passVars
  <2>2. EdgesAreWhole'
    BY <1>5 DEF EdgesAreWhole
  <2>3. GraphsAreWhole'
    BY <1>1, <1>2, <1>3, <2>1 DEF DumpInv, GraphsAreWhole
  <2>4. weight' \in DOMAIN Weights
    BY <1>5, DumpAssumption DEF DumpInv, TypeOK
  <2>5. /\ phase' \in Phases \ (Passes \cup {"off"})
        /\ mastersFile' \in {"absent", "there", "deleted"}
    BY <1>1, <1>5 DEF Phases, Passes, DumpInv, TypeOK
  <2>6. phase' \notin {"save_same_as", "replace_same_as"}
    BY <1>5
  <2>7. QED
    BY <1>1, <2>1, <2>2, <2>3, <2>4, <2>5, <2>6, LaterStep
<1>6. QED
  BY <1>4, <1>5 DEF ReplaceOutput

(* A run that is killed, or misses the masters dump, leaves its files.        *)
LEMMA EndsKeepInv ==
    ASSUME DumpInv, Die \/ NoMasters
    PROVE  DumpInv'
<1>1. Stop /\ UNCHANGED <<fileVars, breaks>>
  BY DEF Die, NoMasters, envVars
<1>2. deaths' \in 0 .. MaxDeaths
  BY DumpAssumption DEF Die, NoMasters, envVars, DumpInv, TypeOK
<1>3. QED
  BY <1>1, <1>2, StopOnly

(* Fetching the masters dump changes nothing else, and a stutter nothing.     *)
LEMMA FetchKeepsInv ==
    ASSUME DumpInv, Fetch \/ UNCHANGED vars
    PROVE  DumpInv'
<1>1. /\ mastersFile' \in {"absent", "there", "deleted"}
      /\ phase' = phase /\ attempt' = attempt /\ reader' = reader /\ pos' = pos /\ from' = from
      /\ pending' = pending /\ sameAs' = sameAs /\ edges' = edges /\ count' = count
      /\ weight' = weight /\ breaks' = breaks /\ deaths' = deaths /\ sameAsFile' = sameAsFile
      /\ graph' = graph /\ graphFile' = graphFile /\ outputs' = outputs
  BY DEF Fetch, vars, passVars, streamVars, fileVars, envVars, DumpInv, TypeOK
<1>2. Visible' = Visible
  BY <1>1, VisibleStays
<1>3. TypeOK'
  BY <1>1, <1>2 DEF DumpInv, TypeOK
<1>4. ChunksAreWhole'
  <2>1. \A c \in pending : IsWhole(c)' = IsWhole(c) /\ IsRest(c)' = IsRest(c)
    BY <1>1 DEF IsWhole, IsRest
  <2>2. QED
    BY <1>1, <2>1 DEF DumpInv, ChunksAreWhole
<1>5. MapSoFar' /\ MapIsWhole'
  BY <1>1 DEF DumpInv, MapSoFar, MapIsWhole
<1>6. EdgesSoFar' /\ EdgesAreWhole'
  BY <1>1 DEF DumpInv, EdgesSoFar, EdgesAreWhole, Joints, Frontier
<1>7. GraphsAreWhole'
  BY <1>1, <1>2 DEF DumpInv, GraphsAreWhole
<1>8. QED
  BY <1>3, <1>4, <1>5, <1>6, <1>7 DEF DumpInv

-----------------------------------------------------------------------------
(* The invariant and what it gives.                                          *)

(* Nothing has been read and nothing is kept at the start.                    *)
LEMMA InitHasInv == Init => DumpInv
<1>1. SUFFICES ASSUME Init PROVE DumpInv
  OBVIOUS
<1>2. phase = "off" /\ Visible = {None} /\ DOMAIN outputs = DOMAIN Weights
  BY <1>1 DEF Init, Visible
<1>3. TypeOK
  BY <1>1, <1>2, DumpAssumption, Marks DEF Init, TypeOK, Phases
<1>4. ChunksAreWhole /\ MapSoFar /\ MapIsWhole /\ EdgesSoFar /\ EdgesAreWhole /\ GraphsAreWhole
  BY <1>1, <1>2 DEF Init, ChunksAreWhole, MapSoFar, MapIsWhole, EdgesSoFar, EdgesAreWhole, GraphsAreWhole,
                    Passes
<1>5. QED
  BY <1>3, <1>4 DEF DumpInv

(* Every step keeps DumpInv.                                                  *)
LEMMA StepKeepsInv ==
    ASSUME DumpInv, BesideIsWhole, [Next]_vars
    PROVE  DumpInv'
BY RunKeepsInv, ReadBlockKeepsInv, EndOfStreamKeepsInv, StreamBreaksKeepsInv, MergeKeepsInv,
   PassFailsKeepsInv, PassEndsKeepsInv, MastersPassKeepsInv, BuildKeepsInv, WritingKeepsInv,
   ReplaceSameAsKeepsInv, KeepingKeepsInv, ReplaceOutputKeepsInv, EndsKeepInv, FetchKeepsInv
   DEF Next, Step

(* A file is begun cut short, closed with the whole of what it is for, and is *)
(* there no more at any point but those.                                      *)
LEMMA BesideStaysWhole ==
    ASSUME DumpInv, BesideIsWhole, [Next]_vars
    PROVE  BesideIsWhole'
<1>1. CASE SaveSameAs \/ SaveGraph \/ WriteVectors
  BY <1>1 DEF SaveSameAs, SaveGraph, WriteVectors, WriteBeside, BesideIsWhole
<1>2. CASE Close
  <2>1. /\ phase = "replace_same_as" => sameAs = AllPairs
        /\ phase \in {"replace_graph", "replace_output"} => graph = WholeGraph
    BY DEF DumpInv, MapIsWhole, GraphsAreWhole
  <2>2. QED
    BY <1>2, <2>1 DEF Close, Written, BesideIsWhole
<1>3. CASE Fetch \/ UNCHANGED vars
  BY <1>3 DEF Fetch, vars, fileVars, BesideIsWhole
<1>4. CASE ReadBlock \/ EndOfStream \/ StreamBreaks \/ Merge
  BY <1>4 DEF ReadBlock, EndOfStream, StreamBreaks, Merge, Passes, BesideIsWhole
<1>5. CASE Run \/ PassFails \/ NoMasters \/ Die
  BY <1>5 DEF Run, LoadGraph, LoadSameAs, StartAfresh, PassFails, NoMasters, Die, Stop, StartPass,
              Passes, BesideIsWhole
<1>6. CASE PassEnds \/ MastersPass \/ Build \/ ReplaceSameAs \/ ReplaceGraph \/ DeleteDumps
           \/ ReplaceOutput
  BY <1>6 DEF PassEnds, MastersPass, MastersPassThen, Build, ReplaceSameAs, StartPass, ReplaceGraph,
              MoveGraph, DeleteDumps, ReplaceOutput, Stop, BesideIsWhole
<1>7. QED
  BY <1>1, <1>2, <1>3, <1>4, <1>5, <1>6 DEF Next, Step

(* DumpInv is an invariant of every behaviour.                                *)
LEMMA DumpInvHolds == Spec => []DumpInv
<1>1. Init => DumpInv /\ BesideIsWhole
  BY InitHasInv DEF Init, BesideIsWhole
<1>2. DumpInv /\ BesideIsWhole /\ [Next]_vars => (DumpInv /\ BesideIsWhole)'
  BY StepKeepsInv, BesideStaysWhole
<1>3. QED
  BY <1>1, <1>2, PTL DEF Spec

(* The state of a run is of its types: a pass is tried at most MaxAttempts    *)
(* times, and no checkpoint or output that is cut short is ever in its place. *)
THEOREM TypeCorrect == Spec => []TypeOK
<1>1. DumpInv => TypeOK
  BY DEF DumpInv
<1>2. QED
  BY <1>1, DumpInvHolds, PTL

(* What is passed on is the graph of the whole dump or nothing.               *)
LEMMA OnlyWholeGraphs ==
    DumpInv => Visible \subseteq {None, WholeGraph}
BY DEF DumpInv, GraphsAreWhole

(* An edge of the whole graph is one of its record, of its kind.              *)
LEMMA EdgesOfRecord ==
    ASSUME NEW k \in DOMAIN Releases, NEW a, NEW kind
    PROVE  <<kind, k, a>> \in EdgesOf(AllPairs, k) <=>
               \/ kind = "by_artist" /\ a \in Releases[k].artists
               \/ kind = "credited_by_artist" /\ a \in Resolved(AllPairs, Releases[k], {"release"})
               \/ kind = "track_credited_by_artist"
                     /\ a \in Resolved(AllPairs, Releases[k], {"track", "sub_track"})
               \/ kind = "track_by_artist" /\ a \in Releases[k].performers
BY DEF EdgesOf

(* No other record and no master has that edge.                               *)
LEMMA EdgesOfWholeGraph ==
    ASSUME NEW k \in DOMAIN Releases, NEW a, NEW kind, kind # "master_by_artist"
    PROVE  <<kind, k, a>> \in WholeGraph.edges <=> <<kind, k, a>> \in EdgesOf(AllPairs, k)
<1>1. WholeGraph.edges = EdgesUpTo(Len(Releases)) \cup MasterEdges
  BY DEF WholeGraph
<1>2. <<kind, k, a>> \notin MasterEdges
  BY DEF MasterEdges
<1>3. \A j \in DOMAIN Releases : <<kind, k, a>> \in EdgesOf(AllPairs, j) => j = k
  BY DEF EdgesOf
<1>4. <<kind, k, a>> \in EdgesUpTo(Len(Releases)) <=>
          \E j \in DOMAIN Releases : <<kind, k, a>> \in EdgesOf(AllPairs, j)
  BY Marks DEF EdgesUpTo
<1>5. QED
  BY <1>1, <1>2, <1>3, <1>4

(* Every graph that is passed on counts every record of both dumps, and has   *)
(* the edges of each: however the stream was cut into blocks, wherever it     *)
(* broke, and however often the pass was redone.                              *)
THEOREM EveryRecordCounted == Spec => []EveryRecordOnce
<1>1. /\ WholeGraph.releases = Len(Releases) /\ WholeGraph.masters = Len(Masters)
      /\ WholeGraph.edges = EdgesUpTo(Len(Releases)) \cup MasterEdges
  BY DEF WholeGraph
<1>2. ASSUME NEW k \in DOMAIN Releases, NEW a \in Artists
      PROVE  /\ <<"by_artist", k, a>> \in WholeGraph.edges <=> a \in Releases[k].artists
             /\ <<"track_by_artist", k, a>> \in WholeGraph.edges <=> a \in Releases[k].performers
  BY EdgesOfWholeGraph, EdgesOfRecord
<1>3. ASSUME NEW m \in DOMAIN Masters, NEW a \in Masters[m].artists
      PROVE  <<"master_by_artist", m, a>> \in WholeGraph.edges
  BY <1>1 DEF MasterEdges
<1>4. DumpInv => EveryRecordOnce
  BY <1>1, <1>2, <1>3, OnlyWholeGraphs DEF EveryRecordOnce
<1>5. QED
  BY <1>4, DumpInvHolds, PTL

(* The whole map pairs a name with the artists it stands for.                 *)
LEMMA AllPairsStandFor ==
    ASSUME NEW name, NEW a \in Artists
    PROVE  <<name, a>> \in AllPairs <=> StandsFor(name, a)
<1>1. <<name, a>> \in AllPairs <=> \E k \in DOMAIN Releases : <<name, a>> \in Paired(Releases[k])
  BY DEF AllPairs, PairsOf
<1>2. ASSUME NEW k \in DOMAIN Releases
      PROVE  <<name, a>> \in Paired(Releases[k]) <=>
                 \E c \in Releases[k].credits : c.name = name /\ c.id = a
  BY DumpAssumption DEF Paired
<1>3. QED
  BY <1>1, <1>2 DEF StandsFor

(* A kept credit is resolved to the artists its name stands for.              *)
LEMMA ResolvedStandFor ==
    ASSUME NEW k \in DOMAIN Releases, NEW a \in Artists, NEW levels
    PROVE  a \in Resolved(AllPairs, Releases[k], levels) <=>
               \E c \in Releases[k].credits : c.kept /\ c.level \in levels /\ StandsFor(c.name, a)
<1>1. AllPairs \subseteq Names \X Artists
  BY AllPairsType DEF AllPairs
<1>2. a \in Resolved(AllPairs, Releases[k], levels) <=>
          \E c \in Releases[k].credits : c.kept /\ c.level \in levels /\ <<c.name, a>> \in AllPairs
  <2>1. a \in Resolved(AllPairs, Releases[k], levels) <=>
            \E p \in AllPairs : p[2] = a /\ \E c \in Releases[k].credits :
                c.kept /\ c.level \in levels /\ c.name = p[1]
    BY DEF Resolved
  <2>2. \A p \in AllPairs : p = <<p[1], p[2]>>
    BY <1>1
  <2>3. \A name : <<name, a>>[1] = name /\ <<name, a>>[2] = a
    OBVIOUS
  <2>4. QED
    BY <2>1, <2>2, <2>3
<1>3. QED
  BY <1>2, AllPairsStandFor

(* In every graph that is passed on a kept credit links its release to every  *)
(* artist its name stands for anywhere in the dump, and to no other: the map  *)
(* a run continues from, or computes, is the whole one.                       *)
THEOREM CreditsResolved == Spec => []CreditsResolveGlobally
<1>1. ASSUME NEW k \in DOMAIN Releases, NEW c \in Releases[k].credits
      PROVE  /\ c.level \in {"release"} <=> (c.level = "release") = TRUE
             /\ c.level \in {"track", "sub_track"} <=> (c.level = "release") = FALSE
  <2>1. c.level \in Levels
    BY RecordTypes DEF Credit
  <2>2. QED
    BY <2>1 DEF Levels
<1>2. ASSUME NEW k \in DOMAIN Releases, NEW a \in Artists
      PROVE  /\ <<"credited_by_artist", k, a>> \in WholeGraph.edges <=>
                    a \in Resolved(AllPairs, Releases[k], {"release"})
             /\ <<"track_credited_by_artist", k, a>> \in WholeGraph.edges <=>
                    a \in Resolved(AllPairs, Releases[k], {"track", "sub_track"})
  BY EdgesOfWholeGraph, EdgesOfRecord
<1>3. ASSUME NEW k \in DOMAIN Releases, NEW a \in Artists
      PROVE  /\ <<"credited_by_artist", k, a>> \in WholeGraph.edges <=>
                    \E c \in Releases[k].credits :
                        c.kept /\ (c.level = "release") = TRUE /\ StandsFor(c.name, a)
             /\ <<"track_credited_by_artist", k, a>> \in WholeGraph.edges <=>
                    \E c \in Releases[k].credits :
                        c.kept /\ (c.level = "release") = FALSE /\ StandsFor(c.name, a)
  BY <1>1, <1>2, ResolvedStandFor
<1>4. DumpInv => CreditsResolveGlobally
  BY <1>3, OnlyWholeGraphs DEF CreditsResolveGlobally
<1>5. QED
  BY <1>4, DumpInvHolds, PTL
=============================================================================
