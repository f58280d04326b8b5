------------------------------- MODULE DumpGraph -------------------------------
(***************************************************************************)
(* scripts/embeddings_from_dump.py: the input graph of FastRP built from   *)
(* the two dumps of a month, and the vectors of every weight of a sweep.   *)
(*                                                                         *)
(* The releases dump is streamed through curl twice: pass 1 collects the   *)
(* ids each credited name is paired with anywhere, pass 2 the edges, whose *)
(* credits are resolved through that map.  A pass whose stream breaks is   *)
(* redone from nothing.  What was computed is kept in checkpoints, so that *)
(* a run that died is continued by the next one.                           *)
(*                                                                         *)
(* A dump is a sequence of marks: the preamble, the opening and the        *)
(* closing tag of every record, and the root's closing tag.  Bytes between *)
(* two marks are left out; a block read from the stream ends at any mark.  *)
(***************************************************************************)
EXTENDS Integers, FiniteSets, Sequences

CONSTANTS
    Releases,      \* the records of the releases dump, in order
    Masters,       \* those of the masters dump
    Artists, Names,
    Weights,       \* the --w0 values, in order
    None, Torn,    \* no file, and one whose writing was cut short
    MaxAttempts,   \* of a pass (_retry_whole_pass)
    MaxBreaks,     \* bound: streams that break
    MaxDeaths      \* bound: runs that are killed

\* The levels of a release that carry credits.
Levels == {"release", "track", "sub_track"}

Credit == [level : Levels, name : Names, kept : BOOLEAN, id : Artists \cup {None}]

ASSUME DumpAssumption ==
    /\ Releases \in Seq([artists : SUBSET Artists, credits : SUBSET Credit,
                         performers : SUBSET Artists])
    /\ Len(Releases) > 0
    /\ Masters \in Seq([artists : SUBSET Artists])
    /\ None \notin Artists
    /\ Len(Weights) \in Nat \ {0} /\ DOMAIN Weights = 1 .. Len(Weights)
    /\ MaxAttempts \in Nat \ {0} /\ MaxBreaks \in Nat /\ MaxDeaths \in Nat

\* A file that is missing or cut short is no graph.
EdgeKinds == {"by_artist", "credited_by_artist", "track_credited_by_artist", "track_by_artist",
              "master_by_artist"}
Graph == [edges : SUBSET (EdgeKinds \X Nat \X Artists), releases : Nat, masters : Nat]

ASSUME NoGraphAssumption == None \notin Graph /\ Torn \notin Graph

VARIABLES
    phase,       \* where the run is
    attempt,     \* of the pass under way
    reader,      \* its stream: being read, read to its end, or broken
    pos,         \* the marks read of it
    from,        \* the first mark of `tail`
    pending,     \* chunks handed to the pool whose results are not merged yet
    sameAs,      \* the name-to-artist map, as pairs
    edges, count,          \* what pass 2 and the masters pass have merged
    graph,       \* what build_graph or load_graph_checkpoint returned
    sameAsFile, graphFile, \* the checkpoints
    mastersFile, \* the masters dump: not fetched yet, there, or deleted
    outputs,     \* the vectors written for each weight
    beside,      \* the file last written beside its place and not moved there yet
    weight,      \* the index of the weight the run is at
    breaks, deaths

streamVars == <<reader, pos, from, pending>>
passVars == <<attempt, streamVars, sameAs, edges, count>>
fileVars == <<sameAsFile, graphFile, mastersFile, outputs, beside>>
envVars == <<breaks, deaths>>
vars == <<phase, passVars, graph, fileVars, weight, envVars>>

Passes == {"pass_1", "pass_2"}
Phases == Passes \cup
    {"off", "save_same_as", "replace_same_as", "masters", "build", "save_graph", "replace_graph",
     "delete", "fastrp", "replace_output"}

-----------------------------------------------------------------------------
(* The marks.  Record k opens at mark 2k and closes at mark 2k + 1.        *)

LastMark == 2 * Len(Releases) + 2

IsClose(i) == i % 2 = 1 /\ i > 1
IsOpen(i)  == i % 2 = 0 /\ i < LastMark

\* The records of a chunk: none when it is not whole records, which the parser
\* skips as malformed.
RecordsOf(chunk) ==
    IF IsOpen(chunk[1]) /\ IsClose(chunk[2])
    THEN {k \in DOMAIN Releases : chunk[1] <= 2 * k /\ 2 * k + 1 <= chunk[2]}
    ELSE {}

-----------------------------------------------------------------------------
(* What one record contributes.                                            *)

\* Mutation: the map is collected from the credits of the release itself.
PairedOnRelease(r) ==
    {<<c.name, c.id>> : c \in {c \in r.credits : c.id # None /\ c.level = "release"}}

\* Every credit with an id pairs its name with it, whatever its role and level.
Paired(r) == {<<c.name, c.id>> : c \in {c \in r.credits : c.id # None}}

\* A kept credit stands for every artist its name is paired with.
Resolved(pairs, r, levels) ==
    {p[2] : p \in {p \in pairs :
        \E c \in r.credits : c.kept /\ c.level \in levels /\ c.name = p[1]}}

EdgesOf(pairs, k) ==
    LET r == Releases[k]
    IN  {"by_artist"} \X {k} \X r.artists
        \cup {"credited_by_artist"} \X {k} \X Resolved(pairs, r, {"release"})
        \cup {"track_credited_by_artist"} \X {k} \X Resolved(pairs, r, {"track", "sub_track"})
        \cup {"track_by_artist"} \X {k} \X r.performers

MasterEdges ==
    UNION {{"master_by_artist"} \X {m} \X Masters[m].artists : m \in DOMAIN Masters}

-----------------------------------------------------------------------------
FreshStream ==
    /\ reader' = "reading" /\ pos' = 0 /\ from' = 1 /\ pending' = {}

\* A pass starts from an empty result and a new stream.
StartPass(p) ==
    /\ phase' = p
    /\ FreshStream
    /\ edges' = {} /\ count' = 0

Stop ==
    /\ phase' = "off"
    /\ attempt' = 1 /\ FreshStream
    /\ sameAs' = {} /\ edges' = {} /\ count' = 0
    /\ graph' = None /\ weight' = 1

Init ==
    /\ phase = "off" /\ attempt = 1
    /\ reader = "reading" /\ pos = 0 /\ from = 1 /\ pending = {}
    /\ sameAs = {} /\ edges = {} /\ count = 0 /\ graph = None
    /\ sameAsFile = None /\ graphFile = None /\ mastersFile = "absent"
    /\ outputs = [w \in DOMAIN Weights |-> None] /\ beside = None
    /\ weight = 1 /\ breaks = 0 /\ deaths = 0

\* load_graph_checkpoint: a graph checkpoint is all that is needed.
LoadGraph ==
    /\ graphFile # None
    /\ graph' = graphFile /\ phase' = "delete"
    /\ UNCHANGED passVars

\* load_same_as_checkpoint: without one, pass 1 need not be run again.
LoadSameAs ==
    /\ graphFile = None /\ sameAsFile # None
    /\ sameAs' = sameAsFile
    /\ StartPass("pass_2")
    /\ UNCHANGED <<graph, attempt>>

\* build_graph: with neither, everything is parsed.
StartAfresh ==
    /\ graphFile = None /\ sameAsFile = None
    /\ StartPass("pass_1")
    /\ UNCHANGED <<graph, attempt, sameAs>>

Run ==
    /\ phase = "off"
    /\ LoadGraph \/ LoadSameAs \/ StartAfresh
    /\ UNCHANGED <<fileVars, weight, envVars>>

-----------------------------------------------------------------------------
(* _chunks, read in the pool's own thread.                                 *)

\* A block is read: what lies before the last closing tag is a chunk, the rest
\* is carried over.  The first block reaches the first record.
ReadBlock ==
    /\ phase \in Passes /\ reader = "reading"
    /\ \E to \in pos + 1 .. LastMark :
        LET start == IF pos = 0 THEN 2 ELSE from
            closes == {i \in start .. to : IsClose(i)}
            cut == CHOOSE i \in closes : \A j \in closes : j <= i
        IN  /\ to >= 2
            /\ pos' = to
            /\ IF closes = {} THEN from' = start /\ UNCHANGED pending
               ELSE from' = cut + 1 /\ pending' = pending \cup {<<start, cut>>}
    /\ UNCHANGED <<phase, attempt, reader, sameAs, edges, count, graph, fileVars, weight, envVars>>

\* Mutation: curl's exit status is not looked at.
EndOfStreamUnchecked ==
    /\ phase \in Passes /\ reader = "reading" /\ pos > 0
    /\ pending' = IF from <= pos THEN pending \cup {<<from, pos>>} ELSE pending
    /\ reader' = "done"
    /\ \/ pos = LastMark /\ UNCHANGED breaks
       \/ pos < LastMark /\ breaks < MaxBreaks /\ breaks' = breaks + 1
    /\ UNCHANGED <<phase, attempt, pos, from, sameAs, edges, count, graph, fileVars, weight, deaths>>

\* The stream ends for the decoder, and what is left is the last chunk.  The
\* transfer may have been cut short where the decoder does not see it: curl's
\* exit status then says so.
EndOfStream ==
    /\ phase \in Passes /\ reader = "reading" /\ pos > 0
    /\ pending' = IF from <= pos THEN pending \cup {<<from, pos>>} ELSE pending
    /\ \/ pos = LastMark /\ reader' = "done" /\ UNCHANGED breaks
       \/ /\ pos < LastMark /\ breaks < MaxBreaks
          /\ reader' = "broken" /\ breaks' = breaks + 1
    /\ UNCHANGED <<phase, attempt, pos, from, sameAs, edges, count, graph, fileVars, weight, deaths>>

\* The stream breaks where the decoder sees it.
StreamBreaks ==
    /\ phase \in Passes /\ reader = "reading" /\ breaks < MaxBreaks
    /\ reader' = "broken" /\ breaks' = breaks + 1
    /\ UNCHANGED <<phase, attempt, pos, from, pending, sameAs, edges, count, graph, fileVars,
                   weight, deaths>>

-----------------------------------------------------------------------------
(* The passes.  Pass 1 merges results in any order, pass 2 in the order of  *)
(* their chunks.                                                            *)

Merge ==
    /\ phase \in Passes
    /\ \E c \in pending :
        /\ phase = "pass_2" => \A d \in pending : c[1] <= d[1]
        /\ pending' = pending \ {c}
        /\ IF phase = "pass_1"
           THEN /\ sameAs' = sameAs \cup UNION {Paired(Releases[k]) : k \in RecordsOf(c)}
                /\ UNCHANGED <<edges, count>>
           ELSE /\ edges' = edges \cup UNION {EdgesOf(sameAs, k) : k \in RecordsOf(c)}
                /\ count' = count + Cardinality(RecordsOf(c))
                /\ UNCHANGED sameAs
    /\ UNCHANGED <<phase, attempt, reader, pos, from, graph, fileVars, weight, envVars>>

\* The stream's error surfaces: the whole pass is redone, or it was the last
\* attempt and the run ends.  In pass 2 the results before it come first.
PassFails ==
    /\ phase \in Passes /\ reader = "broken"
    /\ phase = "pass_2" => pending = {}
    /\ \/ /\ attempt < MaxAttempts
          /\ attempt' = attempt + 1
          /\ StartPass(phase)
          /\ sameAs' = IF phase = "pass_1" THEN {} ELSE sameAs
          /\ UNCHANGED <<graph, weight>>
       \/ attempt = MaxAttempts /\ Stop
    /\ UNCHANGED <<fileVars, envVars>>

PassEnds ==
    /\ phase \in Passes /\ reader = "done" /\ pending = {}
    /\ phase' = IF phase = "pass_1" THEN "save_same_as" ELSE "masters"
    /\ attempt' = 1 /\ FreshStream
    /\ UNCHANGED <<sameAs, edges, count, graph, fileVars, weight, envVars>>

MastersPassThen(dump) ==
    /\ phase = "masters" /\ mastersFile = "there"
    /\ phase' = "build" /\ mastersFile' = dump
    /\ edges' = edges \cup MasterEdges
    /\ UNCHANGED <<attempt, streamVars, sameAs, count, graph, sameAsFile, graphFile, outputs,
                   beside, weight, envVars>>

\* Mutation: the dump is deleted as soon as it has been read.
MastersPassDeleting == MastersPassThen("deleted")

\* The masters dump is a local file, read once.
MastersPass == MastersPassThen("there")

\* A run that does not find it ends.
NoMasters ==
    /\ phase = "masters" /\ mastersFile # "there"
    /\ Stop
    /\ UNCHANGED <<fileVars, envVars>>

\* The graph is built from what both dumps gave, once there is memory for it.
Build ==
    /\ phase = "build"
    /\ phase' = "save_graph"
    /\ graph' = [edges |-> edges, releases |-> count, masters |-> Len(Masters)]
    /\ sameAs' = {} /\ edges' = {} /\ count' = 0
    /\ UNCHANGED <<attempt, streamVars, fileVars, weight, envVars>>

-----------------------------------------------------------------------------
(* What is kept.  Everything is written beside its place, where it is cut    *)
(* short until it has been closed, and moved there only then.  What a run    *)
(* that died left beside a place is never looked at.                         *)

Written == IF phase = "replace_same_as" THEN sameAs ELSE graph

WriteBeside ==
    /\ beside' = Torn
    /\ UNCHANGED <<passVars, graph, sameAsFile, graphFile, mastersFile, outputs, weight, envVars>>

Close ==
    /\ phase \in {"replace_same_as", "replace_graph", "replace_output"} /\ beside = Torn
    /\ beside' = Written
    /\ UNCHANGED <<phase, passVars, graph, sameAsFile, graphFile, mastersFile, outputs, weight, envVars>>

SaveSameAs == phase = "save_same_as" /\ phase' = "replace_same_as" /\ WriteBeside

ReplaceSameAs ==
    /\ phase = "replace_same_as" /\ beside # Torn
    /\ sameAsFile' = beside /\ beside' = None
    /\ StartPass("pass_2")
    /\ UNCHANGED <<attempt, sameAs, graph, graphFile, mastersFile, outputs, weight, envVars>>

SaveGraph == phase = "save_graph" /\ phase' = "replace_graph" /\ WriteBeside

\* Used alone, a mutation of ReplaceGraph: moved before it has been closed.
MoveGraph ==
    /\ phase = "replace_graph"
    /\ graphFile' = beside /\ beside' = None
    /\ phase' = "delete"
    /\ UNCHANGED <<passVars, graph, sameAsFile, mastersFile, outputs, weight, envVars>>

ReplaceGraph == beside # Torn /\ MoveGraph

\* --delete-dumps-after-parse
DeleteDumps ==
    /\ phase = "delete"
    /\ phase' = "fastrp"
    /\ mastersFile' = "deleted"
    /\ UNCHANGED <<passVars, graph, sameAsFile, graphFile, outputs, beside, weight, envVars>>

\* fastrp over the graph, whose vectors are written beside the output.
WriteVectors == phase = "fastrp" /\ phase' = "replace_output" /\ WriteBeside

ReplaceOutput ==
    /\ phase = "replace_output" /\ beside # Torn
    /\ outputs' = [outputs EXCEPT ![weight] = beside] /\ beside' = None
    /\ \/ /\ weight < Len(Weights)
          /\ weight' = weight + 1 /\ phase' = "fastrp"
          /\ UNCHANGED <<passVars, graph>>
       \/ weight = Len(Weights) /\ Stop
    /\ UNCHANGED <<sameAsFile, graphFile, mastersFile, envVars>>

\* The run is killed: everything that is not in a file is lost.
Die ==
    /\ phase # "off" /\ deaths < MaxDeaths
    /\ deaths' = deaths + 1
    /\ Stop
    /\ UNCHANGED <<fileVars, breaks>>

\* The masters dump is fetched, by a script of its own.
Fetch ==
    /\ mastersFile = "absent" /\ mastersFile' = "there"
    /\ UNCHANGED <<phase, passVars, graph, sameAsFile, graphFile, outputs, beside, weight, envVars>>

Step ==
    \/ ReadBlock \/ EndOfStream \/ Merge \/ PassFails \/ PassEnds \/ MastersPass \/ NoMasters
    \/ Build \/ SaveSameAs \/ ReplaceSameAs \/ SaveGraph \/ ReplaceGraph \/ Close
    \/ DeleteDumps \/ WriteVectors \/ ReplaceOutput

Next == Run \/ Step \/ StreamBreaks \/ Die \/ Fetch

Spec == Init /\ [][Next]_vars

\* A run goes on by itself, and is started again after it died; the masters dump
\* is fetched in the end.
FairSpec == Spec /\ WF_vars(Step) /\ WF_vars(Run) /\ WF_vars(Fetch)

-----------------------------------------------------------------------------
(* Properties.                                                             *)

\* What is passed on: the graph in memory and every one in a file.
Visible == {graph, graphFile} \cup {outputs[w] : w \in DOMAIN Weights}

(***************************************************************************)
(* Types.  A pass is tried at most MaxAttempts times, and no checkpoint or *)
(* output that is cut short is ever in its place, whenever the run that    *)
(* writes it is killed.                                                    *)
(***************************************************************************)
TypeOK ==
    /\ phase \in Phases /\ attempt \in 1 .. MaxAttempts
    /\ reader \in {"reading", "done", "broken"}
    /\ pos \in 0 .. LastMark /\ from \in 1 .. LastMark + 1
    /\ pending \subseteq (1 .. LastMark) \X (1 .. LastMark)
    /\ sameAs \subseteq Names \X Artists
    /\ sameAsFile = None \/ sameAsFile \subseteq Names \X Artists
    /\ count \in Nat /\ mastersFile \in {"absent", "there", "deleted"}
    /\ \A g \in Visible : g = None \/ (g # Torn /\ g.releases \in Nat)
    /\ weight \in DOMAIN Weights
    /\ breaks \in 0 .. MaxBreaks /\ deaths \in 0 .. MaxDeaths

(***************************************************************************)
(* Every graph that is passed on is of the whole dump, each record once:   *)
(* however the stream was cut into blocks, wherever it broke or was cut    *)
(* short, and however often the pass was redone.                           *)
(***************************************************************************)
EveryRecordOnce ==
    \A g \in Visible : g = None \/
        /\ g.releases = Len(Releases) /\ g.masters = Len(Masters)
        /\ \A k \in DOMAIN Releases : \A a \in Artists :
            /\ <<"by_artist", k, a>> \in g.edges <=> a \in Releases[k].artists
            /\ <<"track_by_artist", k, a>> \in g.edges <=> a \in Releases[k].performers
        /\ \A m \in DOMAIN Masters : \A a \in Masters[m].artists :
            <<"master_by_artist", m, a>> \in g.edges

\* `a` is an artist that the name stands for: paired with it by a credit
\* anywhere in the dump, at any level and in any role.
StandsFor(name, a) ==
    \E k \in DOMAIN Releases : \E c \in Releases[k].credits : c.name = name /\ c.id = a

(***************************************************************************)
(* A credit of a kept category links its release to every artist its name  *)
(* stands for in the whole dump, in records before and after it, and there *)
(* is no other credit edge.  A same_as checkpoint that is continued from   *)
(* therefore is the whole map.                                             *)
(***************************************************************************)
CreditsResolveGlobally ==
    \A g \in Visible : g = None \/
        \A k \in DOMAIN Releases : \A a \in Artists :
            LET Linked(level) == \E c \in Releases[k].credits :
                    c.kept /\ (c.level = "release") = level /\ StandsFor(c.name, a)
            IN  /\ <<"credited_by_artist", k, a>> \in g.edges <=> Linked(TRUE)
                /\ <<"track_credited_by_artist", k, a>> \in g.edges <=> Linked(FALSE)

(***************************************************************************)
(* The sweep is completed: no death of a run, no exhausted pass and no     *)
(* deleted dump leaves a state that no later run can finish.               *)
(***************************************************************************)
EveryOutputIsWritten == <>(\A w \in DOMAIN Weights : outputs[w] # None)
=============================================================================
