---------------------------- MODULE ActivityRead ----------------------------
(***************************************************************************)
(* The consent-aware reads of activity.events and activity.impressions     *)
(* (insights/activity.py, read_events and read_impressions), while         *)
(* activity is recorded and consent is granted and revoked.                *)
(*                                                                         *)
(* Every statement is a transaction of its own: one eligibility query per  *)
(* purpose, then one query per keyset page.  A row stands at its place in  *)
(* the key order of its table, (occurred_at, id); places are grouped into  *)
(* the days they fall on.                                                  *)
(***************************************************************************)
EXTENDS Integers, FiniteSets

CONSTANTS
    Subjects,
    Purposes,    \* the consent purposes the reads ask for
    Tables,      \* activity.events and activity.impressions
    NumDays,     \* bound: days, from 1
    RowsPerDay,  \* bound: places per day in a table
    BatchSize    \* batch_size

ASSUME ReadAssumption ==
    /\ NumDays \in Nat \ {0} /\ RowsPerDay \in Nat \ {0} /\ BatchSize \in Nat \ {0}
    /\ Purposes # {} /\ Tables # {}

Places == 1 .. NumDays * RowsPerDay
DayOf(p) == ((p - 1) \div RowsPerDay) + 1

VARIABLES
    granted,    \* per purpose, the subjects with an unrevoked grant in effect
    rows,       \* the recorded activity
    step,       \* the read: "idle", "eligibility", "paging" or "ended"
    table, since, until, only,  \* ... its arguments
    unasked,    \* ... the purposes still to query
    eligible,   \* ... the subjects that passed so far
    cursor,     \* ... the key its next page resumes after
    yielded,    \* ... how often it has yielded the row at each place
    before,     \* history: the places that held a row when the read began
    kept, held  \* history: who has held all purposes ever since, at some moment since

arguments == <<table, since, until, only>>
locals == <<unasked, eligible, cursor, yielded>>
history == <<before, kept, held>>
readVars == <<granted, rows, step, arguments, locals, history>>

NoRow == [subject |-> "none"]
Row == [subject : Subjects, snapshot : SUBSET Purposes, late : BOOLEAN]
Recorded(t, p) == rows[t][p] # NoRow
Consenting == {s \in Subjects : \A q \in Purposes : s \in granted[q]}
Reading == step \in {"eligibility", "paging"}

ReadTypeOK ==
    /\ granted \in [Purposes -> SUBSET Subjects]
    /\ rows \in [Tables -> [Places -> Row \cup {NoRow}]]
    /\ step \in {"idle", "eligibility", "paging", "ended"}
    /\ table \in Tables /\ since \in Int /\ until \in Int /\ only \subseteq Subjects
    /\ unasked \subseteq Purposes
    /\ eligible \subseteq Subjects
    /\ cursor \in 0 .. NumDays * RowsPerDay
    /\ yielded \in [Places -> Nat]
    /\ before \subseteq Places
    /\ kept \subseteq Subjects /\ held \subseteq Subjects

ReadInit ==
    /\ granted \in [Purposes -> SUBSET Subjects]
    /\ rows = [t \in Tables |-> [p \in Places |-> NoRow]]
    /\ step = "idle"
    /\ table \in Tables /\ since = 0 /\ until = 0 /\ only = {}
    /\ unasked = {} /\ eligible = {} /\ cursor = 0
    /\ yielded = [p \in Places |-> 0]
    /\ before = {} /\ kept = {} /\ held = {}

-----------------------------------------------------------------------------
(* Consent and the recorders of activity                                     *)

Grant(q, s) ==
    /\ granted' = [granted EXCEPT ![q] = @ \cup {s}]
    /\ held' = IF Reading THEN held \cup Consenting' ELSE held
    /\ UNCHANGED <<rows, step, arguments, locals, before, kept>>

Revoke(q, s) ==
    /\ granted' = [granted EXCEPT ![q] = @ \ {s}]
    /\ kept' = IF Reading THEN kept \cap Consenting' ELSE kept
    /\ UNCHANGED <<rows, step, arguments, locals, before, held>>

\* A recorder snapshots the purposes active at the moment of the write; the
\* row may have occurred earlier.
Record(t, p, s, today) ==
    /\ ~Recorded(t, p)
    /\ DayOf(p) <= today
    /\ rows' = [rows EXCEPT ![t][p] =
          [subject |-> s, snapshot |-> {q \in Purposes : s \in granted[q]}, late |-> DayOf(p) < today]]
    /\ UNCHANGED <<granted, step, arguments, locals, history>>

-----------------------------------------------------------------------------
(* A read                                                                    *)

\* What a read refuses: no purpose, or an empty window.
Validated(from, to) == Purposes # {} /\ from < to

StartRead(t, from, to, subjects) ==
    /\ Validated(from, to)
    /\ step' = "eligibility"
    /\ table' = t /\ since' = from /\ until' = to /\ only' = subjects
    /\ unasked' = Purposes /\ eligible' = Subjects
    /\ cursor' = 0
    /\ yielded' = [p \in Places |-> 0]
    /\ before' = {p \in Places : Recorded(t, p)}
    /\ kept' = Consenting /\ held' = Consenting
    /\ UNCHANGED <<granted, rows>>

\* training_eligible_subjects for one purpose.  The caller's subjects narrow
\* what is left after the last one; a read nobody is eligible for ends.
AskPurpose(q) ==
    /\ step = "eligibility"
    /\ q \in unasked
    /\ unasked' = unasked \ {q}
    /\ LET passed == eligible \cap granted[q]
           left == IF unasked' = {} THEN passed \cap only ELSE passed
       IN /\ eligible' = left
          /\ step' = CASE left = {} -> "ended"
                       [] left # {} /\ unasked' = {} -> "paging"
                       [] OTHER -> "eligibility"
    /\ UNCHANGED <<granted, rows, arguments, cursor, yielded, history>>

\* Both consent checks and the window.
Permitted(p) == /\ Recorded(table, p) /\ Purposes \subseteq rows[table][p].snapshot
                /\ since <= DayOf(p) /\ DayOf(p) < until
Matches == {p \in Places : Permitted(p) /\ rows[table][p].subject \in eligible}

\* ORDER BY the key LIMIT BatchSize, after the cursor.
IsPage(page, rest) ==
    /\ page \subseteq rest
    /\ \A p \in page, q \in rest \ page : p < q
    /\ Cardinality(page) <= BatchSize
    /\ page # rest => Cardinality(page) = BatchSize

\* Mutation of FetchPage: a full page ends the read.
FetchPageOnce ==
    /\ step = "paging"
    /\ \E page \in SUBSET Places :
          /\ IsPage(page, {p \in Matches : p > cursor})
          /\ yielded' = [p \in Places |-> IF p \in page THEN yielded[p] + 1 ELSE yielded[p]]
    /\ step' = "ended"
    /\ UNCHANGED <<granted, rows, arguments, unasked, eligible, cursor, history>>

\* A short page is the last one.
FetchPage ==
    /\ step = "paging"
    /\ \E page \in SUBSET Places :
          /\ IsPage(page, {p \in Matches : p > cursor})
          /\ yielded' = [p \in Places |-> IF p \in page THEN yielded[p] + 1 ELSE yielded[p]]
          /\ \/ /\ Cardinality(page) < BatchSize
                /\ step' = "ended" /\ UNCHANGED cursor
             \/ /\ Cardinality(page) = BatchSize
                /\ cursor' \in page /\ \A p \in page : p <= cursor'
                /\ UNCHANGED step
    /\ UNCHANGED <<granted, rows, arguments, unasked, eligible, history>>

\* A statement fails: the read and its locals are gone.
Abandon ==
    /\ step' = "idle"
    /\ unasked' = {} /\ eligible' = {} /\ cursor' = 0
    /\ yielded' = [p \in Places |-> 0]
    /\ before' = {} /\ kept' = {} /\ held' = {}
    /\ UNCHANGED <<granted, rows, arguments>>

-----------------------------------------------------------------------------
(* Properties of a read                                                      *)

(***************************************************************************)
(* A read that has ended has yielded each permitted row that was there     *)
(* when it began exactly once, if its subject consented throughout, while  *)
(* rows were recorded before and behind its cursor.                        *)
(***************************************************************************)
ReadIsComplete ==
    step = "ended" =>
        \A p \in before :
            Permitted(p) /\ rows[table][p].subject \in kept \cap only => yielded[p] = 1

(***************************************************************************)
(* A read yields no row twice, and none of a subject who held the purposes *)
(* at no moment of the read, however long it takes to page through it.     *)
(***************************************************************************)
YieldedWasPermitted ==
    \A p \in Places :
        yielded[p] > 0 => yielded[p] = 1 /\ rows[table][p].subject \in held \cap only
=============================================================================
