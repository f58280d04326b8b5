---------------------------- MODULE ActivityProofs ----------------------------
(***************************************************************************)
(* The consent-aware reads and the activity summary, for any subjects,     *)
(* tables of activity, number of days, window and batch size.              *)
(*                                                                         *)
(* The invariant of a read (ReadInv) is that whoever has kept consenting   *)
(* is among the eligible, and that of the places before the cursor those   *)
(* owed have been yielded, once.  That of the computation (SummaryInv)     *)
(* carries it over to what was counted, and to the days that lie behind    *)
(* the run stored last.  That nothing is yielded without consent holds for *)
(* reads of one purpose (HeldInv, CountedInv): with several, a subject may *)
(* pass who held them all at no moment.                                    *)
(***************************************************************************)
EXTENDS ActivitySummary, TLAPS

(***************************************************************************)
(* What was there when the read began is there still.                      *)
(***************************************************************************)
BeforeIsRecorded == \A p \in before : Recorded(table, p)

(***************************************************************************)
(* Who has consented throughout the read is among the eligible.            *)
(***************************************************************************)
KeptAreEligible ==
    /\ Reading => kept \subseteq Consenting
    /\ step # "idle" => kept \cap only \subseteq eligible

(***************************************************************************)
(* Yielded places lie before the cursor, and have been yielded once.       *)
(***************************************************************************)
YieldedOnce ==
    \A p \in Places : yielded[p] > 0 =>
        /\ yielded[p] = 1
        /\ Permitted(p)
        /\ step \in {"paging", "ended"}
        /\ step = "paging" => p <= cursor

(***************************************************************************)
(* What is owed of the places before the cursor has been yielded.          *)
(***************************************************************************)
YieldedSoFar ==
    \A p \in before :
        /\ Permitted(p) /\ rows[table][p].subject \in kept \cap only
        /\ step = "ended" \/ (step = "paging" /\ p <= cursor)
        => yielded[p] = 1

(***************************************************************************)
(* Paging begins before the first place.                                   *)
(***************************************************************************)
CursorAtStart == step = "eligibility" => cursor = 0

ReadInv ==
    /\ ReadTypeOK
    /\ CursorAtStart
    /\ BeforeIsRecorded
    /\ KeptAreEligible
    /\ YieldedOnce
    /\ YieldedSoFar

-----------------------------------------------------------------------------
(* Consent, rows and places.                                                 *)

(***************************************************************************)
(* A place falls on a day, and the places are numbered from 1.             *)
(***************************************************************************)
LEMMA DaysAreNumbers ==
    ASSUME NEW p \in Places
    PROVE  p \in Nat /\ p >= 1 /\ DayOf(p) \in Int
<1>1. RowsPerDay \in Nat \ {0} /\ p \in Nat /\ p >= 1
  BY ReadAssumption DEF Places
<1>2. (p - 1) \div RowsPerDay \in Int
  BY <1>1
<1> QED
  BY <1>1, <1>2 DEF DayOf

(***************************************************************************)
(* A grant takes nobody's consent away.                                    *)
(***************************************************************************)
LEMMA GrantAdds ==
    ASSUME ReadTypeOK, NEW q \in Purposes, NEW s \in Subjects, Grant(q, s)
    PROVE  Consenting \subseteq Consenting' /\ granted' \in [Purposes -> SUBSET Subjects]
BY DEF Grant, Consenting, ReadTypeOK

(***************************************************************************)
(* A revocation gives nobody's consent back.                               *)
(***************************************************************************)
LEMMA RevokeRemoves ==
    ASSUME ReadTypeOK, NEW q \in Purposes, NEW s \in Subjects, Revoke(q, s)
    PROVE  Consenting' \subseteq Consenting /\ granted' \in [Purposes -> SUBSET Subjects]
BY DEF Revoke, Consenting, ReadTypeOK

(***************************************************************************)
(* A recorder adds one row and touches no other.                           *)
(***************************************************************************)
LEMMA RecordAdds ==
    ASSUME ReadTypeOK, NEW t \in Tables, NEW p \in Places, NEW s \in Subjects, NEW day \in Int,
           Record(t, p, s, day)
    PROVE  /\ rows' \in [Tables -> [Places -> Row \cup {NoRow}]]
           /\ ~Recorded(t, p)
           /\ rows'[t][p] = [subject |-> s, snapshot |-> {q \in Purposes : s \in granted[q]},
                             late |-> DayOf(p) < day]
           /\ \A u \in Tables, o \in Places : <<u, o>> # <<t, p>> => rows'[u][o] = rows[u][o]
           /\ \A u \in Tables, o \in Places : Recorded(u, o) => rows'[u][o] = rows[u][o]
<1> DEFINE row == [subject |-> s, snapshot |-> {q \in Purposes : s \in granted[q]},
                   late |-> DayOf(p) < day]
<1>1. row \in Row
  BY DEF Row
<1>2. rows' = [rows EXCEPT ![t][p] = row] /\ ~Recorded(t, p)
  BY DEF Record
<1> HIDE DEF row
<1>3. rows \in [Tables -> [Places -> Row \cup {NoRow}]]
  BY DEF ReadTypeOK
<1>4. /\ rows'[t][p] = row
      /\ \A u \in Tables, o \in Places : <<u, o>> # <<t, p>> => rows'[u][o] = rows[u][o]
  BY <1>2, <1>3
<1>5. rows' \in [Tables -> [Places -> Row \cup {NoRow}]]
  BY <1>1, <1>2, <1>3
<1> QED
  BY <1>2, <1>4, <1>5 DEF row

(***************************************************************************)
(* Initially there is no read.                                             *)
(***************************************************************************)
LEMMA InitRead == ReadInit => ReadInv
<1> SUFFICES ASSUME ReadInit PROVE ReadInv
  OBVIOUS
<1>1. ReadTypeOK
  BY ReadAssumption DEF ReadInit, ReadTypeOK
<1> QED
  BY <1>1 DEF ReadInit, ReadInv, CursorAtStart, BeforeIsRecorded, KeptAreEligible, Reading, YieldedOnce, YieldedSoFar

-----------------------------------------------------------------------------
(* The steps of a read and of its surroundings.                              *)

(***************************************************************************)
(* A grant.                                                                *)
(***************************************************************************)
LEMMA GrantKeepsRead ==
    ASSUME ReadInv, NEW q \in Purposes, NEW s \in Subjects, Grant(q, s)
    PROVE  ReadInv'
<1>1. Consenting \subseteq Consenting' /\ granted' \in [Purposes -> SUBSET Subjects]
  BY GrantAdds DEF ReadInv
<1>2. Consenting' \subseteq Subjects
  BY DEF Consenting
<1>3. UNCHANGED <<rows, step, table, since, until, only, unasked, eligible, cursor, yielded, before, kept>>
  BY DEF Grant, arguments, locals
<1>4. ReadTypeOK'
  BY <1>1, <1>2, <1>3 DEF ReadInv, ReadTypeOK, Grant
<1> QED
  BY <1>1, <1>3, <1>4 DEF ReadInv, CursorAtStart, BeforeIsRecorded, Recorded, KeptAreEligible, Reading,
     YieldedOnce, YieldedSoFar, Permitted

(***************************************************************************)
(* A revocation.                                                           *)
(***************************************************************************)
LEMMA RevokeKeepsRead ==
    ASSUME ReadInv, NEW q \in Purposes, NEW s \in Subjects, Revoke(q, s)
    PROVE  ReadInv'
<1>1. granted' \in [Purposes -> SUBSET Subjects]
  BY RevokeRemoves DEF ReadInv
<1>2. UNCHANGED <<rows, step, table, since, until, only, unasked, eligible, cursor, yielded, before, held>>
  BY DEF Revoke, arguments, locals
<1>3. kept' \subseteq kept /\ (Reading => kept' \subseteq Consenting')
  BY DEF Revoke
<1>4. ReadTypeOK'
  BY <1>1, <1>2, <1>3 DEF ReadInv, ReadTypeOK
<1> QED
  BY <1>2, <1>3, <1>4 DEF ReadInv, CursorAtStart, BeforeIsRecorded, Recorded, KeptAreEligible, Reading,
     YieldedOnce, YieldedSoFar, Permitted

(***************************************************************************)
(* A row is recorded: what is owed was there before.                       *)
(***************************************************************************)
LEMMA RecordKeepsRead ==
    ASSUME ReadInv, NEW t \in Tables, NEW p \in Places, NEW s \in Subjects, NEW day \in Int,
           Record(t, p, s, day)
    PROVE  ReadInv'
<1>1. UNCHANGED <<granted, step, table, since, until, only, unasked, eligible, cursor, yielded, before, kept, held>>
  BY DEF Record, arguments, locals, history
<1>2. /\ rows' \in [Tables -> [Places -> Row \cup {NoRow}]]
      /\ \A u \in Tables, o \in Places : Recorded(u, o) => rows'[u][o] = rows[u][o]
  BY RecordAdds DEF ReadInv
<1>3. table \in Tables /\ before \subseteq Places
  BY DEF ReadInv, ReadTypeOK
<1>4. ReadTypeOK'
  BY <1>1, <1>2 DEF ReadInv, ReadTypeOK
<1>5. BeforeIsRecorded'
  BY <1>1, <1>2, <1>3 DEF ReadInv, BeforeIsRecorded, Recorded
<1>6. KeptAreEligible'
  BY <1>1 DEF ReadInv, KeptAreEligible, Reading, Consenting
<1>7. YieldedOnce'
  BY <1>1, <1>2, <1>3 DEF ReadInv, YieldedOnce, Permitted, Recorded
<1>8. YieldedSoFar'
  BY <1>1, <1>2, <1>3 DEF ReadInv, BeforeIsRecorded, YieldedSoFar, Permitted, Recorded
<1> QED
  BY <1>1, <1>4, <1>5, <1>6, <1>7, <1>8 DEF ReadInv, CursorAtStart

(***************************************************************************)
(* A read begins.                                                          *)
(***************************************************************************)
LEMMA StartKeepsRead ==
    ASSUME ReadInv, NEW t \in Tables, NEW from \in Int, NEW to \in Int, NEW subjects \in SUBSET Subjects,
           StartRead(t, from, to, subjects)
    PROVE  ReadInv'
<1>1. Consenting \subseteq Subjects /\ Consenting' = Consenting
  BY DEF StartRead, Consenting
<1>2. 0 \in 0 .. NumDays * RowsPerDay
  BY ReadAssumption
<1>3. ReadTypeOK'
  BY <1>1, <1>2 DEF ReadInv, ReadTypeOK, StartRead
<1> QED
  BY <1>1, <1>3 DEF ReadInv, ReadTypeOK, StartRead, CursorAtStart, BeforeIsRecorded, Recorded, KeptAreEligible, Reading,
     YieldedOnce, YieldedSoFar

(***************************************************************************)
(* One eligibility query.                                                  *)
(***************************************************************************)
LEMMA AskKeepsRead ==
    ASSUME ReadInv, NEW q \in Purposes, AskPurpose(q)
    PROVE  ReadInv'
<1> DEFINE left == IF unasked' = {} THEN eligible \cap granted[q] \cap only ELSE eligible \cap granted[q]
<1>1. /\ UNCHANGED <<granted, rows, table, since, until, only, cursor, yielded, before, kept, held>>
      /\ step = "eligibility" /\ unasked' = unasked \ {q} /\ eligible' = left
      /\ step' = IF left = {} THEN "ended" ELSE IF unasked' = {} THEN "paging" ELSE "eligibility"
  BY DEF AskPurpose, arguments, history
<1>2. kept \subseteq granted[q] /\ kept \cap only \subseteq eligible /\ kept \subseteq Consenting
  BY <1>1 DEF ReadInv, KeptAreEligible, Reading, Consenting
<1>3. kept \cap only \subseteq left
  BY <1>2
<1>4. ReadTypeOK'
  BY <1>1 DEF ReadInv, ReadTypeOK
<1>5. KeptAreEligible'
  BY <1>1, <1>2, <1>3 DEF KeptAreEligible, Reading, Consenting
<1>6. \A p \in Places : yielded[p] = 0
  <2>1. yielded \in [Places -> Nat]
    BY DEF ReadInv, ReadTypeOK
  <2> QED
    BY <2>1, <1>1 DEF ReadInv, YieldedOnce
<1>7. YieldedOnce'
  BY <1>1, <1>6 DEF YieldedOnce
<1>8. YieldedSoFar'
  <2>1. cursor = 0
    BY <1>1 DEF ReadInv, CursorAtStart
  <2> QED
    BY <1>1, <1>3, <2>1, DaysAreNumbers DEF ReadInv, ReadTypeOK, YieldedSoFar
<1> QED
  BY <1>1, <1>4, <1>5, <1>7, <1>8 DEF ReadInv, CursorAtStart, BeforeIsRecorded, Recorded

(***************************************************************************)
(* A page: the first of what is left, or all of it.                        *)
(***************************************************************************)
LEMMA FetchKeepsRead ==
    ASSUME ReadInv, FetchPage
    PROVE  ReadInv'
<1> DEFINE rest == {p \in Matches : p > cursor}
<1>1. /\ UNCHANGED <<granted, rows, table, since, until, only, unasked, eligible, before, kept, held>>
      /\ step = "paging"
  BY DEF FetchPage, arguments, history
<1>2. PICK page \in SUBSET Places :
        /\ IsPage(page, rest)
        /\ yielded' = [p \in Places |-> IF p \in page THEN yielded[p] + 1 ELSE yielded[p]]
        /\ \/ Cardinality(page) < BatchSize /\ step' = "ended" /\ UNCHANGED cursor
           \/ /\ Cardinality(page) = BatchSize
              /\ cursor' \in page /\ \A p \in page : p <= cursor'
              /\ UNCHANGED step
  BY DEF FetchPage
<1>3. /\ yielded \in [Places -> Nat]
      /\ page \subseteq rest /\ rest \subseteq Places
      /\ \A p \in page, q \in rest \ page : p < q
  BY <1>2 DEF ReadInv, ReadTypeOK, IsPage, Matches
<1>4. ASSUME NEW p \in page
      PROVE  yielded[p] = 0 /\ yielded'[p] = 1 /\ Permitted(p)
  <2>1. p \in Places /\ p > cursor /\ Permitted(p) /\ yielded[p] \in Nat
    BY <1>3 DEF Matches
  <2>2. p \in Nat /\ cursor \in Int
    BY <2>1, DaysAreNumbers, ReadAssumption DEF ReadInv, ReadTypeOK
  <2>3. yielded[p] = 0
    BY <1>1, <2>1, <2>2 DEF ReadInv, YieldedOnce
  <2> QED
    BY <1>2, <2>1, <2>3
<1>5. ASSUME NEW p \in Places \ page
      PROVE  yielded'[p] = yielded[p]
  BY <1>2
<1>6. ASSUME NEW p \in rest, step' = "ended" \/ p <= cursor'
      PROVE  p \in page
  <2>1. CASE step' = "ended"
    BY <1>1, <1>2, <2>1, ReadAssumption DEF IsPage
  <2>2. CASE step' # "ended"
    <3>1. SUFFICES ASSUME p \notin page PROVE FALSE
      OBVIOUS
    <3>2. cursor' \in page /\ cursor' < p
      BY <1>2, <1>3, <2>2, <3>1
    <3>3. cursor' \in Nat /\ p \in Nat
      BY <1>3, <3>2, DaysAreNumbers
    <3> QED
      BY <1>6, <2>2, <3>2, <3>3
  <2> QED
    BY <2>1, <2>2
<1>7. \A p \in Places : Permitted(p)' <=> Permitted(p)
  BY <1>1 DEF Permitted, Recorded
<1>8. ReadTypeOK'
  <2>1. yielded' \in [Places -> Nat]
    BY <1>2, <1>3
  <2>2. cursor' \in 0 .. NumDays * RowsPerDay
    <3>1. CASE UNCHANGED cursor
      BY <3>1 DEF ReadInv, ReadTypeOK
    <3>2. CASE cursor' \in page
      BY <1>3, <3>2, ReadAssumption DEF Places
    <3> QED
      BY <1>2, <3>1, <3>2
  <2> QED
    BY <1>1, <1>2, <2>1, <2>2 DEF ReadInv, ReadTypeOK
<1>9. YieldedOnce'
  <2>1. SUFFICES ASSUME NEW p \in Places, yielded'[p] > 0
                 PROVE  /\ yielded'[p] = 1 /\ Permitted(p)' /\ step' \in {"paging", "ended"}
                        /\ step' = "paging" => p <= cursor'
    BY DEF YieldedOnce
  <2>2. CASE p \in page
    BY <1>1, <1>2, <1>4, <1>7, <2>2
  <2>3. CASE p \notin page
    <3>1. yielded[p] = 1 /\ yielded'[p] = yielded[p] /\ Permitted(p) /\ p <= cursor
      BY <1>1, <1>5, <2>1, <2>3 DEF ReadInv, YieldedOnce
    <3>2. step' = "paging" => cursor < cursor' /\ cursor \in Int /\ cursor' \in Int /\ p \in Int
      <4>1. ASSUME NEW o \in page PROVE o > cursor /\ o \in Nat
        BY <1>3, DaysAreNumbers
      <4> QED
        BY <1>2, <4>1, DaysAreNumbers, ReadAssumption DEF ReadInv, ReadTypeOK
    <3> QED
      BY <1>1, <1>2, <1>7, <3>1, <3>2
  <2> QED
    BY <2>2, <2>3
<1>10. YieldedSoFar'
  <2>1. SUFFICES ASSUME NEW p \in before, Permitted(p), rows[table][p].subject \in kept \cap only,
                        step' = "ended" \/ (step' = "paging" /\ p <= cursor')
                 PROVE  yielded'[p] = 1
    BY <1>1, <1>7 DEF YieldedSoFar, ReadInv, ReadTypeOK
  <2>2. p \in Places /\ p \in Matches
    BY <1>1, <2>1 DEF ReadInv, ReadTypeOK, KeptAreEligible, Matches
  <2>3. CASE p <= cursor
    <3>1. yielded[p] = 1
      BY <1>1, <2>1, <2>3 DEF ReadInv, YieldedSoFar
    <3> QED
      BY <1>4, <1>5, <2>2, <3>1
  <2>4. CASE ~(p <= cursor)
    <3>1. p \in rest
      BY <2>2, <2>4, DaysAreNumbers, ReadAssumption DEF ReadInv, ReadTypeOK
    <3> QED
      BY <1>4, <1>6, <2>1, <3>1
  <2> QED
    BY <2>3, <2>4
<1>11. BeforeIsRecorded' /\ KeptAreEligible' /\ CursorAtStart'
  BY <1>1, <1>2 DEF ReadInv, BeforeIsRecorded, Recorded, KeptAreEligible, CursorAtStart, Reading, Consenting
<1> QED
  BY <1>8, <1>9, <1>10, <1>11 DEF ReadInv

(***************************************************************************)
(* A read that is given up leaves nothing behind.                          *)
(***************************************************************************)
LEMMA AbandonKeepsRead ==
    ASSUME ReadInv, Abandon
    PROVE  ReadInv'
<1>1. ReadTypeOK'
  BY ReadAssumption DEF ReadInv, ReadTypeOK, Abandon, arguments
<1> QED
  BY <1>1 DEF ReadInv, Abandon, CursorAtStart, BeforeIsRecorded, KeptAreEligible, Reading,
     YieldedOnce, YieldedSoFar

(***************************************************************************)
(* Steps outside the read.                                                 *)
(***************************************************************************)
LEMMA StutterKeepsRead ==
    ASSUME ReadInv, UNCHANGED readVars
    PROVE  ReadInv'
BY DEF ReadInv, readVars, arguments, locals, history, ReadTypeOK, CursorAtStart, BeforeIsRecorded,
   Recorded, KeptAreEligible, Reading, Consenting, YieldedOnce, YieldedSoFar, Permitted

-----------------------------------------------------------------------------
(* The computation.                                                          *)

Both == Tables \X Places

Owed(c) ==
    /\ InWindow(c[2])
    /\ Purposes \subseteq rows[c[1]][c[2]].snapshot
    /\ rows[c[1]][c[2]].subject \in runKept

(***************************************************************************)
(* The run reads one table after the other, over one window.               *)
(***************************************************************************)
RunReads ==
    /\ run \in {"idle", "store"} => step = "idle"
    /\ run \in {"events", "impressions"} => step # "idle" /\ only = Subjects
    /\ run = "events" => table = Events
    /\ run = "impressions" => table = Impressions
    /\ run # "idle" => since = until - WindowDays /\ 1 <= until - 1 /\ until - 1 <= today

(***************************************************************************)
(* Who has consented throughout the run did so throughout its reads, and   *)
(* who has consented all along did so throughout the run.                  *)
(***************************************************************************)
RunConsent ==
    /\ loyal \subseteq Consenting
    /\ run # "idle" => loyal \subseteq runKept /\ runKept \subseteq Consenting
    /\ run \in {"events", "impressions"} => runKept \subseteq kept

(***************************************************************************)
(* What was there when the run began was there when the read began.        *)
(***************************************************************************)
RunRows ==
    /\ \A c \in runBefore : Recorded(c[1], c[2])
    /\ run \in {"events", "impressions"} =>
          \A p \in Places : <<table, p>> \in runBefore => p \in before

(***************************************************************************)
(* Tables that have been read are counted completely.                      *)
(***************************************************************************)
CountedSoFar ==
    \A c \in runBefore :
        /\ run = "store" \/ (run = "impressions" /\ c[1] = Events)
        /\ Owed(c)
        => buckets[c[1]][c[2]] = 1

(***************************************************************************)
(* A record that was made on its day, before the day of the run, was there *)
(* when the run began; one of a loyal subject was made with consent.       *)
(***************************************************************************)
MadeInTime ==
    \A t \in Tables, p \in Places : Recorded(t, p) =>
        /\ run # "idle" /\ ~rows[t][p].late /\ DayOf(p) < until - 1 => <<t, p>> \in runBefore
        /\ rows[t][p].subject \in loyal => Purposes \subseteq rows[t][p].snapshot

(***************************************************************************)
(* The days of the stored runs.                                            *)
(***************************************************************************)
StoredDays ==
    /\ firstDay = 0 <=> lastDay = 0
    /\ 0 <= firstDay /\ firstDay <= lastDay /\ lastDay <= today
    /\ run # "idle" => lastDay <= until - 1

SummaryInv ==
    /\ TypeOK
    /\ ReadInv
    /\ RunReads
    /\ RunConsent
    /\ RunRows
    /\ CountedSoFar
    /\ MadeInTime
    /\ StoredDays
    /\ NoGapBetweenRuns

(***************************************************************************)
(* The initial states.                                                     *)
(***************************************************************************)
LEMMA InitSummary == Init => SummaryInv
<1> SUFFICES ASSUME Init PROVE SummaryInv
  OBVIOUS
<1>1. ReadInv /\ \A t \in Tables, p \in Places : ~Recorded(t, p)
  BY InitRead DEF Init, ReadInit, Recorded
<1>2. Consenting \subseteq Subjects
  BY DEF Consenting
<1>3. NoCounts \in Counts
  BY DEF NoCounts, Counts
<1>4. 1 \in 1 .. NumDays
  BY ReadAssumption
<1>5. TypeOK
  BY <1>1, <1>2, <1>3, <1>4 DEF Init, TypeOK, ReadInv
<1> QED
  BY <1>1, <1>5 DEF Init, ReadInit, SummaryInv, RunReads, RunConsent, RunRows, CountedSoFar, MadeInTime,
     StoredDays, NoGapBetweenRuns

(***************************************************************************)
(* A day passes.                                                           *)
(***************************************************************************)
LEMMA TomorrowKeeps ==
    ASSUME SummaryInv, Tomorrow
    PROVE  SummaryInv'
<1>1. UNCHANGED <<readVars, runVars, storedVars, loyal>> /\ today' \in 1 .. NumDays /\ today \in Int /\ today' = today + 1
  BY ReadAssumption DEF Tomorrow, SummaryInv, TypeOK
<1>2. ReadInv'
  BY <1>1, StutterKeepsRead DEF SummaryInv
<1>3. TypeOK'
  BY <1>1, <1>2 DEF SummaryInv, TypeOK, ReadInv, runVars, storedVars
<1>4. RunReads'
  BY <1>1 DEF SummaryInv, TypeOK, ReadTypeOK, RunReads, runVars, readVars, arguments
<1>5. RunConsent' /\ RunRows' /\ CountedSoFar'
  BY <1>1 DEF SummaryInv, RunConsent, RunRows, CountedSoFar, Owed, InWindow, Recorded, Consenting, runVars,
     readVars, arguments, history
<1>6. MadeInTime' /\ NoGapBetweenRuns'
  BY <1>1 DEF SummaryInv, MadeInTime, NoGapBetweenRuns, Recorded, runVars, storedVars, readVars, arguments
<1>7. StoredDays'
  BY <1>1 DEF SummaryInv, TypeOK, StoredDays, runVars, storedVars, readVars, arguments
<1> QED
  BY <1>2, <1>3, <1>4, <1>5, <1>6, <1>7 DEF SummaryInv

(***************************************************************************)
(* A row is recorded, of a subject who consents or does not.               *)
(***************************************************************************)
LEMMA RecordKeeps ==
    ASSUME SummaryInv, NEW t \in Tables, NEW p \in Places, NEW s \in Subjects, RecordActivity(t, p, s)
    PROVE  SummaryInv'
<1>1. /\ UNCHANGED <<today, runVars, storedVars, loyal>>
      /\ Record(t, p, s, today) /\ today \in Int
  BY ReadAssumption DEF RecordActivity, SummaryInv, TypeOK
<1>2. ReadInv'
  BY <1>1, RecordKeepsRead DEF SummaryInv
<1>3. UNCHANGED <<granted, step, arguments, locals, history>> /\ DayOf(p) <= today
  BY <1>1 DEF Record
<1>4. /\ rows'[t][p] = [subject |-> s, snapshot |-> {q \in Purposes : s \in granted[q]},
                        late |-> DayOf(p) < today]
      /\ \A u \in Tables, o \in Places : <<u, o>> # <<t, p>> => rows'[u][o] = rows[u][o]
      /\ \A u \in Tables, o \in Places : Recorded(u, o) => rows'[u][o] = rows[u][o]
  BY <1>1, RecordAdds DEF SummaryInv, ReadInv
<1>late. ~rows'[t][p].late => ~(DayOf(p) < today)
  <2> DEFINE late == DayOf(p) < today
  <2>1. rows'[t][p] = [subject |-> s, snapshot |-> {q \in Purposes : s \in granted[q]}, late |-> late]
    BY <1>4
  <2>2. rows'[t][p].late = late
    <3> HIDE DEF late
    <3> QED
      BY <2>1
  <2> QED
    BY <2>2, Zenon
<1>5. TypeOK'
  BY <1>1, <1>2 DEF SummaryInv, TypeOK, ReadInv, runVars, storedVars
<1>6. RunReads' /\ StoredDays'
  BY <1>1, <1>3 DEF SummaryInv, RunReads, StoredDays, runVars, storedVars, arguments
<1>7. RunConsent'
  BY <1>1, <1>3 DEF SummaryInv, RunConsent, Consenting, runVars, history
<1>8. ASSUME NEW c \in runBefore
      PROVE  c[1] \in Tables /\ c[2] \in Places /\ Recorded(c[1], c[2]) /\ rows'[c[1]][c[2]] = rows[c[1]][c[2]]
  <2>1. c[1] \in Tables /\ c[2] \in Places /\ Recorded(c[1], c[2])
    BY DEF SummaryInv, TypeOK, RunRows
  <2> QED
    BY <1>4, <2>1
<1>9. RunRows' /\ CountedSoFar'
  BY <1>1, <1>3, <1>8 DEF SummaryInv, RunRows, CountedSoFar, Owed, InWindow, Recorded, runVars, arguments, history
<1>10. MadeInTime'
  <2>1. SUFFICES ASSUME NEW u \in Tables, NEW o \in Places, Recorded(u, o)'
                 PROVE  /\ run # "idle" /\ ~rows'[u][o].late /\ DayOf(o) < until - 1 => <<u, o>> \in runBefore
                        /\ rows'[u][o].subject \in loyal => Purposes \subseteq rows'[u][o].snapshot
    BY <1>1, <1>3 DEF MadeInTime, runVars, arguments
  <2>2. CASE <<u, o>> = <<t, p>>
    <3>1. u = t /\ o = p
      BY <2>2
    <3>2. ~rows'[t][p].late => ~(DayOf(p) < today)
      BY <1>late
    <3>3. run # "idle" => until - 1 <= today /\ until \in Int
      BY DEF SummaryInv, RunReads, TypeOK, ReadTypeOK
    <3>4. run # "idle" /\ ~rows'[t][p].late => ~(DayOf(p) < until - 1)
      BY <1>1, <3>2, <3>3, DaysAreNumbers
    <3>5. s \in loyal => Purposes \subseteq {q \in Purposes : s \in granted[q]}
      BY DEF SummaryInv, RunConsent, Consenting
    <3> QED
      BY <1>4, <3>1, <3>4, <3>5
  <2>3. CASE <<u, o>> # <<t, p>>
    BY <1>4, <2>1, <2>3 DEF SummaryInv, MadeInTime, Recorded
  <2> QED
    BY <2>2, <2>3
<1>11. NoGapBetweenRuns'
  <2>1. SUFFICES ASSUME unbroken, NEW u \in Tables, NEW o \in Places, Recorded(u, o)', ~rows'[u][o].late,
                        rows'[u][o].subject \in loyal, firstDay <= DayOf(o), DayOf(o) < lastDay, firstDay > 0
                 PROVE  summary[u][o] > 0
    BY <1>1 DEF NoGapBetweenRuns, storedVars
  <2>2. CASE <<u, o>> = <<t, p>>
    <3>1. u = t /\ o = p
      BY <2>2
    <3>2. ~(DayOf(p) < today)
      BY <1>late, <2>1, <3>1
    <3>3. lastDay <= today /\ lastDay \in Int
      BY DEF SummaryInv, StoredDays, TypeOK
    <3> QED
      BY <1>1, <2>1, <3>1, <3>2, <3>3, DaysAreNumbers
  <2>3. CASE <<u, o>> # <<t, p>>
    BY <1>4, <2>1, <2>3 DEF SummaryInv, NoGapBetweenRuns, Recorded
  <2> QED
    BY <2>2, <2>3
<1> QED
  BY <1>2, <1>5, <1>6, <1>7, <1>9, <1>10, <1>11 DEF SummaryInv

(***************************************************************************)
(* What neither a change of consent nor a step of a read touches.          *)
(***************************************************************************)
LEMMA ConsentKeeps ==
    ASSUME SummaryInv, ReadInv', TypeOK',
           UNCHANGED <<rows, arguments, before, today, run, buckets, runBefore, storedVars>>,
           run \in {"idle", "store"} => step' = step,
           run \in {"events", "impressions"} => step' # "idle",
           loyal' \subseteq loyal, runKept' \subseteq runKept, RunConsent'
    PROVE  SummaryInv'
<1>1. RunReads' /\ StoredDays' /\ RunRows'
  BY DEF SummaryInv, RunReads, StoredDays, RunRows, Recorded, storedVars, arguments
<1>2. CountedSoFar'
  BY DEF SummaryInv, CountedSoFar, Owed, InWindow, arguments
<1>3. MadeInTime' /\ NoGapBetweenRuns'
  BY DEF SummaryInv, MadeInTime, NoGapBetweenRuns, Recorded, storedVars, arguments
<1> QED
  BY <1>1, <1>2, <1>3 DEF SummaryInv

(***************************************************************************)
(* A grant.                                                                *)
(***************************************************************************)
LEMMA GrantKeeps ==
    ASSUME SummaryInv, NEW q \in Purposes, NEW s \in Subjects, GrantPurpose(q, s)
    PROVE  SummaryInv'
<1>1. /\ Grant(q, s)
      /\ UNCHANGED <<today, run, buckets, runBefore, runKept, storedVars, loyal>>
      /\ runHeld' = IF run = "idle" THEN runHeld ELSE runHeld \cup Consenting'
  BY DEF GrantPurpose
<1>2. ReadInv' /\ Consenting \subseteq Consenting' /\ Consenting' \subseteq Subjects
  BY <1>1, GrantKeepsRead, GrantAdds DEF SummaryInv, ReadInv, Consenting
<1>3. UNCHANGED <<rows, step, arguments, locals, before, kept>>
  BY <1>1 DEF Grant
<1>4. TypeOK'
  BY <1>1, <1>2 DEF SummaryInv, TypeOK, ReadInv, storedVars
<1>5. RunConsent'
  BY <1>1, <1>2, <1>3 DEF SummaryInv, RunConsent
<1> QED
  BY <1>1, <1>2, <1>3, <1>4, <1>5, ConsentKeeps DEF SummaryInv, RunReads

(***************************************************************************)
(* A revocation.                                                           *)
(***************************************************************************)
LEMMA RevokeKeeps ==
    ASSUME SummaryInv, NEW q \in Purposes, NEW s \in Subjects, RevokePurpose(q, s)
    PROVE  SummaryInv'
<1>1. /\ Revoke(q, s)
      /\ UNCHANGED <<today, run, buckets, runBefore, runHeld, storedVars>>
      /\ runKept' = IF run = "idle" THEN runKept ELSE runKept \cap Consenting'
      /\ loyal' = loyal \cap Consenting'
  BY DEF RevokePurpose
<1>2. ReadInv'
  BY <1>1, RevokeKeepsRead DEF SummaryInv
<1>3. /\ UNCHANGED <<rows, step, arguments, locals, before, held>>
      /\ kept' = IF Reading THEN kept \cap Consenting' ELSE kept
  BY <1>1 DEF Revoke
<1>4. TypeOK'
  BY <1>1, <1>2 DEF SummaryInv, TypeOK, ReadInv, storedVars
<1>5. RunConsent'
  BY <1>1, <1>3 DEF SummaryInv, RunConsent
<1> QED
  BY <1>1, <1>2, <1>3, <1>4, <1>5, ConsentKeeps DEF SummaryInv, RunReads

(***************************************************************************)
(* A step of a read.                                                       *)
(***************************************************************************)
LEMMA ReadKeeps ==
    ASSUME SummaryInv, ReadStep
    PROVE  SummaryInv'
<1>1. UNCHANGED <<today, runVars, storedVars, loyal>>
  BY DEF ReadStep
<1>2. /\ ReadInv'
      /\ UNCHANGED <<granted, rows, arguments, before, kept>>
      /\ step # "idle" /\ step' # "idle"
  <2>1. CASE FetchPage
    BY <2>1, FetchKeepsRead DEF SummaryInv, FetchPage, history
  <2>2. CASE \E q \in Purposes : AskPurpose(q)
    <3>1. PICK q \in Purposes : AskPurpose(q)
      BY <2>2
    <3>2. step' \in {"ended", "paging", "eligibility"}
      BY <3>1 DEF AskPurpose
    <3> QED
      BY <3>1, <3>2, AskKeepsRead DEF SummaryInv, AskPurpose, history
  <2> QED
    BY <2>1, <2>2 DEF ReadStep
<1>3. TypeOK'
  BY <1>1, <1>2 DEF SummaryInv, TypeOK, ReadInv, runVars, storedVars
<1>4. RunConsent'
  BY <1>1, <1>2 DEF SummaryInv, RunConsent, Consenting, runVars
<1> QED
  BY <1>1, <1>2, <1>3, <1>4, ConsentKeeps DEF SummaryInv, RunReads, runVars

(***************************************************************************)
(* A run begins.                                                           *)
(***************************************************************************)
LEMMA BeginKeeps ==
    ASSUME SummaryInv, BeginRun
    PROVE  SummaryInv'
<1>1. /\ UNCHANGED <<today, storedVars, loyal, granted, rows>>
      /\ StartRead(Events, WindowSince, WindowUntil, Subjects)
      /\ run' = "events" /\ buckets' = NoCounts
      /\ runBefore' = {c \in Both : Recorded(c[1], c[2])}
      /\ runKept' = Consenting /\ runHeld' = Consenting
  BY DEF BeginRun, StartRead, Both
<1>2. /\ Events \in Tables /\ today \in Int /\ 1 <= today /\ WindowDays \in Nat \ {0}
      /\ WindowSince \in Int /\ WindowUntil \in Int
  BY SummaryAssumption, ReadAssumption DEF SummaryInv, TypeOK, WindowSince, WindowUntil
<1>3. ReadInv'
  BY <1>1, <1>2, StartKeepsRead DEF SummaryInv
<1>4. /\ step' = "eligibility" /\ table' = Events /\ since' = WindowSince /\ until' = WindowUntil
      /\ only' = Subjects /\ kept' = Consenting
      /\ before' = {p \in Places : Recorded(Events, p)}
  BY <1>1 DEF StartRead
<1>5. Consenting \subseteq Subjects /\ NoCounts \in Counts /\ Consenting' = Consenting
  BY <1>1 DEF Consenting, NoCounts, Counts
<1>6. TypeOK'
  BY <1>1, <1>3, <1>5 DEF SummaryInv, TypeOK, ReadInv, storedVars, Both
<1>7. RunReads' /\ StoredDays'
  BY <1>1, <1>2, <1>4 DEF SummaryInv, TypeOK, RunReads, StoredDays, WindowSince, WindowUntil, storedVars
<1>8. RunConsent'
  BY <1>1, <1>4, <1>5 DEF SummaryInv, RunConsent
<1>9. RunRows' /\ CountedSoFar'
  BY <1>1, <1>4 DEF RunRows, CountedSoFar, Recorded
<1>10. MadeInTime' /\ NoGapBetweenRuns'
  BY <1>1 DEF SummaryInv, MadeInTime, NoGapBetweenRuns, Recorded, storedVars, Both
<1> QED
  BY <1>3, <1>6, <1>7, <1>8, <1>9, <1>10 DEF SummaryInv

(***************************************************************************)
(* What a read that has ended has yielded of the run's rows.               *)
(***************************************************************************)
LEMMA ReadIsCounted ==
    ASSUME SummaryInv, step = "ended", run \in {"events", "impressions"},
           NEW c \in runBefore, c[1] = table, Owed(c)
    PROVE  yielded[c[2]] = 1
<1>1. c \in Tables \X Places
  BY DEF SummaryInv, TypeOK
<1>2. c[2] \in Places /\ <<table, c[2]>> = c
  BY <1>1
<1>3. c[2] \in before /\ Recorded(table, c[2])
  BY <1>1, <1>2 DEF SummaryInv, RunRows
<1>4. rows[table][c[2]].subject \in kept \cap only
  BY DEF SummaryInv, RunReads, RunConsent, Owed, TypeOK
<1>5. Permitted(c[2])
  BY <1>3 DEF Permitted, Owed, InWindow
<1> QED
  BY <1>3, <1>4, <1>5 DEF SummaryInv, ReadInv, YieldedSoFar

(***************************************************************************)
(* From one read to the other.                                             *)
(***************************************************************************)
LEMMA EventsKeeps ==
    ASSUME SummaryInv, EventsRead
    PROVE  SummaryInv'
<1>1. /\ UNCHANGED <<today, runBefore, runKept, runHeld, storedVars, loyal, granted, rows>>
      /\ StartRead(Impressions, since, until, Subjects)
      /\ run = "events" /\ step = "ended" /\ run' = "impressions"
      /\ buckets' = [buckets EXCEPT ![Events] = yielded]
  BY DEF EventsRead, StartRead
<1>2. Impressions \in Tables /\ Events \in Tables /\ since \in Int /\ until \in Int
  BY SummaryAssumption DEF SummaryInv, TypeOK, ReadTypeOK
<1>3. ReadInv'
  BY <1>1, <1>2, StartKeepsRead DEF SummaryInv
<1>4. /\ step' = "eligibility" /\ table' = Impressions /\ since' = since /\ until' = until
      /\ only' = Subjects /\ kept' = Consenting
      /\ before' = {p \in Places : Recorded(Impressions, p)}
  BY <1>1 DEF StartRead
<1>5. Consenting' = Consenting
  BY <1>1 DEF Consenting
<1>6. buckets \in Counts /\ yielded \in [Places -> Nat]
  BY DEF SummaryInv, TypeOK, ReadTypeOK
<1>7. TypeOK'
  <2>1. buckets' \in Counts
    BY <1>1, <1>2, <1>6 DEF Counts
  <2> QED
    BY <1>1, <1>3, <2>1 DEF SummaryInv, TypeOK, ReadInv, storedVars
<1>8. RunReads' /\ StoredDays' /\ RunConsent'
  BY <1>1, <1>4, <1>5 DEF SummaryInv, RunReads, StoredDays, RunConsent, storedVars
<1>9. RunRows'
  <2>1. ASSUME NEW p \in Places, <<Impressions, p>> \in runBefore PROVE p \in before'
    BY <1>4, <2>1 DEF SummaryInv, RunRows
  <2>2. \A c \in runBefore' : Recorded(c[1], c[2])'
    BY <1>1 DEF SummaryInv, RunRows, Recorded
  <2> QED
    BY <1>1, <1>4, <2>1, <2>2 DEF RunRows
<1>10. CountedSoFar'
  <2>1. SUFFICES ASSUME NEW c \in runBefore, c[1] = Events, Owed(c) PROVE buckets'[c[1]][c[2]] = 1
    BY <1>1, <1>4 DEF CountedSoFar, Owed, InWindow
  <2>2. yielded[c[2]] = 1
    BY <1>1, <2>1, ReadIsCounted DEF SummaryInv, RunReads
  <2> QED
    BY <1>1, <1>2, <1>6, <2>1, <2>2 DEF Counts
<1>11. MadeInTime' /\ NoGapBetweenRuns'
  BY <1>1, <1>4 DEF SummaryInv, MadeInTime, NoGapBetweenRuns, Recorded, storedVars
<1> QED
  BY <1>3, <1>7, <1>8, <1>9, <1>10, <1>11 DEF SummaryInv

(***************************************************************************)
(* From the second read to the store.                                      *)
(***************************************************************************)
LEMMA ImpressionsKeeps ==
    ASSUME SummaryInv, ImpressionsRead
    PROVE  SummaryInv'
<1>1. /\ UNCHANGED <<today, runBefore, runKept, runHeld, storedVars, loyal, granted, rows, since, until>>
      /\ Abandon
      /\ run = "impressions" /\ step = "ended" /\ run' = "store" /\ step' = "idle"
      /\ buckets' = [buckets EXCEPT ![Impressions] = yielded]
  BY DEF ImpressionsRead, Abandon, arguments
<1>2. Tables = {Events, Impressions} /\ Events # Impressions
  BY SummaryAssumption DEF Events, Impressions
<1>3. ReadInv'
  BY <1>1, AbandonKeepsRead DEF SummaryInv
<1>4. Consenting' = Consenting
  BY <1>1 DEF Consenting
<1>5. buckets \in Counts /\ yielded \in [Places -> Nat]
  BY DEF SummaryInv, TypeOK, ReadTypeOK
<1>6. TypeOK'
  <2>1. buckets' \in Counts
    BY <1>1, <1>2, <1>5 DEF Counts
  <2> QED
    BY <1>1, <1>3, <2>1 DEF SummaryInv, TypeOK, ReadInv, storedVars
<1>7. RunReads' /\ StoredDays' /\ RunConsent' /\ RunRows'
  BY <1>1, <1>4 DEF SummaryInv, RunReads, StoredDays, RunConsent, RunRows, Recorded, storedVars
<1>8. CountedSoFar'
  <2>1. SUFFICES ASSUME NEW c \in runBefore, Owed(c) PROVE buckets'[c[1]][c[2]] = 1
    BY <1>1 DEF CountedSoFar, Owed, InWindow
  <2>2. c[1] \in Tables
    BY DEF SummaryInv, TypeOK
  <2>3. CASE c[1] = Events
    BY <1>1, <1>2, <1>5, <2>1, <2>3 DEF SummaryInv, CountedSoFar, Counts
  <2>4. CASE c[1] = Impressions
    <3>1. yielded[c[2]] = 1
      BY <1>1, <2>1, <2>4, ReadIsCounted DEF SummaryInv, RunReads
    <3> QED
      BY <1>1, <1>2, <1>5, <2>4, <3>1 DEF Counts
  <2> QED
    BY <1>2, <2>2, <2>3, <2>4
<1>9. MadeInTime' /\ NoGapBetweenRuns'
  BY <1>1 DEF SummaryInv, MadeInTime, NoGapBetweenRuns, Recorded, storedVars
<1> QED
  BY <1>3, <1>6, <1>7, <1>8, <1>9 DEF SummaryInv

(***************************************************************************)
(* The window is replaced.                                                 *)
(***************************************************************************)
LEMMA StoreKeeps ==
    ASSUME SummaryInv, StoreSummary
    PROVE  SummaryInv'
<1>1. /\ UNCHANGED <<readVars, today, loyal>>
      /\ run = "store" /\ run' = "idle" /\ buckets' = NoCounts
      /\ runBefore' = {} /\ runKept' = {} /\ runHeld' = {}
      /\ summary' = [t \in Tables |-> [p \in Places |->
                        IF InWindow(p) THEN buckets[t][p] ELSE summary[t][p]]]
      /\ storedSince' = since /\ storedHeld' = runHeld
      /\ firstDay' = IF firstDay = 0 THEN until - 1 ELSE firstDay
      /\ lastDay' = until - 1
      /\ unbroken' = (unbroken /\ (lastDay = 0 \/ until - 1 - lastDay < WindowDays))
  BY DEF StoreSummary, EndRun
<1>2. ReadInv'
  BY <1>1, StutterKeepsRead DEF SummaryInv
<1>3. /\ since \in Int /\ until \in Int /\ today \in Int /\ firstDay \in Int /\ lastDay \in Int
      /\ WindowDays \in Nat \ {0}
      /\ since = until - WindowDays /\ 1 <= until - 1 /\ until - 1 <= today
      /\ step = "idle"
  BY <1>1, SummaryAssumption, ReadAssumption DEF SummaryInv, TypeOK, ReadTypeOK, RunReads
<1>4. TypeOK'
  <2>1. summary' \in Counts /\ NoCounts \in Counts
    BY <1>1 DEF SummaryInv, TypeOK, Counts, NoCounts
  <2>2. unbroken' \in BOOLEAN
    BY <1>1
  <2> QED
    BY <1>1, <1>2, <1>3, <2>1, <2>2 DEF SummaryInv, TypeOK, ReadInv
<1>5. RunReads' /\ RunRows' /\ CountedSoFar'
  BY <1>1, <1>3 DEF RunReads, RunRows, CountedSoFar, readVars
<1>6. RunConsent' /\ MadeInTime'
  BY <1>1 DEF SummaryInv, RunConsent, MadeInTime, Consenting, Recorded, readVars
<1>7. StoredDays'
  BY <1>1, <1>3 DEF SummaryInv, StoredDays
<1>8. NoGapBetweenRuns'
  <2>1. SUFFICES ASSUME unbroken', NEW t \in Tables, NEW p \in Places, Recorded(t, p), ~rows[t][p].late,
                        rows[t][p].subject \in loyal, firstDay' <= DayOf(p), DayOf(p) < lastDay', firstDay' > 0
                 PROVE  summary'[t][p] > 0
    BY <1>1 DEF NoGapBetweenRuns, Recorded, readVars
  <2>2. DayOf(p) \in Int /\ DayOf(p) < until - 1
    BY <1>1, <2>1, DaysAreNumbers
  <2>3. CASE InWindow(p)
    <3>1. <<t, p>> \in runBefore /\ Purposes \subseteq rows[t][p].snapshot
      BY <1>1, <2>1, <2>2 DEF SummaryInv, MadeInTime
    <3>2. Owed(<<t, p>>)
      BY <1>1, <2>1, <2>3, <3>1 DEF SummaryInv, RunConsent, Owed
    <3>3. buckets[t][p] = 1
      BY <1>1, <3>1, <3>2 DEF SummaryInv, CountedSoFar
    <3> QED
      BY <1>1, <2>3, <3>3
  <2>4. CASE ~InWindow(p)
    <3>1. DayOf(p) < since
      BY <1>3, <2>2, <2>4 DEF InWindow
    <3>2. lastDay # 0 /\ firstDay # 0
      BY <1>1, <1>3, <2>1, <2>2 DEF SummaryInv, StoredDays
    <3>3. unbroken /\ until - 1 - lastDay < WindowDays
      <4>1. unbroken \in BOOLEAN
        BY DEF SummaryInv, TypeOK
      <4>2. unbroken /\ (lastDay = 0 \/ until - 1 - lastDay < WindowDays)
        BY <1>1, <2>1, <4>1, Zenon
      <4> QED
        BY <3>2, <4>2
    <3>4. firstDay > 0 /\ firstDay <= DayOf(p) /\ DayOf(p) < lastDay
      BY <1>1, <1>3, <2>1, <2>2, <3>1, <3>2, <3>3
    <3>5. summary[t][p] > 0
      BY <2>1, <3>3, <3>4 DEF SummaryInv, NoGapBetweenRuns
    <3> QED
      BY <1>1, <2>4, <3>5
  <2> QED
    BY <2>3, <2>4
<1> QED
  BY <1>2, <1>4, <1>5, <1>6, <1>7, <1>8 DEF SummaryInv

(***************************************************************************)
(* A run that fails stores nothing.                                        *)
(***************************************************************************)
LEMMA FailKeeps ==
    ASSUME SummaryInv, RunFails
    PROVE  SummaryInv'
<1>1. /\ UNCHANGED <<today, storedVars, loyal, granted, rows>>
      /\ Abandon /\ step' = "idle"
      /\ run' = "idle" /\ buckets' = NoCounts
      /\ runBefore' = {} /\ runKept' = {} /\ runHeld' = {}
  BY DEF RunFails, EndRun, Abandon
<1>2. ReadInv'
  BY <1>1, AbandonKeepsRead DEF SummaryInv
<1>3. TypeOK'
  <2>1. NoCounts \in Counts
    BY DEF Counts, NoCounts
  <2> QED
    BY <1>1, <1>2, <2>1 DEF SummaryInv, TypeOK, ReadInv, storedVars
<1>4. RunReads' /\ RunRows' /\ CountedSoFar' /\ StoredDays'
  BY <1>1 DEF SummaryInv, RunReads, RunRows, CountedSoFar, StoredDays, storedVars
<1>5. RunConsent' /\ MadeInTime' /\ NoGapBetweenRuns'
  BY <1>1 DEF SummaryInv, RunConsent, MadeInTime, NoGapBetweenRuns, Consenting, Recorded, storedVars
<1> QED
  BY <1>2, <1>3, <1>4, <1>5 DEF SummaryInv

(***************************************************************************)
(* The invariant is inductive.                                             *)
(***************************************************************************)
LEMMA SummaryInductive == SummaryInv /\ [Next]_vars => SummaryInv'
<1> SUFFICES ASSUME SummaryInv, [Next]_vars PROVE SummaryInv'
  OBVIOUS
<1>1. CASE Tomorrow
  BY <1>1, TomorrowKeeps
<1>2. CASE \E t \in Tables, p \in Places, s \in Subjects : RecordActivity(t, p, s)
  BY <1>2, RecordKeeps
<1>3. CASE \E q \in Purposes, s \in Subjects : GrantPurpose(q, s) \/ RevokePurpose(q, s)
  BY <1>3, GrantKeeps, RevokeKeeps
<1>4. CASE Run
  BY <1>4, BeginKeeps, ReadKeeps, EventsKeeps, ImpressionsKeeps, StoreKeeps, FailKeeps DEF Run
<1>5. CASE UNCHANGED vars
  <2>1. UNCHANGED readVars /\ UNCHANGED <<today, runVars, storedVars, loyal>>
    BY <1>5 DEF vars
  <2>2. ReadInv'
    BY <2>1, StutterKeepsRead DEF SummaryInv
  <2>3. TypeOK'
    BY <2>1, <2>2 DEF SummaryInv, TypeOK, ReadInv, runVars, storedVars
  <2>4. RunConsent'
    BY <2>1 DEF SummaryInv, RunConsent, Consenting, runVars, readVars, history
  <2> QED
    BY <2>1, <2>2, <2>3, <2>4, ConsentKeeps DEF SummaryInv, RunReads, readVars, history, runVars
<1> QED
  BY <1>1, <1>2, <1>3, <1>4, <1>5 DEF Next

(***************************************************************************)
(* The invariant holds.                                                    *)
(***************************************************************************)
LEMMA SummaryInvariant == Spec => []SummaryInv
BY InitSummary, SummaryInductive, PTL DEF Spec

(***************************************************************************)
(* The variables have their types: consent, rows, the read, the run and    *)
(* the stored summary.                                                     *)
(***************************************************************************)
THEOREM TypeCorrect == Spec => []TypeOK
<1>1. SummaryInv => TypeOK
  BY DEF SummaryInv
<1> QED
  BY <1>1, SummaryInvariant, PTL

(***************************************************************************)
(* A read that has ended has yielded what it owes (read_events and         *)
(* read_impressions, _keyset_pages).                                       *)
(***************************************************************************)
THEOREM ReadsAreComplete == Spec => []ReadIsComplete
<1>1. SummaryInv => ReadIsComplete
  BY DEF SummaryInv, ReadInv, YieldedSoFar, ReadIsComplete
<1> QED
  BY <1>1, SummaryInvariant, PTL

(***************************************************************************)
(* A stored run has counted what it owes (_store_activity_summary).        *)
(***************************************************************************)
THEOREM CountsAreComplete == Spec => StoredCountsAreComplete
<1> DEFINE Complete ==
      StoreSummary =>
          \A c \in runBefore :
              LET row == rows[c[1]][c[2]] IN
              InWindow(c[2]) /\ Purposes \subseteq row.snapshot /\ row.subject \in runKept
                  => summary'[c[1]][c[2]] = 1
<1>1. SummaryInv /\ [Next]_vars => [Complete]_vars
  <2>1. SUFFICES ASSUME SummaryInv, StoreSummary, NEW c \in runBefore, Owed(c)
                 PROVE  summary'[c[1]][c[2]] = 1
    BY DEF Owed
  <2>2. c[1] \in Tables /\ c[2] \in Places
    BY <2>1 DEF SummaryInv, TypeOK
  <2>3. buckets[c[1]][c[2]] = 1
    BY <2>1 DEF SummaryInv, CountedSoFar, StoreSummary
  <2> QED
    BY <2>1, <2>2, <2>3 DEF StoreSummary, Owed
<1> QED
  BY <1>1, SummaryInvariant, PTL DEF Spec, StoredCountsAreComplete

(***************************************************************************)
(* Runs less than a window apart leave no day out (activity_summary_window *)
(* and _store_activity_summary).                                           *)
(***************************************************************************)
THEOREM NoDayIsLeftOut == Spec => []NoGapBetweenRuns
<1>1. SummaryInv => NoGapBetweenRuns
  BY DEF SummaryInv
<1> QED
  BY <1>1, SummaryInvariant, PTL

-----------------------------------------------------------------------------
(* Reads of one purpose.                                                     *)

OnePurpose == \E q : Purposes = {q}

(***************************************************************************)
(* Nobody is eligible, and nothing is yielded, without consent at some     *)
(* moment of the read.                                                     *)
(***************************************************************************)
HeldInv ==
    /\ step = "eligibility" => unasked = Purposes
    /\ Reading => Consenting \subseteq held
    /\ step = "paging" => eligible \subseteq held \cap only
    /\ \A p \in Places : yielded[p] > 0 => rows[table][p].subject \in held \cap only

(***************************************************************************)
(* Nothing is counted, and then stored, without consent at some moment of  *)
(* the run, and only in its window; nothing is stored of the days to come. *)
(***************************************************************************)
CountedInv ==
    /\ run # "idle" => Consenting \subseteq runHeld
    /\ run \in {"events", "impressions"} => held \subseteq runHeld
    /\ \A t \in Tables, p \in Places : buckets[t][p] > 0 =>
          /\ run # "idle" /\ InWindow(p)
          /\ Recorded(t, p) /\ rows[t][p].subject \in runHeld
    /\ \A t \in Tables, p \in Places : summary[t][p] > 0 => Recorded(t, p) /\ DayOf(p) <= lastDay

PurposeInv == SummaryInv /\ HeldInv /\ CountedInv /\ RevokedAreNotCounted

(***************************************************************************)
(* The initial states.                                                     *)
(***************************************************************************)
LEMMA InitPurpose == Init => PurposeInv
<1> SUFFICES ASSUME Init PROVE PurposeInv
  OBVIOUS
<1>1. SummaryInv
  BY InitSummary
<1>2. HeldInv
  BY DEF Init, ReadInit, HeldInv, Reading
<1> QED
  BY <1>1, <1>2 DEF Init, PurposeInv, CountedInv, RevokedAreNotCounted, NoCounts

(***************************************************************************)
(* A change of consent.                                                    *)
(***************************************************************************)
LEMMA ConsentKeepsHeld ==
    ASSUME PurposeInv, NEW q \in Purposes, NEW s \in Subjects, GrantPurpose(q, s) \/ RevokePurpose(q, s)
    PROVE  HeldInv' /\ CountedInv' /\ RevokedAreNotCounted'
<1>1. /\ UNCHANGED <<rows, step, table, since, until, only, unasked, eligible, yielded, run, buckets, storedVars>>
      /\ held \subseteq held' /\ runHeld \subseteq runHeld'
  BY DEF GrantPurpose, Grant, RevokePurpose, Revoke, arguments, locals
<1>2. /\ Reading /\ Consenting \subseteq held => Consenting' \subseteq held'
      /\ run # "idle" /\ Consenting \subseteq runHeld => Consenting' \subseteq runHeld'
      /\ held' \subseteq held \cup Consenting'
  <2>1. CASE GrantPurpose(q, s)
    <3>1. held' = IF Reading THEN held \cup Consenting' ELSE held
      BY <2>1 DEF GrantPurpose, Grant
    <3>2. runHeld' = IF run = "idle" THEN runHeld ELSE runHeld \cup Consenting'
      BY <2>1 DEF GrantPurpose
    <3> QED
      BY <3>1, <3>2
  <2>2. CASE RevokePurpose(q, s)
    <3>1. Consenting' \subseteq Consenting
      BY <2>2, RevokeRemoves DEF RevokePurpose, PurposeInv, SummaryInv, ReadInv
    <3>2. held' = held /\ runHeld' = runHeld
      BY <2>2 DEF RevokePurpose, Revoke
    <3> QED
      BY <3>1, <3>2
  <2> QED
    BY <2>1, <2>2
<1>3. HeldInv'
  BY <1>1, <1>2 DEF PurposeInv, HeldInv, Reading
<1>4. run # "idle" => Consenting' \subseteq runHeld'
  BY <1>2 DEF PurposeInv, CountedInv
<1>5. run \in {"events", "impressions"} => held' \subseteq runHeld'
  BY <1>1, <1>2, <1>4 DEF PurposeInv, CountedInv
<1>6. CountedInv'
  BY <1>1, <1>4, <1>5 DEF PurposeInv, CountedInv, InWindow, Recorded, storedVars
<1> QED
  BY <1>1, <1>3, <1>6 DEF PurposeInv, RevokedAreNotCounted, storedVars

(***************************************************************************)
(* A recorded row was not yielded, counted or stored before.               *)
(***************************************************************************)
LEMMA RecordKeepsHeld ==
    ASSUME PurposeInv, NEW t \in Tables, NEW p \in Places, NEW s \in Subjects, RecordActivity(t, p, s)
    PROVE  HeldInv' /\ CountedInv' /\ RevokedAreNotCounted'
<1>1. /\ UNCHANGED <<today, runVars, storedVars, loyal, granted, step, arguments, locals, history>>
      /\ Record(t, p, s, today) /\ today \in Int
  BY ReadAssumption DEF RecordActivity, Record, PurposeInv, SummaryInv, TypeOK
<1>2. \A u \in Tables, o \in Places : Recorded(u, o) => rows'[u][o] = rows[u][o]
  BY <1>1, RecordAdds DEF PurposeInv, SummaryInv, ReadInv
<1>3. table \in Tables /\ Consenting' = Consenting
  BY <1>1 DEF PurposeInv, SummaryInv, TypeOK, ReadTypeOK, Consenting
<1>4. \A o \in Places : yielded[o] > 0 => Recorded(table, o)
  BY DEF PurposeInv, SummaryInv, ReadInv, YieldedOnce, Permitted
<1>5. HeldInv'
  BY <1>1, <1>2, <1>3, <1>4 DEF PurposeInv, HeldInv, Reading, arguments, locals, history
<1>6. CountedInv'
  BY <1>1, <1>2, <1>3 DEF PurposeInv, CountedInv, InWindow, Recorded, runVars, storedVars, arguments, history
<1> QED
  BY <1>1, <1>2, <1>5, <1>6 DEF PurposeInv, CountedInv, RevokedAreNotCounted, runVars, storedVars

(***************************************************************************)
(* A step of a read: with one purpose, who passes its query has consented  *)
(* at that moment.                                                         *)
(***************************************************************************)
LEMMA ReadKeepsHeld ==
    ASSUME PurposeInv, OnePurpose, ReadStep
    PROVE  HeldInv' /\ CountedInv' /\ RevokedAreNotCounted'
<1>1. UNCHANGED <<today, runVars, storedVars, loyal>>
  BY DEF ReadStep
<1>2. HeldInv' /\ UNCHANGED <<granted, rows, since, until, held>>
  <2>1. CASE FetchPage
    <3>1. /\ UNCHANGED <<granted, rows, table, since, until, only, unasked, eligible, before, kept, held>>
          /\ step = "paging" /\ step' \in {"paging", "ended"}
      BY <2>1 DEF FetchPage, arguments, history
    <3>2. PICK page \in SUBSET Places :
            /\ page \subseteq Matches
            /\ yielded' = [p \in Places |-> IF p \in page THEN yielded[p] + 1 ELSE yielded[p]]
      BY <2>1 DEF FetchPage, IsPage
    <3>3. ASSUME NEW p \in Places, yielded'[p] > 0 PROVE rows[table][p].subject \in held \cap only
      <4>1. CASE p \in page
        BY <3>1, <3>2, <4>1 DEF PurposeInv, HeldInv, Matches
      <4>2. CASE p \notin page
        BY <3>2, <3>3, <4>2 DEF PurposeInv, HeldInv
      <4> QED
        BY <4>1, <4>2
    <3>4. Consenting' = Consenting
      BY <3>1 DEF Consenting
    <3> QED
      BY <3>1, <3>3, <3>4 DEF PurposeInv, HeldInv, Reading
  <2>2. ASSUME NEW q \in Purposes, AskPurpose(q)
        PROVE  HeldInv' /\ UNCHANGED <<granted, rows, since, until, held>>
    <3>1. /\ UNCHANGED <<granted, rows, table, since, until, only, cursor, yielded, before, kept, held>>
          /\ step = "eligibility" /\ unasked' = unasked \ {q}
          /\ unasked' = {} => eligible' \subseteq granted[q] \cap only /\ eligible' \subseteq eligible
          /\ step' \in {"ended", "paging", "eligibility"} /\ (step' = "eligibility" => unasked' # {})
      BY <2>2 DEF AskPurpose, arguments, history
    <3>2. Purposes = {q} /\ unasked' = {}
      BY <3>1 DEF OnePurpose, PurposeInv, HeldInv
    <3>3. eligible' \subseteq Consenting
      BY <3>1, <3>2 DEF PurposeInv, SummaryInv, ReadInv, ReadTypeOK, Consenting
    <3>4. Consenting \subseteq held /\ Consenting' = Consenting
      BY <3>1 DEF PurposeInv, HeldInv, Reading, Consenting
    <3> QED
      BY <3>1, <3>2, <3>3, <3>4 DEF PurposeInv, HeldInv, Reading
  <2> QED
    BY <2>1, <2>2 DEF ReadStep
<1>3. Consenting' = Consenting
  BY <1>2 DEF Consenting
<1>4. CountedInv'
  BY <1>1, <1>2, <1>3 DEF PurposeInv, CountedInv, InWindow, Recorded, runVars, storedVars
<1> QED
  BY <1>1, <1>2, <1>4 DEF PurposeInv, RevokedAreNotCounted, storedVars

(***************************************************************************)
(* A run begins, or turns to the second table.                             *)
(***************************************************************************)
LEMMA StartKeepsHeld ==
    ASSUME PurposeInv, BeginRun \/ EventsRead
    PROVE  HeldInv' /\ CountedInv' /\ RevokedAreNotCounted'
<1>1. /\ UNCHANGED <<granted, rows, storedVars>>
      /\ run' \in {"events", "impressions"} /\ step' = "eligibility"
      /\ unasked' = Purposes /\ yielded' = [p \in Places |-> 0] /\ held' = Consenting
  BY DEF BeginRun, EventsRead, StartRead
<1>2. Consenting' = Consenting
  BY <1>1 DEF Consenting
<1>3. HeldInv'
  BY <1>1, <1>2 DEF HeldInv, Reading
<1>4. CountedInv'
  <2>1. CASE BeginRun
    BY <1>1, <1>2, <2>1 DEF BeginRun, NoCounts, PurposeInv, CountedInv, Recorded, storedVars
  <2>2. CASE EventsRead
    <3>1. /\ UNCHANGED <<since, until, runHeld>> /\ run = "events" /\ run' = "impressions" /\ table = Events
          /\ buckets' = [buckets EXCEPT ![Events] = yielded] /\ buckets \in Counts /\ Events \in Tables
      BY <2>2, SummaryAssumption DEF EventsRead, StartRead, PurposeInv, SummaryInv, RunReads, TypeOK
    <3>2. ASSUME NEW t \in Tables, NEW p \in Places, buckets'[t][p] > 0
          PROVE  InWindow(p) /\ Recorded(t, p) /\ rows[t][p].subject \in runHeld
      <4>1. CASE t = Events
        <5>1. yielded[p] > 0
          BY <3>1, <3>2, <4>1 DEF Counts
        <5>2. Permitted(p) /\ rows[table][p].subject \in held /\ held \subseteq runHeld
          BY <3>1, <5>1 DEF PurposeInv, SummaryInv, ReadInv, YieldedOnce, HeldInv, CountedInv
        <5> QED
          BY <3>1, <4>1, <5>2 DEF Permitted, InWindow
      <4>2. CASE t # Events
        BY <3>1, <3>2, <4>2 DEF PurposeInv, CountedInv, Counts
      <4> QED
        BY <4>1, <4>2
    <3> QED
      BY <1>1, <1>2, <3>1, <3>2 DEF PurposeInv, CountedInv, InWindow, Recorded, storedVars
  <2> QED
    BY <2>1, <2>2
<1> QED
  BY <1>1, <1>3, <1>4 DEF PurposeInv, RevokedAreNotCounted, storedVars

(***************************************************************************)
(* The second read is over.                                                *)
(***************************************************************************)
LEMMA ImpressionsKeepsHeld ==
    ASSUME PurposeInv, ImpressionsRead
    PROVE  HeldInv' /\ CountedInv' /\ RevokedAreNotCounted'
<1>1. /\ UNCHANGED <<granted, rows, since, until, runHeld, storedVars>>
      /\ run = "impressions" /\ run' = "store" /\ step' = "idle" /\ yielded' = [p \in Places |-> 0]
      /\ buckets' = [buckets EXCEPT ![Impressions] = yielded] /\ buckets \in Counts
      /\ table = Impressions /\ Impressions \in Tables
  BY SummaryAssumption DEF ImpressionsRead, Abandon, arguments, PurposeInv, SummaryInv, RunReads, TypeOK
<1>2. HeldInv'
  BY <1>1 DEF HeldInv, Reading
<1>3. ASSUME NEW t \in Tables, NEW p \in Places, buckets'[t][p] > 0
      PROVE  InWindow(p) /\ Recorded(t, p) /\ rows[t][p].subject \in runHeld
  <2>1. CASE t = Impressions
    <3>1. yielded[p] > 0
      BY <1>1, <1>3, <2>1 DEF Counts
    <3>2. Permitted(p) /\ rows[table][p].subject \in held /\ held \subseteq runHeld
      BY <1>1, <3>1 DEF PurposeInv, SummaryInv, ReadInv, YieldedOnce, HeldInv, CountedInv
    <3> QED
      BY <1>1, <2>1, <3>2 DEF Permitted, InWindow
  <2>2. CASE t # Impressions
    BY <1>1, <1>3, <2>2 DEF PurposeInv, CountedInv, Counts
  <2> QED
    BY <2>1, <2>2
<1>4. Consenting' = Consenting
  BY <1>1 DEF Consenting
<1>5. CountedInv'
  BY <1>1, <1>3, <1>4 DEF PurposeInv, CountedInv, InWindow, Recorded, storedVars
<1> QED
  BY <1>1, <1>2, <1>5 DEF PurposeInv, RevokedAreNotCounted, storedVars

(***************************************************************************)
(* What is stored in the window was counted by this run.                   *)
(***************************************************************************)
LEMMA StoreKeepsHeld ==
    ASSUME PurposeInv, StoreSummary
    PROVE  HeldInv' /\ CountedInv' /\ RevokedAreNotCounted'
<1>1. /\ UNCHANGED readVars
      /\ run = "store" /\ run' = "idle" /\ buckets' = NoCounts
      /\ \A t \in Tables, p \in Places :
            summary'[t][p] = IF InWindow(p) THEN buckets[t][p] ELSE summary[t][p]
      /\ storedSince' = since /\ storedHeld' = runHeld /\ lastDay' = until - 1
  BY DEF StoreSummary, EndRun
<1>2. HeldInv'
  BY <1>1 DEF PurposeInv, HeldInv, Reading, Consenting, readVars, arguments, locals, history
<1>3. until \in Int /\ since \in Int /\ lastDay \in Int /\ lastDay <= until - 1
  BY <1>1 DEF PurposeInv, SummaryInv, TypeOK, ReadTypeOK, StoredDays
<1>4. ASSUME NEW t \in Tables, NEW p \in Places, summary'[t][p] > 0
      PROVE  /\ Recorded(t, p) /\ DayOf(p) <= until - 1
             /\ DayOf(p) >= since => rows[t][p].subject \in runHeld
  <2>1. DayOf(p) \in Int
    BY DaysAreNumbers
  <2>2. CASE InWindow(p)
    BY <1>1, <1>3, <1>4, <2>1, <2>2 DEF PurposeInv, CountedInv, InWindow
  <2>3. CASE ~InWindow(p)
    <3>1. Recorded(t, p) /\ DayOf(p) <= lastDay
      BY <1>1, <1>4, <2>3 DEF PurposeInv, CountedInv
    <3> QED
      BY <1>3, <2>1, <2>3, <3>1 DEF InWindow
  <2> QED
    BY <2>2, <2>3
<1>5. CountedInv'
  BY <1>1, <1>4 DEF CountedInv, NoCounts, Recorded, readVars
<1>6. RevokedAreNotCounted'
  BY <1>1, <1>4 DEF RevokedAreNotCounted, readVars
<1> QED
  BY <1>2, <1>5, <1>6

(***************************************************************************)
(* A run fails.                                                            *)
(***************************************************************************)
LEMMA FailKeepsHeld ==
    ASSUME PurposeInv, RunFails
    PROVE  HeldInv' /\ CountedInv' /\ RevokedAreNotCounted'
<1>1. /\ UNCHANGED <<granted, rows, storedVars>>
      /\ run' = "idle" /\ buckets' = NoCounts /\ step' = "idle" /\ yielded' = [p \in Places |-> 0]
  BY DEF RunFails, EndRun, Abandon
<1>2. HeldInv'
  BY <1>1 DEF HeldInv, Reading
<1> QED
  BY <1>1, <1>2 DEF PurposeInv, CountedInv, RevokedAreNotCounted, NoCounts, Recorded, storedVars

(***************************************************************************)
(* With one purpose the invariant is inductive.                            *)
(***************************************************************************)
LEMMA PurposeInductive == OnePurpose /\ PurposeInv /\ [Next]_vars => PurposeInv'
<1> SUFFICES ASSUME OnePurpose, PurposeInv, [Next]_vars PROVE HeldInv' /\ CountedInv' /\ RevokedAreNotCounted'
  BY SummaryInductive DEF PurposeInv
<1>1. CASE Tomorrow
  BY <1>1 DEF Tomorrow, PurposeInv, HeldInv, Reading, Consenting, CountedInv, InWindow, Recorded,
     RevokedAreNotCounted, readVars, arguments, locals, history, runVars, storedVars
<1>2. CASE \E t \in Tables, p \in Places, s \in Subjects : RecordActivity(t, p, s)
  BY <1>2, RecordKeepsHeld
<1>3. CASE \E q \in Purposes, s \in Subjects : GrantPurpose(q, s) \/ RevokePurpose(q, s)
  BY <1>3, ConsentKeepsHeld
<1>4. CASE Run
  BY <1>4, StartKeepsHeld, ReadKeepsHeld, ImpressionsKeepsHeld, StoreKeepsHeld, FailKeepsHeld DEF Run
<1>5. CASE UNCHANGED vars
  BY <1>5 DEF vars, PurposeInv, HeldInv, Reading, Consenting, CountedInv, InWindow, Recorded,
     RevokedAreNotCounted, readVars, arguments, locals, history, runVars, storedVars
<1> QED
  BY <1>1, <1>2, <1>3, <1>4, <1>5 DEF Next

(***************************************************************************)
(* A read of one purpose yields no row twice, and none of a subject who    *)
(* held the purpose at no moment of it (_eligible_for_all, _keyset_pages). *)
(***************************************************************************)
THEOREM YieldedWithConsent ==
    ASSUME OnePurpose PROVE Spec => []YieldedWasPermitted
<1>1. PurposeInv => YieldedWasPermitted
  BY DEF PurposeInv, SummaryInv, ReadInv, YieldedOnce, HeldInv, YieldedWasPermitted
<1>2. PurposeInv /\ [Next]_vars => PurposeInv'
  BY PurposeInductive
<1> QED
  BY <1>1, <1>2, InitPurpose, PTL DEF Spec

(***************************************************************************)
(* A revocation takes effect with the next run in its window               *)
(* (_store_activity_summary).                                              *)
(***************************************************************************)
THEOREM RevocationTakesEffect ==
    ASSUME OnePurpose PROVE Spec => []RevokedAreNotCounted
<1>1. PurposeInv => RevokedAreNotCounted
  BY DEF PurposeInv
<1>2. PurposeInv /\ [Next]_vars => PurposeInv'
  BY PurposeInductive
<1> QED
  BY <1>1, <1>2, InitPurpose, PTL DEF Spec
===============================================================================
