----------------------------- MODULE RarityWalk -----------------------------
(***************************************************************************)
(* The computation release_rarity: a walk over the catalog's keyset pages  *)
(* that sums the counts, then a second walk whose pages are copied into    *)
(* one transaction that replaces insights.release_rarity, while releases   *)
(* come and go, requests fail and another walk may be doing the same       *)
(* (insights/computations.py, compute_and_store_rarity).                   *)
(*                                                                         *)
(* A walk runs once.  A row of the table is a release and the walk that    *)
(* wrote it.  The transaction runs at READ COMMITTED: its DELETE sees the  *)
(* rows committed when the statement began and waits for a transaction     *)
(* that has deleted one of them; its COPY waits for a transaction that has *)
(* written the same release, and fails if such a row is committed.         *)
(***************************************************************************)
EXTENDS Integers, FiniteSets

CONSTANTS
    Walks,        \* runs of the computation, of one engine or of several
    NumReleases,  \* bound: releases there can be
    PageSize,     \* RARITY_PAGE_SIZE
    MaxAttempts   \* _RARITY_REQUEST_ATTEMPTS

Releases == 1 .. NumReleases

ASSUME RarityAssumption ==
    /\ NumReleases \in Nat
    /\ PageSize \in Nat \ {0} /\ MaxAttempts \in Nat \ {0}

Earlier == "earlier"
ASSUME EarlierAssumption == Earlier \notin Walks

VARIABLES
    catalog,    \* the releases catalog-api pages through
    anchors,    \* history: those it has had all along
    table,      \* insights.release_rarity as committed
    step,       \* per walk: the await it is at
    after,      \* ... the cursor of its next page
    attempt,    \* ... the attempt at that page
    total,      \* ... release_total of the first page, NoTotal before it
    counted,    \* ... the releases in its distributions
    page,       \* ... the scored page it is about to copy
    last,       \* ... is that page the last one
    copied,     \* ... the releases it has copied
    target,     \* ... the rows its DELETE saw
    deleted,    \* ... the rows its DELETE deleted
    present     \* history: the releases in the catalog ever since it began

catalogVars == <<catalog, anchors>>
countVars == <<total, counted>>
pageVars == <<page, last>>
txnVars == <<copied, target, deleted>>
vars == <<catalogVars, table, step, after, attempt, countVars, pageVars, txnVars, present>>

NoTotal == -1
Rows == [id : Releases, walk : Walks \cup {Earlier}]
Ids(rows) == {row.id : row \in rows}

\* The transaction is open.
Open(w) == step[w] \in {"deleting", "copy", "store", "commit"}
Counted(w) == step[w] = "delete" \/ Open(w)
Active(w) == step[w] = "count" \/ Counted(w)

TypeOK ==
    /\ catalog \subseteq Releases /\ anchors \subseteq Releases
    /\ table \subseteq Rows
    /\ step \in [Walks -> {"idle", "count", "delete", "deleting", "copy", "store", "commit", "done"}]
    /\ after \in [Walks -> 0 .. NumReleases]
    /\ attempt \in [Walks -> 1 .. MaxAttempts]
    /\ total \in [Walks -> {NoTotal} \cup Nat]
    /\ counted \in [Walks -> SUBSET Releases]
    /\ page \in [Walks -> SUBSET Releases]
    /\ last \in [Walks -> BOOLEAN]
    /\ copied \in [Walks -> SUBSET Releases]
    /\ target \in [Walks -> SUBSET Rows]
    /\ deleted \in [Walks -> SUBSET Rows]
    /\ present \in [Walks -> SUBSET Releases]

\* The table is empty, or an earlier walk over another catalog filled it.
Init ==
    /\ catalog \in SUBSET Releases
    /\ anchors = catalog
    /\ table \in {{[id |-> r, walk |-> Earlier] : r \in stored} : stored \in SUBSET Releases}
    /\ step = [w \in Walks |-> "idle"]
    /\ after = [w \in Walks |-> 0]
    /\ attempt = [w \in Walks |-> 1]
    /\ total = [w \in Walks |-> NoTotal]
    /\ counted = [w \in Walks |-> {}]
    /\ page = [w \in Walks |-> {}]
    /\ last = [w \in Walks |-> FALSE]
    /\ copied = [w \in Walks |-> {}]
    /\ target = [w \in Walks |-> {}]
    /\ deleted = [w \in Walks |-> {}]
    /\ present = [w \in Walks |-> {}]

-----------------------------------------------------------------------------
(* catalog-api                                                               *)

Add(r) ==
    /\ catalog' = catalog \cup {r}
    /\ UNCHANGED <<anchors, table, step, after, attempt, countVars, pageVars, txnVars, present>>

Remove(r) ==
    /\ catalog' = catalog \ {r}
    /\ anchors' = anchors \ {r}
    /\ present' = [w \in Walks |-> present[w] \ {r}]
    /\ UNCHANGED <<table, step, after, attempt, countVars, pageVars, txnVars>>

\* A keyset page: the first PageSize releases after the cursor.
IsPage(releases, cursor) ==
    LET rest == {r \in catalog : r > cursor} IN
    /\ releases \subseteq rest
    /\ \A r \in releases, s \in rest \ releases : r < s
    /\ Cardinality(releases) <= PageSize
    /\ releases # rest => Cardinality(releases) = PageSize

\* next_after is null only when nothing is left, as it is after an empty page.
IsLast(final, releases, cursor) ==
    /\ final => \A r \in catalog : r > cursor => r \in releases
    /\ releases = {} => final

\* Otherwise it is the page's last release.
IsCursor(next, releases) == next \in releases /\ \A r \in releases : r <= next

-----------------------------------------------------------------------------
(* One walk                                                                  *)

Goto(w, s) == step' = [step EXCEPT ![w] = s]

\* The computation returns or raises: its transaction and its locals are gone.
End(w) ==
    /\ Goto(w, "done")
    /\ after' = [after EXCEPT ![w] = 0]
    /\ attempt' = [attempt EXCEPT ![w] = 1]
    /\ total' = [total EXCEPT ![w] = NoTotal]
    /\ counted' = [counted EXCEPT ![w] = {}]
    /\ page' = [page EXCEPT ![w] = {}]
    /\ last' = [last EXCEPT ![w] = FALSE]
    /\ copied' = [copied EXCEPT ![w] = {}]
    /\ target' = [target EXCEPT ![w] = {}]
    /\ deleted' = [deleted EXCEPT ![w] = {}]
    /\ present' = [present EXCEPT ![w] = {}]
    /\ UNCHANGED catalogVars

\* Mutation of Rollback: the connection goes back to the pool as it is, its
\* transaction still open.
RollbackForgotten(w) ==
    /\ Goto(w, "done")
    /\ UNCHANGED <<catalogVars, table, after, attempt, countVars, pageVars, txnVars, present>>

Rollback(w) == End(w) /\ UNCHANGED table

Begin(w) ==
    /\ step[w] = "idle"
    /\ Goto(w, "count")
    /\ present' = [present EXCEPT ![w] = catalog]
    /\ UNCHANGED <<catalogVars, table, after, attempt, countVars, pageVars, txnVars>>

\* release_total of the first page stands for the whole walk.
TotalAfter(w) == IF total[w] = NoTotal THEN Cardinality(catalog) ELSE total[w]

\* Mutation of CountPage: the first page is taken for all of them.
CountFirstPage(w) ==
    /\ step[w] = "count"
    /\ \E releases \in SUBSET Releases :
          /\ IsPage(releases, after[w])
          /\ counted' = [counted EXCEPT ![w] = @ \cup releases]
          /\ TotalAfter(w) # 0 /\ Goto(w, "delete") /\ after' = [after EXCEPT ![w] = 0]
    /\ total' = [total EXCEPT ![w] = TotalAfter(w)]
    /\ attempt' = [attempt EXCEPT ![w] = 1]
    /\ UNCHANGED <<catalogVars, table, pageVars, txnVars, present>>

\* _sum_rarity_quality_counts: one page of counts.
CountPage(w) ==
    /\ step[w] = "count"
    /\ \E releases \in SUBSET Releases :
          /\ IsPage(releases, after[w])
          /\ counted' = [counted EXCEPT ![w] = @ \cup releases]
          /\ \/ \E next \in Releases :
                /\ IsLast(FALSE, releases, after[w]) /\ IsCursor(next, releases)
                /\ after' = [after EXCEPT ![w] = next]
                /\ UNCHANGED step
             \/ /\ IsLast(TRUE, releases, after[w])
                /\ TotalAfter(w) # 0
                /\ after' = [after EXCEPT ![w] = 0]
                /\ Goto(w, "delete")
    /\ total' = [total EXCEPT ![w] = TotalAfter(w)]
    /\ attempt' = [attempt EXCEPT ![w] = 1]
    /\ UNCHANGED <<catalogVars, table, pageVars, txnVars, present>>

\* An empty catalog keeps the previous table.
NothingToStore(w) ==
    /\ step[w] = "count"
    /\ TotalAfter(w) = 0
    /\ IsLast(TRUE, {}, after[w])
    /\ Rollback(w)

\* The transaction begins and its DELETE takes its snapshot.
BeginDelete(w) ==
    /\ step[w] = "delete"
    /\ target' = [target EXCEPT ![w] = table]
    /\ Goto(w, "deleting")
    /\ UNCHANGED <<catalogVars, table, after, attempt, countVars, pageVars, copied, deleted, present>>

\* It waits for whoever has deleted one of those rows, and skips rows that
\* are gone by then.
FinishDelete(w) ==
    /\ step[w] = "deleting"
    /\ \A u \in Walks \ {w} : deleted[u] \cap target[w] = {}
    /\ deleted' = [deleted EXCEPT ![w] = target[w] \cap table]
    /\ Goto(w, "copy")
    /\ UNCHANGED <<catalogVars, table, after, attempt, countVars, pageVars, copied, target, present>>

\* A scored page arrives, whole.
FetchPage(w) ==
    /\ step[w] = "copy"
    /\ \E releases \in SUBSET Releases, final \in BOOLEAN :
          /\ IsPage(releases, after[w]) /\ IsLast(final, releases, after[w])
          /\ page' = [page EXCEPT ![w] = releases]
          /\ last' = [last EXCEPT ![w] = final]
    /\ attempt' = [attempt EXCEPT ![w] = 1]
    /\ Goto(w, "store")
    /\ UNCHANGED <<catalogVars, table, after, countVars, txnVars, present>>

\* No open transaction has written one of the page's releases, and every
\* committed row of one of them is a row this transaction has deleted.
NoConflict(w) ==
    /\ \A u \in Walks \ {w} : copied[u] \cap page[w] = {}
    /\ \A row \in table \ deleted[w] : row.id \notin page[w]

\* Mutation of StorePage: no unique index on the release.
StorePageUnchecked(w) ==
    /\ step[w] = "store"
    /\ copied' = [copied EXCEPT ![w] = @ \cup page[w]]
    /\ page' = [page EXCEPT ![w] = {}]
    /\ \/ last[w] /\ Goto(w, "commit") /\ UNCHANGED after
       \/ ~last[w] /\ Goto(w, "copy") /\ \E next \in Releases :
             IsCursor(next, page[w]) /\ after' = [after EXCEPT ![w] = next]
    /\ UNCHANGED <<catalogVars, table, attempt, countVars, last, target, deleted, present>>

\* _copy_rarity_pages: one COPY.
StorePage(w) ==
    /\ step[w] = "store"
    /\ NoConflict(w)
    /\ copied' = [copied EXCEPT ![w] = @ \cup page[w]]
    /\ page' = [page EXCEPT ![w] = {}]
    /\ \/ last[w] /\ Goto(w, "commit") /\ UNCHANGED after
       \/ ~last[w] /\ Goto(w, "copy") /\ \E next \in Releases :
             IsCursor(next, page[w]) /\ after' = [after EXCEPT ![w] = next]
    /\ UNCHANGED <<catalogVars, table, attempt, countVars, last, target, deleted, present>>

\* UniqueViolation: a row of another walk was committed in the meantime.
DuplicateKey(w) ==
    /\ step[w] = "store"
    /\ \E row \in table \ deleted[w] :
          row.id \in page[w] /\ \A u \in Walks \ {w} : row \notin deleted[u]
    /\ Rollback(w)

Commit(w) ==
    /\ step[w] = "commit"
    /\ Cardinality(copied[w]) >= total[w]
    /\ table' = (table \ deleted[w]) \cup {[id |-> r, walk |-> w] : r \in copied[w]}
    /\ End(w)

\* RarityWalkShortError
WalkShort(w) ==
    /\ step[w] = "commit"
    /\ Cardinality(copied[w]) < total[w]
    /\ Rollback(w)

Requesting(w) == step[w] \in {"count", "copy"}

\* Mutations of RetryPage: it goes on to the next page, it never gives up.
RetryNextPage(w) ==
    /\ Requesting(w)
    /\ attempt[w] < MaxAttempts
    /\ attempt' = [attempt EXCEPT ![w] = @ + 1]
    /\ \E next \in catalog : next > after[w] /\ after' = [after EXCEPT ![w] = next]
    /\ UNCHANGED <<catalogVars, table, step, countVars, pageVars, txnVars, present>>

\* A 429, a 5xx or a dropped connection: the same page is requested again ...
RetryPage(w) ==
    /\ Requesting(w)
    /\ attempt[w] < MaxAttempts
    /\ attempt' = [attempt EXCEPT ![w] = @ + 1]
    /\ UNCHANGED <<catalogVars, table, step, after, countVars, pageVars, txnVars, present>>

\* ... until the last attempt.
GiveUp(w) == Requesting(w) /\ attempt[w] = MaxAttempts /\ Rollback(w)

\* Any other status, a lock timeout, a lost connection, a stop: at any point.
Fails(w) == Active(w) /\ Rollback(w)

-----------------------------------------------------------------------------
Walk(w) ==
    \/ CountPage(w) \/ NothingToStore(w) \/ BeginDelete(w) \/ FinishDelete(w)
    \/ FetchPage(w) \/ StorePage(w) \/ DuplicateKey(w) \/ Commit(w) \/ WalkShort(w)
    \/ RetryPage(w) \/ GiveUp(w)

Next ==
    \/ \E r \in Releases : Add(r) \/ Remove(r)
    \/ \E w \in Walks : Begin(w) \/ Walk(w) \/ Fails(w)

Spec == Init /\ [][Next]_vars

\* A walk that has begun goes on: every request and every statement returns.
FairSpec == Spec /\ \A w \in Walks : WF_vars(Walk(w))

-----------------------------------------------------------------------------
(* Properties                                                                *)

(***************************************************************************)
(* A walk that replaces the table stores every release that was in the     *)
(* catalog from its beginning to its commit, whatever came and went around *)
(* them and however often a page was requested.                            *)
(***************************************************************************)
StoredIsComplete ==
    [][table' # table =>
          \E w \in Walks : step[w] = "commit" /\ present[w] \subseteq Ids(table')]_vars

(***************************************************************************)
(* Every release that stays in the catalog is in the distributions all     *)
(* pages of the second walk are ranked against.                            *)
(***************************************************************************)
RankedAgainstAll == \A w \in Walks : Counted(w) => present[w] \subseteq counted[w]

(***************************************************************************)
(* As long as some release has always been in the catalog, the table holds *)
(* the rows of one walk, also when two walks replace it at once: no row of *)
(* an earlier table survives beside newer ones.                            *)
(***************************************************************************)
TableIsOneWalk == anchors # {} => \A a, b \in table : a.walk = b.walk

(***************************************************************************)
(* A filled table is never emptied, whatever becomes of the catalog        *)
(* between the first request of a walk and its commit.                     *)
(***************************************************************************)
TableStaysFilled == [][table # {} => table' # {}]_vars

(***************************************************************************)
(* Every walk ends: no answer of the API makes it repeat a page forever,   *)
(* and two walks never wait for one another (they write releases in        *)
(* ascending order).  No lock timeout is needed for that.                  *)
(***************************************************************************)
EveryWalkEnds == \A w \in Walks : Active(w) ~> step[w] = "done"
=============================================================================
