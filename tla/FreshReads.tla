----------------------------- MODULE FreshReads -----------------------------
(***************************************************************************)
(* What the read endpoints promise about freshness, cache or no cache.     *)
(* A computation commits a newer version of the rows behind a key; at the  *)
(* end of a cycle everything committed so far becomes due; a request is    *)
(* answered with a version that was due when the request began, or a newer *)
(* one that has been committed.  Only a request that cannot tell what is   *)
(* due is promised no more than committed rows.  The counterpart of the    *)
(* "Cache consistency" section of docs/architecture.md.                    *)
(***************************************************************************)
EXTENDS Naturals

CONSTANTS Keys, Requests, MaxVersion

VARIABLES
    tables,   \* version of the rows behind each key, as committed
    promised, \* the version from which on a new request is answered
    state,    \* each request: "idle", "asked" or "answered"
    key,      \* ... the key it asks for
    due,      \* ... the version promised when it began
    served    \* ... the version it was answered with

readVars == <<tables, promised, state, key, due, served>>

Versions == 0 .. MaxVersion

Init ==
    /\ tables = [k \in Keys |-> 0]
    /\ promised = tables
    /\ state = [r \in Requests |-> "idle"]
    /\ key \in [Requests -> Keys]
    /\ due = [r \in Requests |-> 0]
    /\ served = [r \in Requests |-> 0]

Commit(k) ==
    /\ tables' = [tables EXCEPT ![k] = @ + 1]
    /\ UNCHANGED <<promised, state, key, due, served>>

EndCycle ==
    /\ promised' = tables
    /\ UNCHANGED <<tables, state, key, due, served>>

Asks(r, k, promise) ==
    /\ state[r] # "asked"
    /\ state' = [state EXCEPT ![r] = "asked"]
    /\ key' = [key EXCEPT ![r] = k]
    /\ due' = [due EXCEPT ![r] = promise]
    /\ UNCHANGED <<tables, promised, served>>

Ask(r, k) == Asks(r, k, promised[k])

\* The request cannot tell what is due.
AskBlindly(r, k) == Asks(r, k, 0)

Answer(r) ==
    /\ state[r] = "asked"
    /\ state' = [state EXCEPT ![r] = "answered"]
    /\ \E v \in due[r] .. tables[key[r]] : served' = [served EXCEPT ![r] = v]
    /\ UNCHANGED <<tables, promised, key, due>>

\* The process dies: no request is ever answered late.
Abandon ==
    /\ state' = [r \in Requests |-> "idle"]
    /\ UNCHANGED <<tables, promised, key, due, served>>

Next ==
    \/ \E k \in Keys : Commit(k)
    \/ EndCycle
    \/ \E r \in Requests : Answer(r) \/ \E k \in Keys : Ask(r, k) \/ AskBlindly(r, k)
    \/ Abandon

Spec == Init /\ [][Next]_readVars
=============================================================================
