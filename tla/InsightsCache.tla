---------------------------- MODULE InsightsCache ----------------------------
(***************************************************************************)
(* The generation-versioned cache-aside of the read endpoints              *)
(* (insights/cache.py, the endpoints and _scheduler_loop of insights.py).  *)
(*                                                                         *)
(* Rows behind a cache key carry a version, which a computation's commit   *)
(* increments.  A request and the scheduler interleave at every await:     *)
(* each GET, SELECT, SET, INCR and SCAN page is a step of its own, and     *)
(* every Valkey call may fail, because each of them falls through.         *)
(***************************************************************************)
EXTENDS Naturals

CONSTANTS
    Keys,        \* cache keys
    Requests,    \* requests that may be in progress at once
    MaxVersion,  \* bound: commits per key
    MaxGen,      \* bound: generations
    MaxFaults,   \* bound: Valkey errors
    MaxRestarts  \* bound: restarts of the engine

ASSUME CacheAssumption ==
    /\ MaxVersion \in Nat /\ MaxGen \in Nat /\ MaxFaults \in Nat /\ MaxRestarts \in Nat

VARIABLES
    tables,     \* version of the rows behind each key in PostgreSQL
    gen,        \* the generation counter in Valkey, 0 while unset
    entries,    \* the cached entries: generation, key and version of the value
    caching,    \* did this process reach Valkey at startup
    sched,      \* the scheduler: "computing", "bumping" or "reclaiming"
    unscanned,  \* the names the SCAN of the current reclaim must still return
    step,       \* per request: the await it is at
    key, mygen, row,    \* ... its key, the generation it captured, the rows it read
    floorAt,    \* history: the versions committed when each generation began
    due,        \* history: per request, the version it was promised when it began
    served,     \* history: the version each request was answered with
    faults, restarts

schedVars == <<sched, unscanned>>
requestVars == <<step, key, mygen, row, due, served>>
vars == <<tables, gen, entries, caching, schedVars, requestVars, floorAt, faults, restarts>>

Versions == 0 .. MaxVersion
Gens == 0 .. MaxGen
Entries == [gen : Gens, key : Keys, version : Versions]

\* The Valkey key of an entry; a key holds one value.
Name(e) == <<e.gen, e.key>>

InProgress == {"get", "select", "set"}

TypeOK ==
    /\ tables \in [Keys -> Versions]
    /\ gen \in Gens
    /\ entries \subseteq Entries
    /\ caching \in BOOLEAN
    /\ sched \in {"computing", "bumping", "reclaiming"}
    /\ unscanned \subseteq Gens \X Keys
    /\ step \in [Requests -> InProgress \cup {"idle", "answered"}]
    /\ key \in [Requests -> Keys]
    /\ mygen \in [Requests -> Gens]
    /\ row \in [Requests -> Versions]
    /\ floorAt \in [Gens -> [Keys -> Versions]]
    /\ due \in [Requests -> Versions]
    /\ served \in [Requests -> Versions]
    /\ faults \in 0 .. MaxFaults
    /\ restarts \in 0 .. MaxRestarts

Init ==
    /\ tables = [k \in Keys |-> 0]
    /\ gen = 0
    /\ entries = {}
    /\ caching = TRUE
    /\ sched = "computing"
    /\ unscanned = {}
    /\ step = [r \in Requests |-> "idle"]
    /\ key \in [Requests -> Keys]
    /\ mygen = [r \in Requests |-> 0]
    /\ row = [r \in Requests |-> 0]
    /\ floorAt = [g \in Gens |-> [k \in Keys |-> 0]]
    /\ due = [r \in Requests |-> 0]
    /\ served = [r \in Requests |-> 0]
    /\ faults = 0
    /\ restarts = 0

Fault == faults < MaxFaults /\ faults' = faults + 1

-----------------------------------------------------------------------------
(* A request: generation(), get(), SELECT, set().                            *)

\* The response is sent; the request's locals are gone.
Respond(r, version) ==
    /\ step' = [step EXCEPT ![r] = "answered"]
    /\ served' = [served EXCEPT ![r] = version]
    /\ mygen' = [mygen EXCEPT ![r] = 0]
    /\ row' = [row EXCEPT ![r] = 0]

\* The request captures generation g, is promised version d and goes on to its
\* next await.
Begin(r, k, g, d) ==
    /\ step[r] \notin InProgress
    /\ key' = [key EXCEPT ![r] = k]
    /\ mygen' = [mygen EXCEPT ![r] = g]
    /\ due' = [due EXCEPT ![r] = d]
    /\ step' = [step EXCEPT ![r] = IF caching THEN "get" ELSE "select"]
    /\ UNCHANGED <<tables, gen, entries, caching, schedVars, row, served, floorAt, restarts>>

ReadGeneration(r, k) == caching /\ Begin(r, k, gen, floorAt[gen][k]) /\ UNCHANGED faults

\* generation() answers 0 when Valkey fails it.  Such a request may find what
\* generation 0 left in the cache: it is promised committed rows of any age.
ReadGenerationFails(r, k) == caching /\ Begin(r, k, 0, 0) /\ Fault

\* Without a cache the generation is 0 and unused.
BeginUncached(r, k) == ~caching /\ Begin(r, k, 0, floorAt[gen][k]) /\ UNCHANGED faults

\* Mutation of GetHit: cache keys without their generation prefix.
GetHitOfAnyGeneration(r) ==
    /\ step[r] = "get"
    /\ \E e \in entries : e.key = key[r] /\ Respond(r, e.version)
    /\ UNCHANGED <<tables, gen, entries, caching, schedVars, key, due, floorAt, faults, restarts>>

GetHit(r) ==
    /\ step[r] = "get"
    /\ \E e \in entries :
          /\ Name(e) = <<mygen[r], key[r]>>
          /\ Respond(r, e.version)
    /\ UNCHANGED <<tables, gen, entries, caching, schedVars, key, due, floorAt, faults, restarts>>

GetMiss(r) ==
    /\ step[r] = "get"
    /\ \A e \in entries : Name(e) # <<mygen[r], key[r]>>
    /\ step' = [step EXCEPT ![r] = "select"]
    /\ UNCHANGED <<tables, gen, entries, caching, schedVars, key, mygen, row, due, served,
                   floorAt, faults, restarts>>

\* get() reports a Valkey error as a miss.
GetFails(r) ==
    /\ step[r] = "get"
    /\ Fault
    /\ step' = [step EXCEPT ![r] = "select"]
    /\ UNCHANGED <<tables, gen, entries, caching, schedVars, key, mygen, row, due, served,
                   floorAt, restarts>>

Select(r) ==
    /\ step[r] = "select"
    /\ IF caching
         THEN /\ row' = [row EXCEPT ![r] = tables[key[r]]]
              /\ step' = [step EXCEPT ![r] = "set"]
              /\ UNCHANGED <<mygen, served>>
         ELSE Respond(r, tables[key[r]])
    /\ UNCHANGED <<tables, gen, entries, caching, schedVars, key, due, floorAt, faults, restarts>>

\* Mutation of SetEntry: the generation is read when writing, not before reading.
SetEntryInCurrent(r) ==
    /\ step[r] = "set"
    /\ entries' = {e \in entries : Name(e) # <<gen, key[r]>>}
                     \cup {[gen |-> gen, key |-> key[r], version |-> row[r]]}
    /\ Respond(r, row[r])
    /\ UNCHANGED <<tables, gen, caching, schedVars, key, due, floorAt, faults, restarts>>

\* set() overwrites what is stored under the same generation and key.
SetEntry(r) ==
    /\ step[r] = "set"
    /\ entries' = {e \in entries : Name(e) # <<mygen[r], key[r]>>}
                     \cup {[gen |-> mygen[r], key |-> key[r], version |-> row[r]]}
    /\ Respond(r, row[r])
    /\ UNCHANGED <<tables, gen, caching, schedVars, key, due, floorAt, faults, restarts>>

\* A Valkey error in set(), and an endpoint that does not cache an empty result.
SetSkipped(r) ==
    /\ step[r] = "set"
    /\ Respond(r, row[r])
    /\ UNCHANGED <<tables, gen, entries, caching, schedVars, key, due, floorAt, faults, restarts>>

\* ex=ttl: Valkey drops an entry on its own.
Expire ==
    /\ \E e \in entries : entries' = entries \ {e} /\ unscanned' = unscanned \ {Name(e)}
    /\ UNCHANGED <<tables, gen, caching, sched, requestVars, floorAt, faults, restarts>>

-----------------------------------------------------------------------------
(* The scheduler: run_all_computations, then invalidate_all.                 *)

\* One computation commits.  A failed one commits nothing.
Commit(k) ==
    /\ sched = "computing"
    /\ tables[k] < MaxVersion
    /\ tables' = [tables EXCEPT ![k] = @ + 1]
    /\ UNCHANGED <<gen, entries, caching, schedVars, requestVars, floorAt, faults, restarts>>

\* run_all_computations returns, failed computations or not.
EndComputing ==
    /\ sched = "computing"
    /\ caching
    /\ gen < MaxGen
    /\ sched' = "bumping"
    /\ UNCHANGED <<tables, gen, entries, caching, unscanned, requestVars, floorAt, faults, restarts>>

\* INCR: the new generation starts from what is committed.
Increment ==
    /\ gen' = gen + 1
    /\ floorAt' = [floorAt EXCEPT ![gen + 1] = tables]

Bump ==
    /\ sched = "bumping"
    /\ Increment
    /\ sched' = "reclaiming"
    /\ unscanned' = {Name(e) : e \in entries}
    /\ UNCHANGED <<tables, entries, caching, requestVars, faults, restarts>>

\* Mutation of BumpFails: the error of INCR ends the scheduler's task.
BumpFailsUncaught ==
    /\ sched = "bumping"
    /\ Fault
    /\ sched' = "stopped"
    /\ UNCHANGED <<tables, gen, entries, caching, unscanned, requestVars, floorAt, restarts>>

\* INCR raises, before or after it took effect; the entries stay until
\* they expire and the scheduler sleeps until its next cycle.
BumpFails ==
    /\ sched = "bumping"
    /\ Fault
    /\ (Increment \/ UNCHANGED <<gen, floorAt>>)
    /\ sched' = "computing"
    /\ UNCHANGED <<tables, entries, caching, unscanned, requestVars, restarts>>

\* One page of SCAN and the DELETE of its keys outside the new generation.
\* SCAN returns, over all its pages, at least what was there all along.
ReclaimPage ==
    /\ sched = "reclaiming"
    /\ \E page \in SUBSET {Name(e) : e \in entries} :
          /\ page \cap unscanned # {}
          /\ entries' = {e \in entries : Name(e) \in page => e.gen = gen}
          /\ unscanned' = unscanned \ page
    /\ UNCHANGED <<tables, gen, caching, sched, requestVars, floorAt, faults, restarts>>

ReclaimDone ==
    /\ sched = "reclaiming"
    /\ unscanned = {}
    /\ sched' = "computing"
    /\ UNCHANGED <<tables, gen, entries, caching, unscanned, requestVars, floorAt, faults, restarts>>

ReclaimFails ==
    /\ sched = "reclaiming"
    /\ Fault
    /\ sched' = "computing"
    /\ unscanned' = {}
    /\ UNCHANGED <<tables, gen, entries, caching, requestVars, floorAt, restarts>>

\* The process dies wherever it is, with its requests, and a new one starts.
\* A failed ping at startup leaves it without a cache for good.
Restart ==
    /\ restarts < MaxRestarts
    /\ restarts' = restarts + 1
    /\ caching' \in BOOLEAN
    /\ sched' = "computing"
    /\ unscanned' = {}
    /\ step' = [r \in Requests |-> "idle"]
    /\ mygen' = [r \in Requests |-> 0]
    /\ row' = [r \in Requests |-> 0]
    /\ UNCHANGED <<tables, gen, entries, key, due, served, floorAt, faults>>

-----------------------------------------------------------------------------
Request(r) ==
    \/ \E k \in Keys : ReadGeneration(r, k) \/ ReadGenerationFails(r, k) \/ BeginUncached(r, k)
    \/ GetHit(r) \/ GetMiss(r) \/ GetFails(r)
    \/ Select(r) \/ SetEntry(r) \/ SetSkipped(r)

Invalidate == Bump \/ BumpFails \/ ReclaimPage \/ ReclaimDone \/ ReclaimFails

Next ==
    \/ \E r \in Requests : Request(r)
    \/ \E k \in Keys : Commit(k)
    \/ EndComputing \/ Invalidate
    \/ Expire \/ Restart

Spec == Init /\ [][Next]_vars

\* The scheduler's task runs as long as its process does.
FairSpec == Spec /\ WF_vars(EndComputing) /\ WF_vars(Invalidate)

-----------------------------------------------------------------------------
(* Properties                                                                *)

(***************************************************************************)
(* No entry of any generation is older than the rows committed when that   *)
(* generation began, although a request may write it long after: this is   *)
(* the race the versioned namespace removes (module docstring of           *)
(* cache.py).                                                              *)
(***************************************************************************)
EntriesAreFresh ==
    \A e \in entries : e.gen <= gen /\ e.version >= floorAt[e.gen][e.key]

(***************************************************************************)
(* A request that begins after a cycle's generation bump is never answered *)
(* with rows older than that cycle's commits (insights.py, top_artists:    *)
(* "it can never re-cache pre-update data over fresh results"), whatever   *)
(* requests that could not read the generation counter store meanwhile.    *)
(***************************************************************************)
AnswersAreFresh ==
    \A r \in Requests : step[r] = "answered" => served[r] >= due[r]

(***************************************************************************)
(* What a computation commits becomes due: the generation is advanced past *)
(* it, through failed bumps and restarts, unless the process runs without  *)
(* a cache.                                                                *)
(***************************************************************************)
CommitsBecomeDue ==
    \A k \in Keys :
        (floorAt[gen][k] < tables[k]) ~> (floorAt[gen][k] = tables[k] \/ ~caching \/ gen = MaxGen)

-----------------------------------------------------------------------------
(* The cache implements FreshReads: requests see no more of it than the age  *)
(* of their rows, and that only within what they were promised.              *)

state == [r \in Requests |-> IF step[r] \in InProgress THEN "asked" ELSE step[r]]

Fresh == INSTANCE FreshReads WITH promised <- floorAt[gen]

ImplementsFreshReads == Fresh!Spec
=============================================================================
