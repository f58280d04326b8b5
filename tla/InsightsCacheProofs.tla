------------------------- MODULE InsightsCacheProofs -------------------------
(***************************************************************************)
(* Proofs about InsightsCache, for any set of keys and of concurrent       *)
(* requests and any bounds, and whatever Valkey calls fail: entries are    *)
(* fresh, answers are fresh and the reads implement FreshReads.            *)
(***************************************************************************)
EXTENDS InsightsCache, TLAPS

\* Generations promise committed rows only, and a bump has room to happen.
FloorsAreCommitted ==
    /\ \A g \in Gens, k \in Keys : floorAt[g][k] <= tables[k]
    /\ sched = "bumping" => gen < MaxGen

\* An entry holds committed rows.
EntriesAreCommitted == \A e \in entries : e.version <= tables[e.key]

\* What a request in progress has captured.
CapturedGeneration ==
    \A r \in Requests : step[r] \in InProgress =>
        /\ mygen[r] <= gen
        /\ due[r] <= tables[key[r]]
        /\ step[r] = "set" =>
              /\ row[r] >= floorAt[mygen[r]][key[r]] /\ row[r] >= due[r]
              /\ row[r] <= tables[key[r]]

\* The inductive invariant.
CacheInv ==
    /\ TypeOK
    /\ FloorsAreCommitted
    /\ EntriesAreCommitted
    /\ EntriesAreFresh
    /\ CapturedGeneration

\* The generation a request looks up is good enough for what it was promised.
CapturedInTime ==
    \A r \in Requests : step[r] = "get" => due[r] <= floorAt[mygen[r]][key[r]]

-----------------------------------------------------------------------------

(* A request that begins captures a generation of the right type ... *)
LEMMA BeginType ==
    ASSUME TypeOK, NEW r \in Requests, NEW k \in Keys, NEW g \in Gens, NEW d \in Versions,
           Begin(r, k, g, d), faults' \in 0 .. MaxFaults
    PROVE  TypeOK'
<1>1. step' \in [Requests -> InProgress \cup {"idle", "answered"}]
  BY DEF Begin, TypeOK, InProgress
<1>2. key' \in [Requests -> Keys] /\ mygen' \in [Requests -> Gens]
  BY DEF Begin, TypeOK
<1>3. due' \in [Requests -> Versions]
  BY DEF Begin, TypeOK
<1>4. QED
  BY <1>1, <1>2, <1>3 DEF Begin, TypeOK, schedVars

(* ... and one that is answered has its locals cleared. *)
LEMMA RespondType ==
    ASSUME TypeOK, CacheAssumption, NEW r \in Requests, NEW v \in Versions, Respond(r, v)
    PROVE  /\ step' \in [Requests -> InProgress \cup {"idle", "answered"}]
           /\ served' \in [Requests -> Versions]
           /\ mygen' \in [Requests -> Gens]
           /\ row' \in [Requests -> Versions]
BY DEF Respond, TypeOK, CacheAssumption, Versions, Gens

(* A failing call is counted. *)
LEMMA FaultType == TypeOK /\ Fault => faults' \in 0 .. MaxFaults
BY CacheAssumption DEF Fault, TypeOK, CacheAssumption

(* Every step keeps the variables in their types. *)
LEMMA TypeStep ==
    ASSUME TypeOK, sched = "bumping" => gen < MaxGen, [Next]_vars
    PROVE  TypeOK'
<1> USE CacheAssumption
    DEF CacheAssumption, Entries, InProgress, Name, schedVars, requestVars
<1>1. ASSUME NEW r \in Requests, NEW k \in Keys, ReadGeneration(r, k) PROVE TypeOK'
  BY <1>1, BeginType DEF ReadGeneration, TypeOK
<1>2. ASSUME NEW r \in Requests, NEW k \in Keys, ReadGenerationFails(r, k) PROVE TypeOK'
  BY <1>2, BeginType, FaultType, 0 \in Gens, 0 \in Versions DEF ReadGenerationFails, Gens, Versions
<1>3. ASSUME NEW r \in Requests, NEW k \in Keys, BeginUncached(r, k) PROVE TypeOK'
  BY <1>3, BeginType, 0 \in Gens DEF BeginUncached, TypeOK, Gens
<1>4. ASSUME NEW r \in Requests, GetHit(r) PROVE TypeOK'
  <2>1. PICK e \in entries : Respond(r, e.version)
    BY <1>4 DEF GetHit
  <2>2. e.version \in Versions
    BY DEF TypeOK
  <2>3. QED
    BY <1>4, <2>1, <2>2, RespondType DEF GetHit, TypeOK
<1>5. ASSUME NEW r \in Requests, GetMiss(r) PROVE TypeOK'
  BY <1>5 DEF GetMiss, TypeOK
<1>6. ASSUME NEW r \in Requests, GetFails(r) PROVE TypeOK'
  BY <1>6, FaultType DEF GetFails, TypeOK
<1>7. ASSUME NEW r \in Requests, Select(r) PROVE TypeOK'
  <2>1. tables[key[r]] \in Versions
    BY DEF TypeOK
  <2>2. CASE caching
    BY <1>7, <2>1, <2>2 DEF Select, TypeOK
  <2>3. CASE ~caching
    BY <1>7, <2>1, <2>3, RespondType DEF Select, TypeOK
  <2>4. QED
    BY <2>2, <2>3
<1>8. ASSUME NEW r \in Requests, SetEntry(r) PROVE TypeOK'
  <2>1. mygen[r] \in Gens /\ key[r] \in Keys /\ row[r] \in Versions
    BY DEF TypeOK
  <2>2. entries' \subseteq Entries
    BY <1>8, <2>1 DEF SetEntry, TypeOK
  <2>3. QED
    BY <1>8, <2>1, <2>2, RespondType DEF SetEntry, TypeOK
<1>9. ASSUME NEW r \in Requests, SetSkipped(r) PROVE TypeOK'
  <2>1. row[r] \in Versions
    BY DEF TypeOK
  <2>2. QED
    BY <1>9, <2>1, RespondType DEF SetSkipped, TypeOK
<1>10. ASSUME NEW k \in Keys, Commit(k) PROVE TypeOK'
  <2>1. tables' \in [Keys -> Versions]
    BY <1>10 DEF Commit, TypeOK, Versions
  <2>2. QED
    BY <1>10, <2>1 DEF Commit, TypeOK
<1>11. CASE EndComputing
  BY <1>11 DEF EndComputing, TypeOK
<1>12. CASE Bump
  <2>1. gen' \in Gens /\ floorAt' \in [Gens -> [Keys -> Versions]]
    BY <1>12 DEF Bump, Increment, TypeOK, Gens
  <2>2. unscanned' \subseteq Gens \X Keys
    BY <1>12 DEF Bump, TypeOK
  <2>3. QED
    BY <1>12, <2>1, <2>2 DEF Bump, TypeOK
<1>13. CASE BumpFails
  <2>1. gen' \in Gens /\ floorAt' \in [Gens -> [Keys -> Versions]]
    <3>1. CASE Increment
      BY <1>13, <3>1 DEF BumpFails, Increment, TypeOK, Gens
    <3>2. CASE UNCHANGED <<gen, floorAt>>
      BY <3>2 DEF TypeOK
    <3>3. QED
      BY <1>13, <3>1, <3>2 DEF BumpFails
  <2>2. faults' \in 0 .. MaxFaults
    BY <1>13, FaultType DEF BumpFails
  <2>3. QED
    BY <1>13, <2>1, <2>2 DEF BumpFails, TypeOK
<1>14. CASE ReclaimPage
  BY <1>14 DEF ReclaimPage, TypeOK
<1>15. CASE ReclaimDone
  BY <1>15 DEF ReclaimDone, TypeOK
<1>16. CASE ReclaimFails
  BY <1>16, FaultType DEF ReclaimFails, TypeOK
<1>17. CASE Expire
  BY <1>17 DEF Expire, TypeOK
<1>18. CASE Restart
  BY <1>18 DEF Restart, TypeOK, Gens, Versions
<1>19. CASE UNCHANGED vars
  BY <1>19 DEF vars, TypeOK
<1>20. QED
  BY <1>1, <1>2, <1>3, <1>4, <1>5, <1>6, <1>7, <1>8, <1>9, <1>10, <1>11, <1>12, <1>13, <1>14, <1>15, <1>16, <1>17, <1>18, <1>19 DEF Next, Request, Invalidate

(* A request begins with a generation that has begun and a promise that is    *)
(* committed, and that the generation keeps if it will be looked up.          *)
LEMMA BeginsKnown ==
    ASSUME CacheInv, NEW r \in Requests, NEW k \in Keys,
           ReadGeneration(r, k) \/ ReadGenerationFails(r, k) \/ BeginUncached(r, k)
    PROVE  \E g \in Gens, d \in Versions :
              /\ Begin(r, k, g, d)
              /\ g <= gen /\ d <= tables[k]
              /\ caching => d <= floorAt[g][k]
<1>1. /\ gen \in Gens /\ gen \in Nat /\ 0 \in Gens /\ 0 \in Versions
      /\ floorAt[gen][k] \in Versions /\ floorAt[0][k] \in Nat /\ tables[k] \in Nat
      /\ floorAt[gen][k] <= tables[k] /\ floorAt[gen][k] \in Nat
  BY CacheAssumption DEF CacheInv, TypeOK, FloorsAreCommitted, Gens, Versions, CacheAssumption
<1>2. CASE ReadGeneration(r, k)
  <2>1. Begin(r, k, gen, floorAt[gen][k])
    BY <1>2 DEF ReadGeneration
  <2>2. gen <= gen /\ floorAt[gen][k] <= floorAt[gen][k]
    BY <1>1
  <2>3. QED
    BY <1>1, <2>1, <2>2
<1>3. CASE ReadGenerationFails(r, k)
  <2>1. Begin(r, k, 0, 0)
    BY <1>3 DEF ReadGenerationFails
  <2>2. 0 <= gen /\ 0 <= tables[k] /\ 0 <= floorAt[0][k]
    BY <1>1
  <2>3. QED
    BY <1>1, <2>1, <2>2
<1>4. CASE BeginUncached(r, k)
  <2>1. Begin(r, k, 0, floorAt[gen][k]) /\ ~caching
    BY <1>4 DEF BeginUncached
  <2>2. 0 <= gen
    BY <1>1
  <2>3. QED
    BY <1>1, <2>1, <2>2
<1>5. QED
  BY <1>2, <1>3, <1>4

(* A request begins with nothing promised to it beyond what is committed. *)
LEMMA BeginInv ==
    ASSUME CacheInv, TypeOK', NEW r \in Requests, NEW k \in Keys, NEW g \in Gens, NEW d \in Versions,
           g <= gen, d <= tables[k], Begin(r, k, g, d)
    PROVE  /\ FloorsAreCommitted' /\ EntriesAreCommitted'
           /\ EntriesAreFresh' /\ CapturedGeneration'
<1>1. FloorsAreCommitted' /\ EntriesAreCommitted' /\ EntriesAreFresh'
  BY DEF Begin, CacheInv, FloorsAreCommitted, EntriesAreCommitted, EntriesAreFresh, schedVars
<1>2. /\ key'[r] = k /\ mygen'[r] = g /\ due'[r] = d
      /\ step'[r] \in {"get", "select"}
      /\ \A q \in Requests \ {r} : /\ key'[q] = key[q] /\ mygen'[q] = mygen[q]
                                 /\ due'[q] = due[q] /\ step'[q] = step[q]
  BY DEF Begin, CacheInv, TypeOK
<1>3. CapturedGeneration'
  BY <1>2 DEF Begin, CacheInv, CapturedGeneration
<1>4. QED
  BY <1>1, <1>3

(* ... so it disturbs nothing. *)
LEMMA BeginKeepsInv ==
    ASSUME CacheInv, TypeOK', NEW r \in Requests, NEW k \in Keys,
           ReadGeneration(r, k) \/ ReadGenerationFails(r, k) \/ BeginUncached(r, k)
    PROVE  /\ FloorsAreCommitted' /\ EntriesAreCommitted'
           /\ EntriesAreFresh' /\ CapturedGeneration'
BY BeginsKnown, BeginInv

(* Every step preserves the inductive invariant. *)
LEMMA InvStep ==
    ASSUME CacheInv, TypeOK', [Next]_vars
    PROVE  FloorsAreCommitted' /\ EntriesAreCommitted' /\ EntriesAreFresh' /\ CapturedGeneration'
<1> USE CacheAssumption
    DEF CacheInv, TypeOK, Versions, Gens, Entries, InProgress, Name, schedVars, requestVars,
        FloorsAreCommitted, EntriesAreCommitted, EntriesAreFresh, CapturedGeneration
<1>1. ASSUME NEW r \in Requests, NEW k \in Keys, ReadGeneration(r, k) PROVE /\ FloorsAreCommitted' /\ EntriesAreCommitted'
                                            /\ EntriesAreFresh' /\ CapturedGeneration'
  BY <1>1, BeginKeepsInv
<1>2. ASSUME NEW r \in Requests, NEW k \in Keys, ReadGenerationFails(r, k) PROVE /\ FloorsAreCommitted' /\ EntriesAreCommitted'
                                            /\ EntriesAreFresh' /\ CapturedGeneration'
  BY <1>2, BeginKeepsInv
<1>3. ASSUME NEW r \in Requests, NEW k \in Keys, BeginUncached(r, k) PROVE /\ FloorsAreCommitted' /\ EntriesAreCommitted'
                                            /\ EntriesAreFresh' /\ CapturedGeneration'
  BY <1>3, BeginKeepsInv
<1>4. ASSUME NEW r \in Requests, GetHit(r) PROVE /\ FloorsAreCommitted' /\ EntriesAreCommitted'
                                            /\ EntriesAreFresh' /\ CapturedGeneration'
  <2>1. UNCHANGED <<tables, gen, entries, floorAt, key, due, sched>>
    BY <1>4 DEF GetHit
  <2>2. /\ step'[r] = "answered"
        /\ \A q \in Requests \ {r} : /\ step'[q] = step[q] /\ mygen'[q] = mygen[q]
                                   /\ row'[q] = row[q]
    BY <1>4 DEF GetHit, Respond
  <2>3. FloorsAreCommitted' /\ EntriesAreCommitted' /\ EntriesAreFresh'
    BY <2>1
  <2>4. CapturedGeneration'
    BY <2>1, <2>2
  <2>5. QED
    BY <2>3, <2>4
<1>5. ASSUME NEW r \in Requests, GetMiss(r) PROVE /\ FloorsAreCommitted' /\ EntriesAreCommitted'
                                            /\ EntriesAreFresh' /\ CapturedGeneration'
  BY <1>5 DEF GetMiss
<1>6. ASSUME NEW r \in Requests, GetFails(r) PROVE /\ FloorsAreCommitted' /\ EntriesAreCommitted'
                                            /\ EntriesAreFresh' /\ CapturedGeneration'
  BY <1>6 DEF GetFails, Fault
<1>7. ASSUME NEW r \in Requests, Select(r) PROVE /\ FloorsAreCommitted' /\ EntriesAreCommitted'
                                            /\ EntriesAreFresh' /\ CapturedGeneration'
  <2>1. FloorsAreCommitted' /\ EntriesAreCommitted' /\ EntriesAreFresh'
    BY <1>7 DEF Select, CacheInv, FloorsAreCommitted, EntriesAreCommitted, EntriesAreFresh, schedVars
  <2>2. CASE caching
    <3>1. /\ row'[r] = tables[key[r]] /\ step'[r] = "set"
          /\ \A q \in Requests \ {r} : row'[q] = row[q] /\ step'[q] = step[q]
      BY <1>7, <2>2 DEF Select
    <3>2. tables[key[r]] >= floorAt[mygen[r]][key[r]] /\ tables[key[r]] >= due[r]
      BY <1>7 DEF Select
    <3>3. ASSUME NEW q \in Requests, step'[q] \in InProgress
          PROVE  /\ mygen'[q] <= gen'
                 /\ due'[q] <= tables'[key'[q]]
                 /\ step'[q] = "set" =>
                       /\ row'[q] >= floorAt'[mygen'[q]][key'[q]] /\ row'[q] >= due'[q]
                       /\ row'[q] <= tables'[key'[q]]
      <4>1. UNCHANGED <<tables, gen, floorAt, key, due, mygen>>
        BY <1>7, <2>2 DEF Select
      <4>2. CASE q = r
        BY <1>7, <3>1, <3>2, <4>1, <4>2 DEF Select
      <4>3. CASE q # r
        BY <3>1, <3>3, <4>1, <4>3
      <4>4. QED
        BY <4>2, <4>3
    <3>4. QED
      BY <2>1, <3>3
  <2>3. CASE ~caching
    <3>1. /\ step'[r] = "answered"
          /\ \A q \in Requests \ {r} : /\ step'[q] = step[q] /\ mygen'[q] = mygen[q]
                                     /\ row'[q] = row[q]
      BY <1>7, <2>3 DEF Select, Respond
    <3>2. UNCHANGED <<tables, gen, floorAt, key, due>>
      BY <1>7, <2>3 DEF Select, Respond
    <3>3. CapturedGeneration'
      BY <3>1, <3>2
    <3>4. QED
      BY <2>1, <3>3
  <2>4. QED
    BY <2>2, <2>3
<1>8. ASSUME NEW r \in Requests, SetEntry(r) PROVE /\ FloorsAreCommitted' /\ EntriesAreCommitted'
                                            /\ EntriesAreFresh' /\ CapturedGeneration'
  <2> DEFINE stored == [gen |-> mygen[r], key |-> key[r], version |-> row[r]]
  <2>1. UNCHANGED <<tables, gen, floorAt, key, due, sched>>
    BY <1>8 DEF SetEntry
  <2>2. /\ step'[r] = "answered"
        /\ \A q \in Requests \ {r} : /\ step'[q] = step[q] /\ mygen'[q] = mygen[q]
                                   /\ row'[q] = row[q]
    BY <1>8 DEF SetEntry, Respond
  <2>3. /\ stored.gen <= gen /\ stored.version >= floorAt[stored.gen][stored.key]
        /\ stored.version <= tables[stored.key]
    <3>1. step[r] = "set" /\ step[r] \in InProgress
      BY <1>8 DEF SetEntry
    <3>2. /\ mygen[r] <= gen /\ row[r] >= floorAt[mygen[r]][key[r]]
          /\ row[r] <= tables[key[r]]
      BY <3>1
    <3>3. QED
      BY <3>2
  <2>4. \A e \in entries' : e \in entries \/ e = stored
    BY <1>8 DEF SetEntry
  <2>5. FloorsAreCommitted'
    BY <2>1
  <2>6. EntriesAreCommitted'
    BY <2>1, <2>3, <2>4
  <2>7. EntriesAreFresh'
    BY <2>1, <2>3, <2>4
  <2>8. CapturedGeneration'
    BY <2>1, <2>2
  <2>9. QED
    BY <2>5, <2>6, <2>7, <2>8
<1>9. ASSUME NEW r \in Requests, SetSkipped(r) PROVE /\ FloorsAreCommitted' /\ EntriesAreCommitted'
                                            /\ EntriesAreFresh' /\ CapturedGeneration'
  <2>1. UNCHANGED <<tables, gen, entries, floorAt, key, due, sched>>
    BY <1>9 DEF SetSkipped
  <2>2. /\ step'[r] = "answered"
        /\ \A q \in Requests \ {r} : /\ step'[q] = step[q] /\ mygen'[q] = mygen[q]
                                   /\ row'[q] = row[q]
    BY <1>9 DEF SetSkipped, Respond
  <2>3. FloorsAreCommitted' /\ EntriesAreCommitted' /\ EntriesAreFresh'
    BY <2>1
  <2>4. CapturedGeneration'
    BY <2>1, <2>2
  <2>5. QED
    BY <2>3, <2>4
<1>10. ASSUME NEW k \in Keys, Commit(k) PROVE /\ FloorsAreCommitted' /\ EntriesAreCommitted'
                                            /\ EntriesAreFresh' /\ CapturedGeneration'
  <2>1. UNCHANGED <<gen, floorAt, entries, key, due, mygen, row, step>> /\ sched' = sched
    BY <1>10 DEF Commit
  <2>2. \A j \in Keys : tables[j] \in Versions /\ tables'[j] \in Versions /\ tables[j] <= tables'[j]
    BY <1>10 DEF Commit
  <2>3. FloorsAreCommitted'
    BY <2>1, <2>2
  <2>4. EntriesAreCommitted'
    BY <2>1, <2>2
  <2>5. EntriesAreFresh'
    BY <2>1
  <2>6. CapturedGeneration'
    <3>1. CapturedGeneration /\ key \in [Requests -> Keys] /\ due \in [Requests -> Versions]
          /\ row \in [Requests -> Versions]
      OBVIOUS
    <3> HIDE DEF CacheInv, TypeOK
    <3>2. ASSUME NEW q \in Requests
          PROVE  /\ due[q] <= tables[key[q]] => due'[q] <= tables'[key'[q]]
                 /\ row[q] <= tables[key[q]] => row'[q] <= tables'[key'[q]]
      BY <2>1, <2>2, <3>1
    <3>3. QED
      BY <2>1, <3>1, <3>2
  <2>7. QED
    BY <2>3, <2>4, <2>5, <2>6
<1>11. CASE EndComputing
  BY <1>11 DEF EndComputing
<1>12. CASE Bump
  BY <1>12 DEF Bump, Increment
<1>13. CASE BumpFails
  <2>1. CASE Increment
    BY <1>13, <2>1 DEF BumpFails, Increment
  <2>2. CASE UNCHANGED <<gen, floorAt>>
    BY <1>13, <2>2 DEF BumpFails
  <2>3. QED
    BY <1>13, <2>1, <2>2 DEF BumpFails
<1>14. CASE ReclaimPage
  BY <1>14 DEF ReclaimPage
<1>15. CASE ReclaimDone
  BY <1>15 DEF ReclaimDone
<1>16. CASE ReclaimFails
  BY <1>16 DEF ReclaimFails, Fault
<1>17. CASE Expire
  BY <1>17 DEF Expire
<1>18. CASE Restart
  BY <1>18 DEF Restart
<1>19. CASE UNCHANGED vars
  BY <1>19 DEF vars, schedVars, requestVars
<1>20. QED
  BY <1>1, <1>2, <1>3, <1>4, <1>5, <1>6, <1>7, <1>8, <1>9, <1>10, <1>11, <1>12, <1>13, <1>14, <1>15, <1>16, <1>17, <1>18, <1>19 DEF Next, Request, Invalidate

-----------------------------------------------------------------------------

(* What a hit returns is as fresh as was promised, and committed.             *)
LEMMA HitIsFresh ==
    ASSUME CacheInv, CapturedInTime, NEW r \in Requests, step[r] = "get",
           NEW e \in entries, Name(e) = <<mygen[r], key[r]>>
    PROVE  e.version \in Versions /\ due[r] <= e.version /\ e.version <= tables[key[r]]
<1>1. e.gen = mygen[r] /\ e.key = key[r] /\ e.version \in Versions
  BY DEF Name, CacheInv, TypeOK, Entries
<1>2. due[r] <= floorAt[e.gen][e.key]
  BY <1>1 DEF CapturedInTime
<1>3. floorAt[e.gen][e.key] <= e.version /\ e.version <= tables[key[r]]
  BY <1>1 DEF CacheInv, EntriesAreFresh, EntriesAreCommitted
<1>4. due[r] \in Nat /\ floorAt[e.gen][e.key] \in Nat /\ e.version \in Nat
  BY CacheAssumption DEF CacheInv, TypeOK, Entries, Versions, CacheAssumption
<1>5. QED
  BY <1>1, <1>2, <1>3, <1>4

(* The three ways a step is visible to FreshReads: a request begins ...       *)
LEMMA BeginIsAsk ==
    ASSUME CacheInv, NEW r \in Requests, NEW k \in Keys, NEW g, NEW d, Begin(r, k, g, d)
    PROVE  Fresh!Asks(r, k, d)
<1>1. step'[r] \in InProgress /\ step[r] \notin InProgress
  BY DEF Begin, InProgress, CacheInv, TypeOK
<1>2. state' = [state EXCEPT ![r] = "asked"]
  BY <1>1 DEF state, Begin, CacheInv, TypeOK
<1>3. state[r] # "asked"
  BY <1>1 DEF state, CacheInv, TypeOK, InProgress
<1>4. QED
  BY <1>2, <1>3 DEF Begin, Fresh!Asks

(* ... whether it learns the generation or not ...                            *)
LEMMA BeginIsNext ==
    ASSUME CacheInv, NEW r \in Requests, NEW k \in Keys,
           ReadGeneration(r, k) \/ ReadGenerationFails(r, k) \/ BeginUncached(r, k)
    PROVE  Fresh!Next
<1>1. CASE ReadGeneration(r, k) \/ BeginUncached(r, k)
  <2>1. Fresh!Asks(r, k, floorAt[gen][k])
    BY <1>1, BeginIsAsk DEF ReadGeneration, BeginUncached
  <2>2. Fresh!Ask(r, k)
    BY <2>1 DEF Fresh!Ask
  <2>3. QED
    BY <2>2 DEF Fresh!Next
<1>2. CASE ReadGenerationFails(r, k)
  <2>1. Fresh!AskBlindly(r, k)
    BY <1>2, BeginIsAsk DEF ReadGenerationFails, Fresh!AskBlindly
  <2>2. QED
    BY <2>1 DEF Fresh!Next
<1>3. QED
  BY <1>1, <1>2

(* ... it is answered with rows it may be answered with ...                   *)
LEMMA RespondIsAnswer ==
    ASSUME CacheInv, NEW r \in Requests, NEW v \in Versions, Respond(r, v),
           step[r] \in InProgress, due[r] <= v, v <= tables[key[r]],
           UNCHANGED <<tables, gen, floorAt, key, due>>
    PROVE  Fresh!Answer(r)
<1>1. state[r] = "asked"
  BY DEF state
<1>2. state' = [state EXCEPT ![r] = "answered"]
  BY DEF state, Respond, CacheInv, TypeOK, InProgress
<1>3. v \in due[r] .. tables[key[r]]
  BY CacheAssumption DEF CacheInv, TypeOK, Versions, CacheAssumption
<1>4. QED
  BY <1>1, <1>2, <1>3 DEF Respond, Fresh!Answer

(* ... and a generation begins.                                              *)
LEMMA IncrementIsEndCycle ==
    ASSUME CacheInv, gen < MaxGen, Increment, UNCHANGED <<tables, requestVars>>
    PROVE  Fresh!EndCycle
<1>1. gen + 1 \in Gens
  BY CacheAssumption DEF CacheInv, TypeOK, Gens, CacheAssumption
<1>2. floorAt'[gen'] = tables
  BY <1>1 DEF Increment, CacheInv, TypeOK
<1>3. QED
  BY <1>2 DEF Fresh!EndCycle, state, requestVars

(* An answer with rows no older than due keeps every answer fresh.            *)
LEMMA RespondIsFresh ==
    ASSUME CacheInv, CapturedInTime, AnswersAreFresh, NEW r \in Requests, NEW v, Respond(r, v),
           due[r] <= v, UNCHANGED <<gen, floorAt, key, due>>
    PROVE  CapturedInTime' /\ AnswersAreFresh'
<1>1. /\ step'[r] = "answered" /\ served'[r] = v
      /\ \A q \in Requests \ {r} : /\ step'[q] = step[q] /\ served'[q] = served[q]
                                 /\ mygen'[q] = mygen[q]
  BY DEF Respond, CacheInv, TypeOK
<1>2. CapturedInTime'
  BY <1>1 DEF CapturedInTime
<1>3. AnswersAreFresh'
  BY <1>1 DEF AnswersAreFresh
<1>4. QED
  BY <1>2, <1>3

(* A request that begins keeps every answer fresh.                            *)
LEMMA BeginIsFresh ==
    ASSUME CacheInv, CapturedInTime, AnswersAreFresh, NEW r \in Requests, NEW k \in Keys,
           ReadGeneration(r, k) \/ ReadGenerationFails(r, k) \/ BeginUncached(r, k)
    PROVE  CapturedInTime' /\ AnswersAreFresh'
<1>1. PICK g \in Gens, d \in Versions : Begin(r, k, g, d) /\ (caching => d <= floorAt[g][k])
  BY BeginsKnown
<1>2. /\ key'[r] = k /\ mygen'[r] = g /\ due'[r] = d /\ floorAt' = floorAt
      /\ step'[r] # "answered" /\ (step'[r] = "get" => caching)
      /\ \A q \in Requests \ {r} : /\ key'[q] = key[q] /\ mygen'[q] = mygen[q]
                                 /\ due'[q] = due[q] /\ step'[q] = step[q]
      /\ served' = served
  BY <1>1 DEF Begin, CacheInv, TypeOK
<1>3. CapturedInTime'
  BY <1>1, <1>2 DEF CapturedInTime
<1>4. AnswersAreFresh'
  BY <1>2 DEF AnswersAreFresh
<1>5. QED
  BY <1>3, <1>4

(* Captured generations and answers stay fresh.                               *)
LEMMA FreshStep ==
    ASSUME CacheInv, TypeOK', CapturedInTime, AnswersAreFresh, [Next]_vars
    PROVE  CapturedInTime' /\ AnswersAreFresh'
<1> USE CacheAssumption
    DEF CacheInv, TypeOK, Versions, Gens, Entries, InProgress, Name, schedVars, requestVars,
        FloorsAreCommitted, EntriesAreFresh, CapturedGeneration, CapturedInTime, AnswersAreFresh
<1>1. ASSUME NEW r \in Requests, NEW k \in Keys, ReadGeneration(r, k) PROVE CapturedInTime' /\ AnswersAreFresh'
  BY <1>1, BeginIsFresh
<1>2. ASSUME NEW r \in Requests, NEW k \in Keys, ReadGenerationFails(r, k) PROVE CapturedInTime' /\ AnswersAreFresh'
  BY <1>2, BeginIsFresh
<1>3. ASSUME NEW r \in Requests, NEW k \in Keys, BeginUncached(r, k) PROVE CapturedInTime' /\ AnswersAreFresh'
  BY <1>3, BeginIsFresh
<1>4. ASSUME NEW r \in Requests, GetHit(r) PROVE CapturedInTime' /\ AnswersAreFresh'
  <2>1. PICK e \in entries : Name(e) = <<mygen[r], key[r]>> /\ Respond(r, e.version)
    BY <1>4 DEF GetHit
  <2>2. due[r] <= e.version
    BY <1>4, <2>1, HitIsFresh DEF GetHit
  <2>3. UNCHANGED <<gen, floorAt, key, due>>
    BY <1>4 DEF GetHit
  <2>4. QED
    BY <2>1, <2>2, <2>3, RespondIsFresh
<1>5. ASSUME NEW r \in Requests, GetMiss(r) PROVE CapturedInTime' /\ AnswersAreFresh'
  BY <1>5 DEF GetMiss
<1>6. ASSUME NEW r \in Requests, GetFails(r) PROVE CapturedInTime' /\ AnswersAreFresh'
  BY <1>6 DEF GetFails, Fault
<1>7. ASSUME NEW r \in Requests, Select(r) PROVE CapturedInTime' /\ AnswersAreFresh'
  <2>1. /\ step[r] = "select" /\ UNCHANGED <<gen, floorAt, key, due>>
        /\ due[r] <= tables[key[r]]
    BY <1>7 DEF Select
  <2>2. CASE caching
    <3>1. step' = [step EXCEPT ![r] = "set"] /\ UNCHANGED <<mygen, served>>
      BY <1>7, <2>2 DEF Select
    <3>2. CapturedInTime'
      BY <2>1, <3>1
    <3>3. AnswersAreFresh'
      BY <2>1, <3>1
    <3>4. QED
      BY <3>2, <3>3
  <2>3. CASE ~caching
    <3>1. Respond(r, tables[key[r]])
      BY <1>7, <2>3 DEF Select
    <3>2. QED
      BY <2>1, <3>1, RespondIsFresh
  <2>4. QED
    BY <2>2, <2>3
<1>8. ASSUME NEW r \in Requests, SetEntry(r) PROVE CapturedInTime' /\ AnswersAreFresh'
  <2>1. step[r] = "set" /\ Respond(r, row[r]) /\ UNCHANGED <<gen, floorAt, key, due>>
    BY <1>8 DEF SetEntry
  <2>2. due[r] <= row[r]
    BY <2>1
  <2>3. QED
    BY <2>1, <2>2, RespondIsFresh
<1>9. ASSUME NEW r \in Requests, SetSkipped(r) PROVE CapturedInTime' /\ AnswersAreFresh'
  <2>1. step[r] = "set" /\ Respond(r, row[r]) /\ UNCHANGED <<gen, floorAt, key, due>>
    BY <1>9 DEF SetSkipped
  <2>2. due[r] <= row[r]
    BY <2>1
  <2>3. QED
    BY <2>1, <2>2, RespondIsFresh
<1>10. ASSUME NEW k \in Keys, Commit(k) PROVE CapturedInTime' /\ AnswersAreFresh'
  BY <1>10 DEF Commit
<1>11. CASE EndComputing
  BY <1>11 DEF EndComputing
<1>12. CASE Bump
  BY <1>12 DEF Bump, Increment
<1>13. CASE BumpFails
  <2>1. CASE Increment
    BY <1>13, <2>1 DEF BumpFails, Increment
  <2>2. CASE UNCHANGED <<gen, floorAt>>
    BY <1>13, <2>2 DEF BumpFails
  <2>3. QED
    BY <1>13, <2>1, <2>2 DEF BumpFails
<1>14. CASE ReclaimPage
  BY <1>14 DEF ReclaimPage
<1>15. CASE ReclaimDone
  BY <1>15 DEF ReclaimDone
<1>16. CASE ReclaimFails
  BY <1>16 DEF ReclaimFails, Fault
<1>17. CASE Expire
  BY <1>17 DEF Expire
<1>18. CASE Restart
  BY <1>18 DEF Restart
<1>19. CASE UNCHANGED vars
  BY <1>19 DEF vars, schedVars, requestVars
<1>20. QED
  BY <1>1, <1>2, <1>3, <1>4, <1>5, <1>6, <1>7, <1>8, <1>9, <1>10, <1>11, <1>12, <1>13, <1>14, <1>15, <1>16, <1>17, <1>18, <1>19 DEF Next, Request, Invalidate

(* Every step is a step of FreshReads, or changes nothing FreshReads sees.    *)
LEMMA RefinementStep ==
    ASSUME CacheInv, CacheInv', CapturedInTime, [Next]_vars
    PROVE  [Fresh!Next]_(Fresh!readVars)
<1> USE CacheAssumption
    DEF CacheInv, TypeOK, Versions, Gens, Entries, InProgress, Name, schedVars, requestVars,
        FloorsAreCommitted, EntriesAreFresh, EntriesAreCommitted, CapturedGeneration, CapturedInTime,
        state, Fresh!readVars
<1>1. ASSUME NEW r \in Requests, NEW k \in Keys, ReadGeneration(r, k) PROVE [Fresh!Next]_(Fresh!readVars)
  BY <1>1, BeginIsNext
<1>2. ASSUME NEW r \in Requests, NEW k \in Keys, ReadGenerationFails(r, k) PROVE [Fresh!Next]_(Fresh!readVars)
  BY <1>2, BeginIsNext
<1>3. ASSUME NEW r \in Requests, NEW k \in Keys, BeginUncached(r, k) PROVE [Fresh!Next]_(Fresh!readVars)
  BY <1>3, BeginIsNext
<1>4. ASSUME NEW r \in Requests, GetHit(r) PROVE [Fresh!Next]_(Fresh!readVars)
  <2>1. PICK e \in entries : Name(e) = <<mygen[r], key[r]>> /\ Respond(r, e.version)
    BY <1>4 DEF GetHit
  <2>2. e.version \in Versions /\ due[r] <= e.version /\ e.version <= tables[key[r]]
    BY <1>4, <2>1, HitIsFresh DEF GetHit
  <2>3. Fresh!Answer(r)
    BY <1>4, <2>1, <2>2, RespondIsAnswer DEF GetHit
  <2>4. QED
    BY <2>3 DEF Fresh!Next
<1>5. ASSUME NEW r \in Requests, GetMiss(r) PROVE [Fresh!Next]_(Fresh!readVars)
  BY <1>5 DEF GetMiss
<1>6. ASSUME NEW r \in Requests, GetFails(r) PROVE [Fresh!Next]_(Fresh!readVars)
  BY <1>6 DEF GetFails, Fault
<1>7. ASSUME NEW r \in Requests, Select(r) PROVE [Fresh!Next]_(Fresh!readVars)
  <2>1. CASE caching
    <3>1. state' = state
      BY <1>7, <2>1 DEF Select
    <3>2. QED
      BY <1>7, <2>1, <3>1 DEF Select
  <2>2. CASE ~caching
    <3>1. tables[key[r]] \in Versions /\ due[r] <= tables[key[r]]
      BY <1>7 DEF Select
    <3>2. step[r] \in InProgress /\ Respond(r, tables[key[r]]) /\ UNCHANGED <<tables, gen, floorAt, key, due>>
      BY <1>7, <2>2 DEF Select
    <3>3. tables[key[r]] <= tables[key[r]]
      BY <3>1
    <3>4. Fresh!Answer(r)
      BY <3>1, <3>2, <3>3, RespondIsAnswer
    <3>5. QED
      BY <3>4 DEF Fresh!Next
  <2>3. QED
    BY <2>1, <2>2
<1>8. ASSUME NEW r \in Requests, SetEntry(r) PROVE [Fresh!Next]_(Fresh!readVars)
  <2>1. row[r] \in Versions /\ due[r] <= row[r] /\ row[r] <= tables[key[r]]
    BY <1>8 DEF SetEntry
  <2>2. Fresh!Answer(r)
    BY <1>8, <2>1, RespondIsAnswer DEF SetEntry
  <2>3. QED
    BY <2>2 DEF Fresh!Next
<1>9. ASSUME NEW r \in Requests, SetSkipped(r) PROVE [Fresh!Next]_(Fresh!readVars)
  <2>1. row[r] \in Versions /\ due[r] <= row[r] /\ row[r] <= tables[key[r]]
    BY <1>9 DEF SetSkipped
  <2>2. Fresh!Answer(r)
    BY <1>9, <2>1, RespondIsAnswer DEF SetSkipped
  <2>3. QED
    BY <2>2 DEF Fresh!Next
<1>10. ASSUME NEW k \in Keys, Commit(k) PROVE [Fresh!Next]_(Fresh!readVars)
  <2>1. Fresh!Commit(k)
    BY <1>10 DEF Commit, Fresh!Commit
  <2>2. QED
    BY <2>1 DEF Fresh!Next
<1>11. CASE EndComputing
  BY <1>11 DEF EndComputing
<1>12. CASE Bump
  <2>1. Fresh!EndCycle
    BY <1>12, IncrementIsEndCycle DEF Bump
  <2>2. QED
    BY <2>1 DEF Fresh!Next
<1>13. CASE BumpFails
  <2>1. CASE Increment
    <3>1. Fresh!EndCycle
      BY <1>13, <2>1, IncrementIsEndCycle DEF BumpFails
    <3>2. QED
      BY <3>1 DEF Fresh!Next
  <2>2. CASE UNCHANGED <<gen, floorAt>>
    BY <1>13, <2>2 DEF BumpFails
  <2>3. QED
    BY <1>13, <2>1, <2>2 DEF BumpFails
<1>14. CASE ReclaimPage
  BY <1>14 DEF ReclaimPage
<1>15. CASE ReclaimDone
  BY <1>15 DEF ReclaimDone
<1>16. CASE ReclaimFails
  BY <1>16 DEF ReclaimFails, Fault
<1>17. CASE Expire
  BY <1>17 DEF Expire
<1>18. CASE Restart
  <2>1. state' = [r \in Requests |-> "idle"]
    BY <1>18 DEF Restart
  <2>2. Fresh!Abandon
    BY <1>18, <2>1 DEF Restart, Fresh!Abandon
  <2>3. QED
    BY <2>2 DEF Fresh!Next
<1>19. CASE UNCHANGED vars
  BY <1>19 DEF vars, schedVars, requestVars
<1>20. QED
  BY <1>1, <1>2, <1>3, <1>4, <1>5, <1>6, <1>7, <1>8, <1>9, <1>10, <1>11, <1>12, <1>13, <1>14, <1>15, <1>16, <1>17, <1>18, <1>19 DEF Next, Request, Invalidate

-----------------------------------------------------------------------------

(* The invariant holds in every reachable state. *)
LEMMA CacheInvHolds == Spec => []CacheInv
<1>1. Init => CacheInv
  BY CacheAssumption
     DEF Init, CacheInv, TypeOK, CacheAssumption, Versions, Gens, Entries, InProgress,
         FloorsAreCommitted, EntriesAreCommitted, EntriesAreFresh, CapturedGeneration
<1>2. CacheInv /\ [Next]_vars => CacheInv'
  <2> SUFFICES ASSUME CacheInv, [Next]_vars PROVE CacheInv'
    OBVIOUS
  <2>1. TypeOK'
    BY TypeStep DEF CacheInv, FloorsAreCommitted
  <2>2. QED
    BY <2>1, InvStep DEF CacheInv
<1>3. QED
  BY <1>1, <1>2, PTL DEF Spec

(* The type invariant.                                                        *)
THEOREM TypeCorrect == Spec => []TypeOK
<1>1. CacheInv => TypeOK
  BY DEF CacheInv
<1>2. QED
  BY <1>1, CacheInvHolds, PTL

(* No entry is ever older than the rows committed when its generation began,  *)
(* even when requests cannot read the generation counter.                     *)
THEOREM EntriesFresh == Spec => []EntriesAreFresh
<1>1. CacheInv => EntriesAreFresh
  BY DEF CacheInv
<1>2. QED
  BY <1>1, CacheInvHolds, PTL

(* No request is answered with rows older than the last bump before it began, *)
(* unless it could not read the generation counter.                           *)
THEOREM AnswersFresh == Spec => []AnswersAreFresh
<1>1. Init => CapturedInTime /\ AnswersAreFresh
  BY DEF Init, CapturedInTime, AnswersAreFresh
<1>2. CacheInv /\ CacheInv' /\ CapturedInTime /\ AnswersAreFresh /\ [Next]_vars
        => CapturedInTime' /\ AnswersAreFresh'
  BY FreshStep DEF CacheInv
<1>3. QED
  BY <1>1, <1>2, CacheInvHolds, PTL DEF Spec

(* The cached endpoints implement FreshReads: the cache is invisible but for  *)
(* the promised staleness.                                                    *)
THEOREM Refinement == Spec => ImplementsFreshReads
<1>1. Init => Fresh!Init /\ CapturedInTime /\ AnswersAreFresh
  BY CacheAssumption
     DEF Init, Fresh!Init, CapturedInTime, AnswersAreFresh, state, InProgress, Gens, CacheAssumption
<1>2. CacheInv /\ CacheInv' /\ CapturedInTime /\ AnswersAreFresh /\ [Next]_vars
        => CapturedInTime' /\ AnswersAreFresh'
  BY FreshStep DEF CacheInv
<1>3. CacheInv /\ CacheInv' /\ CapturedInTime /\ [Next]_vars => [Fresh!Next]_(Fresh!readVars)
  BY RefinementStep
<1>4. QED
  BY <1>1, <1>2, <1>3, CacheInvHolds, PTL DEF Spec, ImplementsFreshReads, Fresh!Spec
=============================================================================
