-------------------------- MODULE BrowseCacheProofs --------------------------
(***************************************************************************)
(* Theorems about BrowseCache, for any number of request threads, writers  *)
(* and sources, any time-to-live and any longest enumeration.              *)
(***************************************************************************)
EXTENDS BrowseCache, TLAPS

USE SourcesAssumption, TimesAssumption, DistinctAssumption

(***************************************************************************)
(* Records: what an enumeration may become, and what is made of it.        *)
(***************************************************************************)
LEMMA StartedIsBuild ==
    ASSUME NEW time \in 0..MaxTime
    PROVE  StartedAt(time) \in Builds
BY DEF StartedAt, Builds

LEMMA ResultIsResult ==
    ASSUME NEW b \in Builds
    PROVE  /\ ResultOf(b) \in Results
           /\ ResultOf(b).began = b.began
           /\ ResultOf(b).failed = b.failed
           /\ ResultOf(b).tags = b.tags
           /\ ResultOf(b).status = "good" => ~b.threw /\ b.tags # {}
BY DEF ResultOf, Results, Builds, Status

LEMMA InvInit == Init => Inv
<1> SUFFICES ASSUME Init PROVE Inv
  OBVIOUS
<1>1. StartedAt(0) \in Builds
  BY StartedIsBuild
<1>2. TypeOK
  BY <1>1 DEF Init, TypeOK, Points
<1>3. LockInv
  BY DEF Init, LockInv
<1>4. AgeInv
  BY DEF Init, AgeInv, AgeIsBounded
<1>5. AdxInv
  BY DEF Init, AdxInv, FailuresAreNotCached, StartedAt
<1> QED
  BY <1>2, <1>3, <1>4, <1>5 DEF Inv

(***************************************************************************)
(* The lookup and the store.                                               *)
(***************************************************************************)
LEMMA InvHit ==
    ASSUME Inv, NEW t \in Callers, CacheHit(t)
    PROVE  Inv'
<1> DEFINE r == [result |-> cache.result, at |-> now, hit |-> TRUE]
<1>1. /\ pc[t] = "idle" /\ pc' = pc
      /\ reply' = [reply EXCEPT ![t] = r]
      /\ UNCHANGED <<source, configured, now, reporting, cache, client, lock, created, build>>
  BY DEF CacheHit, Goto, Inv, TypeOK, storeVars, clientVars
<1>2. /\ cache \in Entries /\ cache # NoEntry
      /\ now - cache.cachedUtc < Ttl
  BY DEF CacheHit, CanHit, Fresh, Inv, TypeOK
<1>3. r \in Replies
  BY <1>2 DEF Entries, Replies, Inv, TypeOK
<1>4. r.hit /\ r.at - r.result.began < Ttl + LongestBuild /\ r.result = cache.result
  BY <1>2 DEF Inv, TypeOK, AgeInv, Entries, Results
<1> HIDE DEF r
<1>5. TypeOK'
  BY <1>1, <1>3 DEF Inv, TypeOK
<1>6. LockInv'
  BY <1>1 DEF Inv, LockInv
<1>7. AgeInv'
  BY <1>1, <1>4 DEF Inv, TypeOK, AgeInv, AgeIsBounded
<1>8. AdxInv'
  BY <1>1, <1>2, <1>4 DEF Inv, TypeOK, AdxInv, FailuresAreNotCached
<1> QED
  BY <1>5, <1>6, <1>7, <1>8 DEF Inv

LEMMA InvMiss ==
    ASSUME Inv, NEW t \in Callers, CacheMiss(t)
    PROVE  Inv'
<1>1. /\ pc[t] = "idle" /\ pc' = [pc EXCEPT ![t] = "getClient"]
      /\ build' = [build EXCEPT ![t] = StartedAt(now)]
      /\ reply' = [reply EXCEPT ![t] = NoReply]
      /\ UNCHANGED <<source, configured, now, reporting, cache, client, lock, created>>
  BY DEF CacheMiss, Goto, storeVars, clientVars
<1>2. StartedAt(now) \in Builds /\ StartedAt(now).began = now /\ ~StartedAt(now).failed
  BY StartedIsBuild DEF Inv, TypeOK, StartedAt
<1>3. TypeOK'
  BY <1>1, <1>2 DEF Inv, TypeOK, Points
<1>4. LockInv'
  BY <1>1 DEF Inv, TypeOK, LockInv
<1>5. AgeInv'
  BY <1>1, <1>2 DEF Inv, TypeOK, AgeInv, AgeIsBounded
<1>6. AdxInv'
  BY <1>1, <1>2 DEF Inv, TypeOK, AdxInv, FailuresAreNotCached
<1> QED
  BY <1>3, <1>4, <1>5, <1>6 DEF Inv

LEMMA InvStore ==
    ASSUME Inv, NEW t \in Callers, Store(t)
    PROVE  Inv'
<1> DEFINE result == ResultOf(build[t])
           entry == [result |-> result, cachedUtc |-> now]
           r == [result |-> result, at |-> now, hit |-> FALSE]
<1>1. /\ pc[t] = "store" /\ pc' = [pc EXCEPT ![t] = "idle"]
      /\ build' = [build EXCEPT ![t] = StartedAt(0)]
      /\ reply' = [reply EXCEPT ![t] = r]
      /\ UNCHANGED <<source, configured, now, reporting, client, lock, created>>
  BY DEF Store, Goto, storeVars, clientVars
<1>2. build[t] \in Builds /\ now \in 0..MaxTime
  BY DEF Inv, TypeOK
<1>3. /\ result \in Results
      /\ result.began = build[t].began /\ result.failed = build[t].failed
      /\ result.status = "good" => ~build[t].threw /\ result.tags # {}
  BY <1>2, ResultIsResult
<1>4. cache' = cache \/ (cache' = entry /\ result.status = "good")
  BY DEF Store, Cacheable
<1>5. StartedAt(0) \in Builds /\ ~StartedAt(0).failed
  BY StartedIsBuild DEF StartedAt
<1>6. now - result.began <= LongestBuild
  BY <1>1, <1>3 DEF Inv, AgeInv
<1>7. source = "ADX" /\ result.status = "good" => ~result.failed
  BY <1>3 DEF Inv, AdxInv, FailuresAreNotCached
<1> HIDE DEF result
<1>8. entry \in Entries /\ entry.cachedUtc = now /\ entry.result = result
  BY <1>2, <1>3 DEF Entries
<1>9. r \in Replies /\ ~r.hit /\ r.at = now /\ r.result = result
  BY <1>2, <1>3 DEF Replies
<1> HIDE DEF entry, r
<1>10. TypeOK'
  <2>1. cache' \in Entries \cup {NoEntry}
    BY <1>4, <1>8 DEF Inv, TypeOK
  <2>2. cache' # NoEntry => cache'.cachedUtc <= now' /\ cache'.result.tags # {}
    BY <1>1, <1>2, <1>3, <1>4, <1>8 DEF Inv, TypeOK
  <2>3. build' \in [Callers -> Builds] /\ reply' \in [Callers -> Replies \cup {NoReply}]
    BY <1>1, <1>5, <1>9 DEF Inv, TypeOK
  <2>4. pc' \in [Callers -> Points]
    BY <1>1 DEF Inv, TypeOK, Points
  <2> QED
    BY <1>1, <2>1, <2>2, <2>3, <2>4 DEF Inv, TypeOK
<1>11. LockInv'
  BY <1>1 DEF Inv, TypeOK, LockInv
<1>12. AgeInv'
  BY <1>1, <1>4, <1>6, <1>8, <1>9 DEF Inv, TypeOK, AgeInv, AgeIsBounded
<1>13. AdxInv'
  BY <1>1, <1>4, <1>5, <1>7, <1>8, <1>9 DEF Inv, TypeOK, AdxInv, FailuresAreNotCached
<1> QED
  BY <1>10, <1>11, <1>12, <1>13 DEF Inv

(***************************************************************************)
(* The steps of an enumeration between the lookup and the store change no  *)
(* entry and no reply; what they make of the thread's own enumeration is   *)
(* all that matters for the ages and failures.                             *)
(***************************************************************************)
LEMMA EnumerationStep ==
    ASSUME Inv, NEW t \in Callers, NEW p \in Points \ {"idle"}, NEW b \in Builds,
           pc[t] # "idle", pc' = [pc EXCEPT ![t] = p], build' = [build EXCEPT ![t] = b],
           UNCHANGED <<storeVars, cache, reply>>,
           b.began = build[t].began,
           source = "ADX" => p \notin {"metadata", "writers", "fields"} /\ (b.failed => b.threw),
           client' \in {"null", "live"}, lock' \in Callers \cup {Free}, created' \in 0..2,
           LockInv'
    PROVE  Inv'
<1>1. TypeOK'
  BY DEF Inv, TypeOK, storeVars
<1>2. AgeInv'
  BY DEF Inv, TypeOK, AgeInv, AgeIsBounded, storeVars
<1>3. AdxInv'
  BY DEF Inv, TypeOK, AdxInv, FailuresAreNotCached, storeVars
<1> QED
  BY <1>1, <1>2, <1>3 DEF Inv

\* An exception is noted as a failure.
LEMMA ThrownBuild ==
    ASSUME NEW b \in Builds
    PROVE  LET c == [b EXCEPT !.failed = TRUE, !.threw = TRUE]
           IN c \in Builds /\ c.began = b.began /\ (c.failed => c.threw)
BY DEF Builds

\* A step outside the lock keeps the lock's invariant.
LEMMA LockUntouched ==
    ASSUME Inv, NEW t \in Callers, NEW p \in Points \ {"create"},
           pc[t] # "create", pc' = [pc EXCEPT ![t] = p],
           UNCHANGED clientVars
    PROVE  LockInv'
BY DEF Inv, TypeOK, LockInv, clientVars

\* Giving the lock back, with or without a client.
LEMMA LockReleased ==
    ASSUME Inv, NEW t \in Callers, NEW p \in Points \ {"create"},
           pc[t] = "create", pc' = [pc EXCEPT ![t] = p], lock' = Free,
           \/ client' = client /\ created' = created
           \/ client' = "live" /\ created' = IF created < 2 THEN created + 1 ELSE created
    PROVE  /\ LockInv'
           /\ client' \in {"null", "live"} /\ lock' \in Callers \cup {Free} /\ created' \in 0..2
<1>1. lock = t /\ client = "null" /\ created = 0
  BY DEF Inv, LockInv
<1>2. \A u \in Callers : u # t => pc'[u] # "create"
  BY <1>1 DEF Inv, TypeOK, LockInv
<1>3. pc'[t] # "create"
  BY DEF Inv, TypeOK
<1> QED
  BY <1>1, <1>2, <1>3 DEF Inv, TypeOK, LockInv

LEMMA AfterClientPoint ==
    /\ AfterClient \in Points \ {"idle", "create"}
    /\ source = "ADX" => AfterClient \notin {"metadata", "writers", "fields"}
BY DEF AfterClient, Points

(***************************************************************************)
(* GetClient and GetQueryProvider.                                         *)
(***************************************************************************)
LEMMA InvExists ==
    ASSUME Inv, NEW t \in Callers, ClientExists(t)
    PROVE  Inv'
<1>1. /\ pc[t] = "getClient" /\ pc' = [pc EXCEPT ![t] = AfterClient]
      /\ build' = [build EXCEPT ![t] = build[t]]
      /\ UNCHANGED <<storeVars, cache, clientVars, reply>>
  BY DEF ClientExists, Goto, Inv, TypeOK
<1>2. LockInv'
  BY <1>1, AfterClientPoint, LockUntouched
<1>3. /\ build[t] \in Builds
      /\ client' \in {"null", "live"} /\ lock' \in Callers \cup {Free} /\ created' \in 0..2
  BY <1>1 DEF Inv, TypeOK, clientVars
<1>4. source = "ADX" => (build[t].failed => build[t].threw)
  BY DEF Inv, AdxInv
<1> QED
  BY <1>1, <1>2, <1>3, <1>4, AfterClientPoint, EnumerationStep

LEMMA InvAcquire ==
    ASSUME Inv, NEW t \in Callers, AcquireClient(t)
    PROVE  Inv'
<1>1. /\ pc[t] = "getClient" /\ pc' = [pc EXCEPT ![t] = "create"]
      /\ build' = [build EXCEPT ![t] = build[t]]
      /\ lock = Free /\ lock' = t /\ client = "null"
      /\ UNCHANGED <<storeVars, cache, client, created, reply>>
  BY DEF AcquireClient, Goto, LockFree, Inv, TypeOK
<1>2. LockInv'
  BY <1>1 DEF Inv, TypeOK, LockInv
<1>3. /\ build[t] \in Builds
      /\ client' \in {"null", "live"} /\ lock' \in Callers \cup {Free} /\ created' \in 0..2
  BY <1>1 DEF Inv, TypeOK
<1>4. source = "ADX" => (build[t].failed => build[t].threw)
  BY DEF Inv, AdxInv
<1>5. "create" \in Points \ {"idle"}
  BY DEF Points
<1> QED
  BY <1>1, <1>2, <1>3, <1>4, <1>5, EnumerationStep

LEMMA InvCreate ==
    ASSUME Inv, NEW t \in Callers, ClientCreated(t) \/ ClientMissing(t) \/ ClientThrows(t)
    PROVE  Inv'
<1> DEFINE thrown == [build[t] EXCEPT !.failed = TRUE, !.threw = TRUE]
<1>1. PICK p \in Points \ {"idle", "create"} :
        /\ pc[t] = "create" /\ pc' = [pc EXCEPT ![t] = p]
        /\ source = "ADX" => p \notin {"metadata", "writers", "fields"}
  BY AfterClientPoint DEF ClientCreated, ClientMissing, ClientThrows, Goto, Points
<1>2. /\ lock' = Free
      /\ \/ client' = client /\ created' = created
         \/ client' = "live" /\ created' = IF created < 2 THEN created + 1 ELSE created
      /\ UNCHANGED <<storeVars, cache, reply>>
  BY DEF ClientCreated, ClientMissing, ClientThrows
<1>3. /\ LockInv'
      /\ client' \in {"null", "live"} /\ lock' \in Callers \cup {Free} /\ created' \in 0..2
  BY <1>1, <1>2, LockReleased
<1>4. build[t] \in Builds /\ (source = "ADX" => (build[t].failed => build[t].threw))
  BY DEF Inv, TypeOK, AdxInv
<1>5. CASE build' = build
  <2>1. build' = [build EXCEPT ![t] = build[t]]
    BY <1>5 DEF Inv, TypeOK
  <2> QED
    BY <1>1, <1>2, <1>3, <1>4, <2>1, EnumerationStep
<1>6. CASE build' = [build EXCEPT ![t].failed = TRUE, ![t].threw = TRUE]
  <2>1. build' = [build EXCEPT ![t] = thrown]
    BY <1>6 DEF Inv, TypeOK
  <2>2. thrown \in Builds /\ thrown.began = build[t].began /\ (thrown.failed => thrown.threw)
    BY <1>4, ThrownBuild
  <2> HIDE DEF thrown
  <2> QED
    BY <1>1, <1>2, <1>3, <2>1, <2>2, EnumerationStep
<1> QED
  BY <1>5, <1>6 DEF ClientCreated, ClientMissing, ClientThrows

(***************************************************************************)
(* The queries, outside any lock.                                          *)
(***************************************************************************)
LEMMA QueryStep ==
    ASSUME Inv, NEW t \in Callers, NEW p \in Points \ {"idle", "create"}, NEW b \in Builds,
           pc[t] \notin {"idle", "create"}, pc' = [pc EXCEPT ![t] = p],
           build' = [build EXCEPT ![t] = b],
           UNCHANGED <<storeVars, cache, clientVars, reply>>,
           b.began = build[t].began,
           source = "ADX" => p \notin {"metadata", "writers", "fields"} /\ (b.failed => b.threw)
    PROVE  Inv'
<1>1. LockInv'
  BY LockUntouched
<1>2. client' \in {"null", "live"} /\ lock' \in Callers \cup {Free} /\ created' \in 0..2
  BY DEF Inv, TypeOK, clientVars
<1> QED
  BY <1>1, <1>2, EnumerationStep

LEMMA InvAdx ==
    ASSUME Inv, NEW t \in Callers, AdxQuery(t) \/ AdxQueryThrows(t)
    PROVE  Inv'
<1> DEFINE listed == [build[t] EXCEPT !.tags = reporting]
           thrown == [build[t] EXCEPT !.failed = TRUE, !.threw = TRUE]
<1>1. /\ pc[t] = "adxQuery" /\ pc' = [pc EXCEPT ![t] = "store"]
      /\ UNCHANGED <<storeVars, cache, clientVars, reply>>
  BY DEF AdxQuery, AdxQueryThrows, Goto
<1>2. build[t] \in Builds /\ (source = "ADX" => (build[t].failed => build[t].threw))
  BY DEF Inv, TypeOK, AdxInv
<1>3. "store" \in Points \ {"idle", "create"}
  BY DEF Points
<1>4. CASE AdxQuery(t)
  <2>1. build' = [build EXCEPT ![t] = listed]
    BY <1>4 DEF AdxQuery, Inv, TypeOK
  <2>2. /\ listed \in Builds /\ listed.began = build[t].began
        /\ listed.failed = build[t].failed /\ listed.threw = build[t].threw
    BY <1>2 DEF Builds, Tags, Inv, TypeOK
  <2> HIDE DEF listed
  <2> QED
    BY <1>1, <1>2, <1>3, <2>1, <2>2, QueryStep
<1>5. CASE AdxQueryThrows(t)
  <2>1. build' = [build EXCEPT ![t] = thrown]
    BY <1>5 DEF AdxQueryThrows, Inv, TypeOK
  <2>2. thrown \in Builds /\ thrown.began = build[t].began /\ (thrown.failed => thrown.threw)
    BY <1>2, ThrownBuild
  <2> HIDE DEF thrown
  <2> QED
    BY <1>1, <1>3, <2>1, <2>2, QueryStep
<1> QED
  BY <1>4, <1>5

\* The steps at the points of InfluxDB, where nothing is known of failures.
LEMMA InfluxStep ==
    ASSUME Inv, NEW t \in Callers, NEW p \in {"writers", "fields", "store"}, NEW b \in Builds,
           pc[t] \in {"metadata", "writers", "fields"}, pc' = [pc EXCEPT ![t] = p],
           build' = [build EXCEPT ![t] = b],
           UNCHANGED <<storeVars, cache, clientVars, reply>>,
           b.began = build[t].began
    PROVE  Inv'
<1>1. source # "ADX"
  BY DEF Inv, AdxInv
<1>2. p \in Points \ {"idle", "create"}
  BY DEF Points
<1> QED
  BY <1>1, <1>2, QueryStep

LEMMA InvInflux ==
    ASSUME Inv, NEW t \in Callers,
           \/ InfluxMetadata(t) \/ InfluxWriters(t)
           \/ \E w \in Tags : InfluxFields(t, w)
           \/ InfluxDone(t)
    PROVE  Inv'
<1>0. build[t] \in Builds /\ reporting \subseteq Tags /\ NoWriter \in Tags
  BY DEF Inv, TypeOK, Tags
<1>1. CASE InfluxMetadata(t)
  <2>1. PICK fails \in BOOLEAN : build' = [build EXCEPT ![t].failed = fails]
    BY <1>1 DEF InfluxMetadata
  <2> DEFINE b == [build[t] EXCEPT !.failed = fails]
  <2>2. build' = [build EXCEPT ![t] = b]
    BY <2>1 DEF Inv, TypeOK
  <2>3. b \in Builds /\ b.began = build[t].began
    BY <1>0 DEF Builds
  <2> HIDE DEF b
  <2> QED
    BY <1>1, <2>2, <2>3, InfluxStep DEF InfluxMetadata, Goto
<1>2. CASE InfluxWriters(t)
  <2>1. PICK fails \in BOOLEAN :
          build' = [build EXCEPT ![t].failed = @ \/ fails,
                                 ![t].todo = IF fails \/ reporting = {} THEN {NoWriter}
                                                                        ELSE reporting]
    BY <1>2 DEF InfluxWriters
  <2> DEFINE todo == IF fails \/ reporting = {} THEN {NoWriter} ELSE reporting
             b == [build[t] EXCEPT !.failed = @ \/ fails, !.todo = todo]
  <2>2. build' = [build EXCEPT ![t] = b]
    BY <2>1 DEF Inv, TypeOK
  <2>3. todo \subseteq Tags
    BY <1>0
  <2> HIDE DEF todo
  <2>4. b \in Builds /\ b.began = build[t].began
    BY <1>0, <2>3 DEF Builds
  <2> HIDE DEF b
  <2> QED
    BY <1>2, <2>2, <2>4, InfluxStep DEF InfluxWriters, Goto
<1>3. ASSUME NEW w \in Tags, InfluxFields(t, w)
      PROVE  Inv'
  <2>1. PICK fails \in BOOLEAN :
          LET listed == ~fails /\ (IF w = NoWriter THEN reporting # {} ELSE w \in reporting) IN
          build' = [build EXCEPT ![t].failed = @ \/ fails,
                                 ![t].todo = @ \ {w},
                                 ![t].tags = IF listed THEN @ \cup {w} ELSE @]
    BY <1>3 DEF InfluxFields
  <2> DEFINE listed == ~fails /\ (IF w = NoWriter THEN reporting # {} ELSE w \in reporting)
             tags == IF listed THEN build[t].tags \cup {w} ELSE build[t].tags
             b == [build[t] EXCEPT !.failed = @ \/ fails, !.todo = @ \ {w}, !.tags = tags]
  <2>2. build' = [build EXCEPT ![t] = b]
    BY <2>1 DEF Inv, TypeOK
  <2>3. tags \subseteq Tags
    BY <1>0 DEF Builds
  <2> HIDE DEF tags
  <2>4. b \in Builds /\ b.began = build[t].began
    BY <1>0, <2>3 DEF Builds
  <2>5. pc' = [pc EXCEPT ![t] = "fields"] /\ pc[t] = "fields"
    BY <1>3 DEF InfluxFields, Inv, TypeOK
  <2> HIDE DEF b
  <2> QED
    BY <1>3, <2>2, <2>4, <2>5, InfluxStep DEF InfluxFields
<1>4. CASE InfluxDone(t)
  <2>1. build' = [build EXCEPT ![t] = build[t]]
    BY <1>4 DEF InfluxDone, Inv, TypeOK
  <2> QED
    BY <1>0, <1>4, <2>1, InfluxStep DEF InfluxDone, Goto
<1> QED
  BY <1>1, <1>2, <1>3, <1>4

(***************************************************************************)
(* The world.                                                              *)
(***************************************************************************)
\* Time ages what is being enumerated, but no enumeration beyond its limit.
LEMMA InvTick ==
    ASSUME Inv, Tick
    PROVE  Inv'
<1>1. now' = now + 1 /\ now' \in 0..MaxTime
  BY DEF Tick, Inv, TypeOK
<1>2. UNCHANGED <<source, configured, reporting, cache, client, lock, created, pc, build, reply>>
  BY DEF Tick, clientVars
<1>3. TypeOK'
  BY <1>1, <1>2 DEF Inv, TypeOK, Entries
<1>4. LockInv' /\ AdxInv'
  BY <1>2 DEF Inv, LockInv, AdxInv, FailuresAreNotCached
<1>5. \A t \in Callers : pc[t] # "idle" =>
          build[t].began <= now' /\ now' - build[t].began <= LongestBuild
  BY <1>1 DEF Tick, Inv, TypeOK, AgeInv, Builds
<1>6. AgeInv'
  BY <1>1, <1>2, <1>5 DEF Inv, AgeInv, AgeIsBounded
<1> QED
  BY <1>3, <1>4, <1>6 DEF Inv

LEMMA InvReport ==
    ASSUME Inv, NEW w \in Writers, Report(w)
    PROVE  Inv'
<1>1. reporting' \subseteq Writers
  BY DEF Report, Inv, TypeOK
<1>2. UNCHANGED <<source, configured, now, cache, client, lock, created, pc, build, reply>>
  BY DEF Report, clientVars
<1> QED
  BY <1>1, <1>2 DEF Inv, TypeOK, LockInv, AgeInv, AgeIsBounded, AdxInv, FailuresAreNotCached

LEMMA InvStutter ==
    ASSUME Inv, UNCHANGED vars
    PROVE  Inv'
BY DEF Inv, TypeOK, LockInv, AgeInv, AgeIsBounded, AdxInv, FailuresAreNotCached,
       vars, storeVars, clientVars

LEMMA InvStep == Inv /\ [Next]_vars => Inv'
<1> SUFFICES ASSUME Inv, [Next]_vars PROVE Inv'
  OBVIOUS
<1>1. ASSUME NEW t \in Callers, CacheHit(t) \/ CacheMiss(t) \/ Enumerate(t)
      PROVE  Inv'
  BY <1>1, InvHit, InvMiss, InvStore, InvExists, InvAcquire, InvCreate, InvAdx, InvInflux
  DEF Enumerate
<1> QED
  BY <1>1, InvTick, InvReport, InvStutter DEF Next

(***************************************************************************)
(* The properties.                                                         *)
(***************************************************************************)
\* Every reachable state satisfies the inductive invariant.
THEOREM Invariance == Spec => []Inv
<1>1. Inv /\ [Next]_vars => Inv'
  BY InvStep
<1> QED
  BY InvInit, <1>1, PTL DEF Spec

\* Every variable keeps its type, and the cache holds no entry from the future and
\* none without tags.
THEOREM TypeCorrect == Spec => []TypeOK
<1>1. Inv => TypeOK
  BY DEF Inv
<1> QED
  BY Invariance, <1>1, PTL

\* However many threads meet an empty client field, one client is built.
THEOREM OneClientIsBuilt == Spec => []OneClient
<1>1. Inv => OneClient
  BY DEF Inv, LockInv, OneClient
<1> QED
  BY Invariance, <1>1, PTL

\* However enumerations, lookups and the clock interleave, a reply from the cache is
\* younger than the time-to-live plus one enumeration, any other than one enumeration.
THEOREM AgesAreBounded == Spec => []AgeIsBounded
<1>1. Inv => AgeIsBounded
  BY DEF Inv, AgeInv
<1> QED
  BY Invariance, <1>1, PTL

\* With ADX no failed browse is served to another caller.
THEOREM AdxFailuresNotCached == Spec => []AdxFailuresAreNotCached
<1>1. Inv => AdxFailuresAreNotCached
  BY DEF Inv, AdxInv, AdxFailuresAreNotCached
<1> QED
  BY Invariance, <1>1, PTL
=============================================================================
