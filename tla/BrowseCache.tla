---------------------------- MODULE BrowseCache ----------------------------
(***************************************************************************)
(* POST /opcua/browse, served on many threads at once: the resolver looks  *)
(* the tag catalogue up in a cache, and otherwise enumerates it from the   *)
(* selected store, outside any lock, and caches a good result for          *)
(* BROWSE_CACHE_SECONDS.  Each data source keeps one client, built on      *)
(* first use under a lock.                                                 *)
(*                                                                         *)
(* Abstracted: a tag is the writer it belongs to, or NoWriter for the      *)
(* fields that InfluxDB lists without a writer; namespaces are left out.   *)
(***************************************************************************)
EXTENDS Integers, FiniteSets

CONSTANTS
    Callers,         \* request threads
    Writers,         \* dataset writers that may report
    NoWriter,        \* the empty writer of an unfiltered field query
    NoEntry,         \* nothing cached
    NoReply,         \* nothing answered yet
    Free,            \* nobody holds the client's lock
    Sources,         \* the settings of DATA_SOURCE to consider
    Ttl,             \* BROWSE_CACHE_SECONDS
    LongestBuild,    \* how long an enumeration may take
    MaxTime          \* bound: the clock

ASSUME SourcesAssumption == Sources \subseteq {"ADX", "InfluxDB"}
ASSUME TimesAssumption == Ttl \in Nat /\ LongestBuild \in Nat \ {0} /\ MaxTime \in Nat
ASSUME DistinctAssumption == NoWriter \notin Writers /\ Free \notin Callers

VARIABLES
    source,      \* the data source Resolve selects
    configured,  \* its connection settings are complete
    now,         \* DateTime.UtcNow
    reporting,   \* the writers in the store's browse window
    cache,       \* the entry of _browseCache for this source
    client,      \* the data source's client field
    lock,        \* who holds the data source's lock
    created,     \* clients ever built (history), counted up to 2
    pc,          \* where each request thread stands
    build,       \* each thread's enumeration
    reply        \* the reply to each thread's latest request

storeVars == <<source, configured, now, reporting>>
clientVars == <<client, lock, created>>
vars == <<storeVars, cache, clientVars, pc, build, reply>>

Points == {"idle", "getClient", "create", "adxQuery", "metadata", "writers", "fields", "store"}
Tags == Writers \cup {NoWriter}
Builds == [began : 0..MaxTime, tags : SUBSET Tags, todo : SUBSET Tags,
           failed : BOOLEAN, threw : BOOLEAN]
StartedAt(time) == [began |-> time, tags |-> {}, todo |-> {}, failed |-> FALSE, threw |-> FALSE]

\* What BuildBrowseResult makes of an enumeration.
Status(b) == IF b.threw THEN "error" ELSE IF b.tags = {} THEN "nodata" ELSE "good"
Results == [status : {"good", "nodata", "error"}, tags : SUBSET Tags, failed : BOOLEAN,
            began : 0..MaxTime]
ResultOf(b) == [status |-> Status(b), tags |-> b.tags, failed |-> b.failed, began |-> b.began]
Entries == [result : Results, cachedUtc : 0..MaxTime]
Replies == [result : Results, at : 0..MaxTime, hit : BOOLEAN]

Init ==
    /\ source \in Sources
    /\ configured \in BOOLEAN
    /\ now = 0
    /\ reporting \in SUBSET Writers
    /\ cache = NoEntry
    /\ client = "null" /\ lock = Free /\ created = 0
    /\ pc = [t \in Callers |-> "idle"]
    /\ build = [t \in Callers |-> StartedAt(0)]
    /\ reply = [t \in Callers |-> NoReply]

Goto(t, from, to) == pc[t] = from /\ pc' = [pc EXCEPT ![t] = to]

(***************************************************************************)
(* OpcUaDataSourceResolver.Browse                                          *)
(***************************************************************************)
StaleByOne(entry) == now - entry.cachedUtc <= Ttl   \* mutant: off by one

\* The age test of the lookup.
Fresh(entry) == now - entry.cachedUtc < Ttl

CanHit == Ttl > 0 /\ cache # NoEntry /\ Fresh(cache)

\* The lookup, under the cache's lock, answers the request ...
CacheHit(t) ==
    /\ Goto(t, "idle", "idle")
    /\ CanHit
    /\ reply' = [reply EXCEPT ![t] = [result |-> cache.result, at |-> now, hit |-> TRUE]]
    /\ UNCHANGED <<storeVars, cache, clientVars, build>>

\* ... or the enumeration starts.
CacheMiss(t) ==
    /\ Goto(t, "idle", "getClient")
    /\ ~CanHit
    /\ build' = [build EXCEPT ![t] = StartedAt(now)]
    /\ reply' = [reply EXCEPT ![t] = NoReply]
    /\ UNCHANGED <<storeVars, cache, clientVars>>

CacheableAlways(result) == Ttl > 0   \* mutant: failures are cached too

\* "Only cache successful enumerations".
Cacheable(result) == Ttl > 0 /\ result.status = "good"

\* The result is stored, under the cache's lock, and returned.
Store(t) ==
    /\ Goto(t, "store", "idle")
    /\ LET result == ResultOf(build[t]) IN
         /\ cache' = IF Cacheable(result) THEN [result |-> result, cachedUtc |-> now] ELSE cache
         /\ reply' = [reply EXCEPT ![t] = [result |-> result, at |-> now, hit |-> FALSE]]
    /\ build' = [build EXCEPT ![t] = StartedAt(0)]
    /\ UNCHANGED <<storeVars, clientVars>>

(***************************************************************************)
(* GetClient, GetQueryProvider                                             *)
(***************************************************************************)
LockIgnored(t) == TRUE   \* mutant: no lock around the lazy creation
LockFree(t) == lock = Free

AfterClient == IF source = "ADX" THEN "adxQuery" ELSE "metadata"

\* Under the lock, the field turns out to be set: it is used as it is.
ClientExists(t) ==
    /\ Goto(t, "getClient", AfterClient)
    /\ LockFree(t)
    /\ client = "live"
    /\ UNCHANGED <<storeVars, cache, clientVars, build, reply>>

\* Under the lock, the field turns out to be null: the factory is called.
AcquireClient(t) ==
    /\ Goto(t, "getClient", "create")
    /\ LockFree(t)
    /\ client = "null"
    /\ lock' = t
    /\ UNCHANGED <<storeVars, cache, client, created, build, reply>>

\* The factory builds a client.
ClientCreated(t) ==
    /\ Goto(t, "create", AfterClient)
    /\ configured
    /\ client' = "live"
    /\ created' = IF created < 2 THEN created + 1 ELSE created
    /\ lock' = Free
    /\ UNCHANGED <<storeVars, cache, build, reply>>

\* The factory returns null: there are no tags.
ClientMissing(t) ==
    /\ Goto(t, "create", "store")
    /\ ~configured
    /\ lock' = Free
    /\ UNCHANGED <<storeVars, cache, client, created, build, reply>>

\* Mutant: the lock is not released when the factory throws.
ClientThrowsLocked(t) ==
    /\ Goto(t, "create", "store")
    /\ configured
    /\ build' = [build EXCEPT ![t].failed = TRUE, ![t].threw = TRUE]
    /\ UNCHANGED <<storeVars, cache, client, created, lock, reply>>

\* The factory throws; BuildBrowseResult catches it.
ClientThrows(t) ==
    /\ Goto(t, "create", "store")
    /\ configured
    /\ lock' = Free
    /\ build' = [build EXCEPT ![t].failed = TRUE, ![t].threw = TRUE]
    /\ UNCHANGED <<storeVars, cache, client, created, reply>>

(***************************************************************************)
(* AdxDataSource.BrowseTags: one query.                                    *)
(***************************************************************************)
AdxQuery(t) ==
    /\ Goto(t, "adxQuery", "store")
    /\ build' = [build EXCEPT ![t].tags = reporting]
    /\ UNCHANGED <<storeVars, cache, clientVars, reply>>

AdxQueryThrows(t) ==
    /\ Goto(t, "adxQuery", "store")
    /\ build' = [build EXCEPT ![t].failed = TRUE, ![t].threw = TRUE]
    /\ UNCHANGED <<storeVars, cache, clientVars, reply>>

(***************************************************************************)
(* InfluxDataSource.BrowseTags: a query for the metadata, one for the      *)
(* writers and one for the fields of each; the failure of any is caught    *)
(* where it happens.                                                       *)
(***************************************************************************)
InfluxMetadata(t) ==
    /\ Goto(t, "metadata", "writers")
    /\ \E fails \in BOOLEAN : build' = [build EXCEPT ![t].failed = fails]
    /\ UNCHANGED <<storeVars, cache, clientVars, reply>>

\* A failed query lists no writers, like a window in which none reports; the
\* fields are then asked for without a writer.
InfluxWriters(t) ==
    /\ Goto(t, "writers", "fields")
    /\ \E fails \in BOOLEAN :
         build' = [build EXCEPT ![t].failed = @ \/ fails,
                                ![t].todo = IF fails \/ reporting = {} THEN {NoWriter}
                                                                       ELSE reporting]
    /\ UNCHANGED <<storeVars, cache, clientVars, reply>>

InfluxFields(t, w) ==
    /\ pc[t] = "fields" /\ w \in build[t].todo
    /\ \E fails \in BOOLEAN :
         LET listed == ~fails /\ (IF w = NoWriter THEN reporting # {} ELSE w \in reporting) IN
         build' = [build EXCEPT ![t].failed = @ \/ fails,
                                ![t].todo = @ \ {w},
                                ![t].tags = IF listed THEN @ \cup {w} ELSE @]
    /\ UNCHANGED <<storeVars, cache, clientVars, pc, reply>>

InfluxDone(t) ==
    /\ Goto(t, "fields", "store")
    /\ build[t].todo = {}
    /\ UNCHANGED <<storeVars, cache, clientVars, build, reply>>

(***************************************************************************)
(* The world.                                                              *)
(***************************************************************************)
\* Time passes; no enumeration takes longer than LongestBuild.
Tick ==
    /\ now < MaxTime
    /\ \A t \in Callers : pc[t] # "idle" => now < build[t].began + LongestBuild
    /\ now' = now + 1
    /\ UNCHANGED <<source, configured, reporting, cache, clientVars, pc, build, reply>>

\* A writer starts to report or drops out of the window.
Report(w) ==
    /\ reporting' = IF w \in reporting THEN reporting \ {w} ELSE reporting \cup {w}
    /\ UNCHANGED <<source, configured, now, cache, clientVars, pc, build, reply>>

Enumerate(t) ==
    \/ AcquireClient(t)
    \/ ClientExists(t) \/ ClientCreated(t) \/ ClientMissing(t) \/ ClientThrows(t)
    \/ AdxQuery(t) \/ AdxQueryThrows(t)
    \/ InfluxMetadata(t) \/ InfluxWriters(t)
    \/ \E w \in Tags : InfluxFields(t, w)
    \/ InfluxDone(t)
    \/ Store(t)

Next ==
    \/ \E t \in Callers : CacheHit(t) \/ CacheMiss(t) \/ Enumerate(t)
    \/ Tick
    \/ \E w \in Writers : Report(w)

Spec == Init /\ [][Next]_vars

\* A request that was begun is carried on, and a thread that waits for the lock,
\* which is never held across a query, is not passed over for ever.
FairSpec ==
    /\ Spec
    /\ \A t \in Callers : /\ WF_vars(Enumerate(t))
                          /\ SF_vars(AcquireClient(t) \/ ClientExists(t))

(***************************************************************************)
(* Properties.                                                             *)
(***************************************************************************)
\* Every variable has its type; an entry of the cache is a result with tags.
TypeOK ==
    /\ source \in Sources /\ configured \in BOOLEAN
    /\ now \in 0..MaxTime
    /\ reporting \subseteq Writers
    /\ cache \in Entries \cup {NoEntry}
    /\ cache # NoEntry => cache.cachedUtc <= now /\ cache.result.tags # {}
    /\ client \in {"null", "live"} /\ lock \in Callers \cup {Free} /\ created \in 0..2
    /\ pc \in [Callers -> Points]
    /\ build \in [Callers -> Builds]
    /\ reply \in [Callers -> Replies \cup {NoReply}]

\* However enumerations overlap, a reply from the cache reflects queries that
\* began less than the time-to-live plus one enumeration ago.
AgeIsBounded ==
    \A t \in Callers : reply[t] # NoReply =>
        LET age == reply[t].at - reply[t].result.began IN
        IF reply[t].hit THEN age < Ttl + LongestBuild ELSE age <= LongestBuild

\* A browse that failed is never served to another caller: a transient failure
\* is retried by the next request.
FailuresAreNotCached ==
    \A t \in Callers : reply[t] # NoReply /\ reply[t].hit => ~reply[t].result.failed

\* With ADX this holds: its one query either throws or lists every tag.
AdxFailuresAreNotCached == source = "ADX" => FailuresAreNotCached

\* However many requests meet an empty client field, one client is built.
OneClient == created <= 1

\* The lock is held by the thread that builds the client and by nobody else, and
\* only while there is none.
LockInv ==
    /\ \A t \in Callers : pc[t] = "create" <=> lock = t
    /\ created = IF client = "live" THEN 1 ELSE 0
    /\ lock # Free => client = "null"

\* How old what is being enumerated, cached and replied can be.
AgeInv ==
    /\ \A t \in Callers : pc[t] # "idle" =>
          build[t].began <= now /\ now - build[t].began <= LongestBuild
    /\ cache # NoEntry => cache.cachedUtc - cache.result.began <= LongestBuild
    /\ AgeIsBounded

\* With ADX a failure is always an exception, so that no failed result is "good".
AdxInv ==
    source = "ADX" =>
        /\ \A t \in Callers :
              /\ pc[t] \notin {"metadata", "writers", "fields"}
              /\ build[t].failed => build[t].threw
        /\ cache # NoEntry => ~cache.result.failed
        /\ FailuresAreNotCached

\* The inductive invariant behind the properties above.
Inv == TypeOK /\ LockInv /\ AgeInv /\ AdxInv

\* Every browse is answered, whatever fails on the way.
EveryBrowseEnds == \A t \in Callers : pc[t] # "idle" ~> pc[t] = "idle"
=============================================================================
