------------------------------- MODULE WebApi -------------------------------
(***************************************************************************)
(* The OPC UA Web API: what a POST to /opcua/browse, /opcua/read and       *)
(* /opcua/historyread goes through (Program.cs: authentication,            *)
(* authorization, rate limiter, controller) and what it answers, while     *)
(* producers write telemetry.  NodeResolution says how the controller's    *)
(* data source finds the values.                                           *)
(*                                                                         *)
(* A request is one step: the store answers a query at one instant, and    *)
(* the limiter decides under its lock.  A request names one node; the      *)
(* nodes of a longer list are answered one after the other, each like      *)
(* this.  The browse cache is the subject of BrowseCache and is off here   *)
(* (BROWSE_CACHE_SECONDS=0).                                               *)
(***************************************************************************)
EXTENDS NodeResolution

CONSTANTS
    Addresses,   \* the clients' addresses, by which the limiter partitions
    NodeIds,     \* the NodeIds clients send, and Null for a node without one
    Window,      \* RATE_LIMIT_WINDOW_SECONDS, in units of the clock
    MaxTime,     \* bound on the clock
    Scenarios    \* deployments: the settings and metadata, and bounds on the
                 \* points written and on the requests answered

ASSUME TimesAssumption == Window \in Nat /\ MaxTime \in Nat
ASSUME ScenariosAssumption ==
    \A s \in Scenarios :
        /\ s.permit \in Nat \ {0} /\ s.clients \subseteq Addresses
        /\ s.source \in {"ADX", "InfluxDB"}
        /\ \A w \in WriterSet :
              /\ IsSequence(s.metadata[w]) /\ IsFiniteSet(s.raw[w])
              /\ s.source = "InfluxDB" => s.raw[w] = {}

VARIABLES
    env,         \* the scenario
    permits,     \* the limiter: permits left per address
    opened,      \* and when the window of each address began
    served,      \* history: the requests let through to the controller
    current,     \* history: of these, those since the latest replenishment
    reply        \* the latest response: status, node and values

limiterVars == <<permits, opened, served, current>>
vars == <<storeVars, env, limiterVars, reply>>

Times == 0..MaxTime

\* A response; of a node that was read also, as history, the series its
\* NodeId was resolved to and whether every query was answered.
Response(op, http, status, values) ==
    [op |-> op, http |-> http, status |-> status, values |-> values,
     node |-> Null, series |-> {}, answered |-> TRUE]

NoReply == Response("none", 0, "none", {})

Init ==
    /\ env \in Scenarios
    /\ metadata = env.metadata
    /\ raw = env.raw
    /\ points = {}
    /\ now = 0
    /\ permits = [a \in Addresses |-> env.permit]
    /\ opened = [a \in Addresses |-> 0]
    /\ served = {}
    /\ current = [a \in Addresses |-> 0]
    /\ reply = NoReply

(***************************************************************************)
(* The environment.                                                        *)
(***************************************************************************)
Tick ==
    /\ now < MaxTime
    /\ now' = now + 1
    /\ reply' = NoReply
    /\ UNCHANGED <<metadata, raw, points, env, limiterVars>>

\* A producer writes a point.
Report(writer, tag) ==
    /\ Cardinality(points) < env.maxPoints
    /\ points' = points \cup {[writer |-> writer, tag |-> tag, time |-> now]}
    /\ reply' = NoReply
    /\ UNCHANGED <<metadata, raw, now, env, limiterVars>>

\* A window of the limiter has passed: it starts a new one with all permits.
Replenish(a) ==
    /\ now - opened[a] >= Window
    /\ permits' = [permits EXCEPT ![a] = env.permit]
    /\ opened' = [opened EXCEPT ![a] = now]
    /\ current' = [current EXCEPT ![a] = 0]
    /\ reply' = NoReply
    /\ UNCHANGED <<storeVars, env, served>>

(***************************************************************************)
(* The pipeline.                                                           *)
(***************************************************************************)
\* HandleAuthenticateAsync: only the right credentials, when credentials are
\* configured, give a ticket; a missing, other or malformed header gives none.
Headers == {"missing", "otherScheme", "malformed", "wrong", "right"}
Authenticate(header) == env.configured /\ header = "right"

NotLimited(a) == TRUE   \* mutant: the policy is not enabled on the controller
Acquire(a) == permits[a] > 0

Served(a) == Cardinality({r \in served : r.by = a})

\* No ticket: 401 with a challenge, before the limiter is asked.
ChallengeAfterLimiter(a, op, header) ==   \* mutant: the limiter comes first
    /\ ~Authenticate(header)
    /\ permits' = [permits EXCEPT ![a] = IF @ > 0 THEN @ - 1 ELSE 0]
    /\ reply' = Response(op, 401, "none", {})
    /\ UNCHANGED <<storeVars, env, opened, served, current>>

Challenge(a, op, header) ==
    /\ ~Authenticate(header)
    /\ reply' = Response(op, 401, "none", {})
    /\ UNCHANGED <<storeVars, env, limiterVars>>

\* QueueLimit 0: a request without a permit is rejected at once.
TooManyRequests(a, op, header) ==
    /\ Authenticate(header) /\ ~Acquire(a)
    /\ reply' = Response(op, 429, "none", {})
    /\ UNCHANGED <<storeVars, env, limiterVars>>

\* A permit is used and the controller is called.
Handle(a, header) ==
    /\ Authenticate(header) /\ Acquire(a)
    /\ Served(a) < env.maxRequests
    /\ permits' = [permits EXCEPT ![a] = IF @ > 0 THEN @ - 1 ELSE 0]
    /\ served' = served \cup {[by |-> a, at |-> now, nth |-> Served(a)]}
    /\ current' = [current EXCEPT ![a] = @ + 1]
    /\ UNCHANGED <<storeVars, env, opened>>

(***************************************************************************)
(* The controller and the resolver.                                        *)
(***************************************************************************)
Outcome(values) == IF values = {} THEN "BadNoData" ELSE "Good"

\* A body that is no request is refused before the operation is called.
BadRequest(a, header, op) ==
    /\ Handle(a, header)
    /\ reply' = Response(op, 400, "none", {})

\* The tags a browse may find: in ADX with one query, in InfluxDB with several, of
\* which those that fail leave out the metadata, the fields of a writer or the writers.
TagLists ==
    IF env.source = "ADX" THEN {AdxBrowseTags(pick) : pick \in Picks}
    ELSE {InfluxBrowseTags(answered, lost) : answered \in BOOLEAN, lost \in SUBSET WriterSet}
         \cup {InfluxUnscopedTags}

\* The answers without a value: the store is not configured, or its client cannot be
\* built or the query fails.
Failures == {"BadNoData", "BadUnexpectedError"}

\* BuildBrowseResult: the values are the references.
Browse(a, header) ==
    /\ Handle(a, header)
    /\ \/ \E tags \in TagLists :
            reply' = Response("browse", 200, Outcome(tags), {Reference(b) : b \in tags})
       \/ \E status \in Failures : reply' = Response("browse", 200, status, {})

\* What the answer to one node says, whichever the operation.
NodeAnswer(op, node, status, found, answered, values) ==
    [Response(op, 200, status, values) EXCEPT
        !.node = node, !.series = found, !.answered = answered]

\* A node without a NodeId has no data; of another one there may be no answer.
NoAnswer(op, node) ==
    \E status \in (IF node = Null THEN {"BadNoData"} ELSE Failures) :
        reply' = NodeAnswer(op, node, status, {}, TRUE, {})

\* Whether the writers' query of InfluxDB is answered; ADX is asked once for all.
Answers == IF env.source = "ADX" THEN {TRUE} ELSE BOOLEAN

\* The latest value: the one row ADX is asked for, the first of those of InfluxDB.
Read(a, header, node) ==
    /\ Handle(a, header)
    /\ \/ NoAnswer("read", node)
       \/ /\ node # Null
          /\ \E pick \in Picks, near, wide \in Answers :
               LET latest == IF env.source = "ADX" THEN AdxLatest(AdxResolves(node, pick))
                             ELSE InfluxLatest(InfluxResolves(node, near), InfluxResolves(node, wide))
                   Answer(values) == NodeAnswer("read", node, Outcome(values), latest.series,
                                                near /\ wide, values)
               IN \/ latest.values = {} /\ reply' = Answer({})
                  \/ \E p \in latest.values : reply' = Answer({p})

HistoryRead(a, header, node, limit) ==
    /\ Handle(a, header)
    /\ \/ NoAnswer("historyread", node)
       \/ /\ node # Null
          /\ \E pick \in Picks, answered \in Answers :
               LET series == IF env.source = "ADX" THEN AdxResolves(node, pick)
                             ELSE InfluxResolves(node, answered)
               IN \E values \in (IF env.source = "ADX" THEN AdxHistory(series, limit)
                                 ELSE InfluxHistory(series, limit)) :
                     reply' = NodeAnswer("historyread", node, Outcome(values), series,
                                         answered, values)

Ops == {"browse", "read", "historyread"}

Request(a, header) ==
    \/ \E op \in Ops :
          Challenge(a, op, header) \/ TooManyRequests(a, op, header) \/ BadRequest(a, header, op)
    \/ Browse(a, header)
    \/ \E node \in NodeIds : Read(a, header, node) \/ \E n \in 0..1 : HistoryRead(a, header, node, n)

Next ==
    \/ Tick
    \/ \E w \in WriterSet, tag \in Tags : Report(w, tag)
    \/ \E a \in env.clients : Replenish(a) \/ \E header \in Headers : Request(a, header)

Spec == Init /\ [][Next]_vars

(***************************************************************************)
(* Properties.  The latest response is compared with the store it was read *)
(* from: it is cleared by any other step.                                  *)
(***************************************************************************)
Point == [writer : WriterSet, tag : Tags, time : Times]

\* Types: the store, the limiter's counters within their bounds, and a status
\* that fits the response.
TypeOK ==
    /\ env \in Scenarios /\ metadata = env.metadata /\ raw = env.raw
    /\ points \subseteq Point /\ \A p \in points : p.time <= now
    /\ now \in Times
    /\ permits \in [Addresses -> 0..env.permit]
    /\ opened \in [Addresses -> Times]
    /\ served \subseteq [by : Addresses, at : Times, nth : Nat]
    /\ current \in [Addresses -> Nat]
    /\ reply.op \in Ops \cup {"none"}
    /\ reply.http \in {0, 200, 400, 401, 429}
    /\ (reply.status = "Good") <=> (reply.values # {})
    /\ (reply.status # "none") <=> (reply.http = 200)

\* The requests of an address in the span of a window's length from a time on.
Span(a, t) == {r \in served : r.by = a /\ t <= r.at /\ r.at < t + Window}

\* In any span of a window's length, wherever it begins, an address is let through
\* at most twice as often as the limit says: the limiter counts from the start of
\* its own windows, and a span can reach over two of them.
AtMostTwicePerWindow ==
    \A a \in Addresses, t \in Times : Cardinality(Span(a, t)) <= 2 * env.permit

\* Only requests that reach the controller use permits: those refused for their
\* credentials never cost the address an answer, since authorization comes first.
PermitsCountAnswers == \A a \in Addresses : permits[a] + current[a] = env.permit

\* Why: a span after the replenishment holds requests counted since then only, one
\* over it those and the requests of one window more; no request is recorded twice.
LimitInv ==
    /\ IsFiniteSet(served)
    /\ \A r \in served : r.at <= now /\ r.nth < Served(r.by)
    /\ \A a \in Addresses : opened[a] <= now
    /\ \A a \in Addresses, t \in Times :
          /\ opened[a] < t => Cardinality(Span(a, t)) <= current[a]
          /\ t <= opened[a] /\ opened[a] < t + Window =>
                Cardinality(Span(a, t)) <= env.permit + current[a]

\* The series that a NodeId is resolved to, if every query is answered.
Resolves(node, pick) ==
    IF env.source = "ADX" THEN AdxResolves(node, pick) ELSE InfluxResolves(node, TRUE)

\* The series a reference was made of is among those its NodeId is resolved to.
ReadsBack(reference) == \A pick \in Picks : reference.series \in Resolves(reference.nodeId, pick)

SeveralNamespaces(series) == Cardinality(raw[series[1]]) > 1

\* A series that browse lists is found again under its NodeId, whatever the shape of
\* the metadata the NodeId was made of, provided the metadata records its namespace
\* (one only for its Subject), and, in InfluxDB, that a DataSetName which begins with
\* its namespace ends with the field.
BrowsedNodesReadBack ==
    reply.op = "browse" =>
        \A r \in reply.values :
            \/ r.nodeId.nsu = DefaultNamespace
            \/ SeveralNamespaces(r.series)
            \/ /\ env.source = "InfluxDB" /\ StartsWithNsu(r.nodeId)
               /\ ParseStringIdentifier(r.nodeId) # r.browseName
            \/ ReadsBack(r)

\* How far back the store is asked.
InReach == IF env.source = "ADX" THEN points ELSE Since(Month)

\* The value that read returns is the newest of the node's: always in ADX, and in
\* InfluxDB if the NodeId stands for one series; for several it is older than the narrow
\* range only if all of them are.  There is no value only if none is in reach.
LatestIsFresh ==
    reply.op = "read" /\ reply.answered =>
        /\ reply.values = {} => PointsOf(reply.series) \cap InReach = {}
        /\ env.source = "ADX" \/ (\E s \in Series : reply.series = {s}) =>
              \A p \in reply.values, q \in PointsOf(reply.series) : q.time <= p.time
        /\ \A p \in reply.values, q \in PointsOf(reply.series) :
              q \in Since(Hour) => p \in Since(Hour)

\* What historyread finds for a node without a limit.
Histories(node, pick) ==
    IF env.source = "ADX" THEN AdxHistory(AdxResolves(node, pick), 0)
    ELSE InfluxHistory(InfluxResolves(node, TRUE), 0)

\* The value that read returns is in the history of the node, although the two ask for
\* the series with queries of their own and over ranges of their own (one raw namespace
\* only for its Subject).
ReadIsInHistory ==
    reply.op = "read" /\ reply.answered =>
        \A v \in reply.values :
            SeveralNamespaces(<<v.writer, v.tag>>)
            \/ \A pick \in Picks : \A history \in Histories(reply.node, pick) : v \in history

\* The namespace is recorded for the writer, in a DataSetName or in the raw metadata.
RecordedFor(namespace, writer) ==
    \/ \E d \in DataSetNames(writer) \ {Null} : namespace \in {d.urn, d.nsu, d.uri}
    \/ namespace \in raw[writer]

\* No longer URI that begins with the namespace is recorded.
Unambiguous(namespace) ==
    \A w \in WriterSet, pair \in UriPrefixes : pair[1] = namespace => ~RecordedFor(pair[2], w)

\* The values read under a NodeId made of a namespace and a tag are of that tag and from
\* writers of that namespace, or the NodeId is their DataSetName.
ReadOfNamespace ==
    LET node == reply.node
    IN reply.op \in {"read", "historyread"} /\ node # Null =>
        (StartsWithNsu(node) =>
            \A v \in reply.values :
                \/ env.source = "ADX" /\ node \in DataSetNames(v.writer)
                \/ v.tag = node.name /\ RecordedFor(node.nsu, v.writer))

\* A NodeId made of a namespace and a tag yields values of that namespace only, provided
\* that no longer one begins like it and, in InfluxDB, that some writer has it and the
\* query for the writers is answered.
ReadStaysInNamespace ==
    \/ reply.node # Null /\ ~Unambiguous(reply.node.nsu)
    \/ /\ env.source = "InfluxDB" /\ reply.node # Null
       /\ ~reply.answered \/ \A w \in WriterSet : ~RecordedFor(reply.node.nsu, w)
    \/ ReadOfNamespace

\* The inductive invariant behind the properties above.
Inv ==
    /\ TypeOK /\ IsFiniteSet(points)
    /\ PermitsCountAnswers /\ LimitInv /\ AtMostTwicePerWindow
    /\ BrowsedNodesReadBack /\ LatestIsFresh /\ ReadIsInHistory /\ ReadStaysInNamespace

\* src/README.md: "A NodeId returned by browse can be passed directly to read and
\* historyread."
RoundTrip == reply.op = "browse" => \A r \in reply.values : ReadsBack(r)

\* src/README.md: read "Returns the latest `DataValue` for each node".
ReadIsLatest ==
    reply.op = "read" /\ reply.answered =>
        \A p \in reply.values, q \in PointsOf(reply.series) : q.time <= p.time
=============================================================================
