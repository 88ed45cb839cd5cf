---------------------------- MODULE WebApiProofs ----------------------------
(***************************************************************************)
(* What the web API answers and how often, for any addresses, limits,      *)
(* windows, stores and NodeIds.                                            *)
(***************************************************************************)
EXTENDS WebApi, NodeResolutionProofs

(***************************************************************************)
(* The parts of the inductive invariant: what concerns the limiter, the    *)
(* store and the latest response.                                          *)
(***************************************************************************)
LimiterOK ==
    /\ env \in Scenarios /\ now \in Times
    /\ permits \in [Addresses -> 0..env.permit] /\ opened \in [Addresses -> Times]
    /\ served \subseteq [by : Addresses, at : Times, nth : Nat]
    /\ current \in [Addresses -> Nat]
    /\ PermitsCountAnswers /\ LimitInv /\ AtMostTwicePerWindow

PointsOK ==
    /\ metadata = env.metadata /\ raw = env.raw
    /\ points \subseteq Point /\ IsFiniteSet(points) /\ \A p \in points : p.time <= now

ReplyOK ==
    /\ reply.op \in Ops \cup {"none"} /\ reply.http \in {0, 200, 400, 401, 429}
    /\ (reply.status = "Good") <=> (reply.values # {})
    /\ (reply.status # "none") <=> (reply.http = 200)

AnswerOK == BrowsedNodesReadBack /\ LatestIsFresh /\ ReadIsInHistory /\ ReadStaysInNamespace

LEMMA InvParts == Inv <=> LimiterOK /\ PointsOK /\ ReplyOK /\ AnswerOK
BY DEF Inv, TypeOK, LimiterOK, PointsOK, ReplyOK, AnswerOK

LEMMA InvNext ==
    ASSUME LimiterOK', PointsOK', ReplyOK', AnswerOK'
    PROVE  Inv'
BY DEF Inv, TypeOK, LimiterOK, PointsOK, ReplyOK, AnswerOK

LEMMA StoreIsOK ==
    ASSUME LimiterOK, PointsOK
    PROVE  StoreOK
BY ScenariosAssumption, TimesAssumption
DEF LimiterOK, PointsOK, StoreOK, Point, Series, Times

(***************************************************************************)
(* The limiter.                                                            *)
(***************************************************************************)
\* A deployment begins with every permit unused and nothing served.
LEMMA LimiterInit == Init => LimiterOK
<1> SUFFICES ASSUME Init PROVE LimiterOK
  OBVIOUS
<1>1. env \in Scenarios /\ env.permit \in Nat /\ 0 \in Times
  BY ScenariosAssumption, TimesAssumption DEF Init, Times
<1>2. \A a \in Addresses, t \in Times : Cardinality(Span(a, t)) = 0
  BY FS_EmptySet DEF Init, Span
<1>3. LimitInv /\ AtMostTwicePerWindow
  BY <1>1, <1>2, FS_EmptySet DEF Init, LimitInv, AtMostTwicePerWindow, Times
<1> QED
  BY <1>1, <1>3 DEF Init, LimiterOK, PermitsCountAnswers

\* Time, producers and refusals leave the limiter alone.
LEMMA LimiterUntouched ==
    ASSUME LimiterOK, UNCHANGED <<env, limiterVars>>, now' \in Times, now <= now'
    PROVE  LimiterOK'
BY DEF LimiterOK, PermitsCountAnswers, LimitInv, AtMostTwicePerWindow, Span, Served,
       limiterVars, Times

LEMMA SpanIsFinite ==
    ASSUME LimiterOK, NEW a, NEW t
    PROVE  /\ IsFiniteSet(Span(a, t)) /\ Cardinality(Span(a, t)) \in Nat
           /\ Served(a) \in Nat
BY FS_Subset, FS_CardinalityType DEF LimiterOK, LimitInv, Span, Served

\* A new window of an address: all permits, nothing counted.  Spans that begin after
\* it are still empty; those over its beginning hold requests of one window only,
\* since the one before it was replenished a whole window earlier.
LEMMA LimiterReplenish ==
    ASSUME LimiterOK, NEW a \in Addresses, Replenish(a)
    PROVE  LimiterOK'
<1>1. /\ now - opened[a] >= Window
      /\ permits' = [permits EXCEPT ![a] = env.permit]
      /\ opened' = [opened EXCEPT ![a] = now]
      /\ current' = [current EXCEPT ![a] = 0]
      /\ env' = env /\ now' = now /\ served' = served
  BY DEF Replenish, storeVars
<1>2. env.permit \in Nat
  BY ScenariosAssumption DEF LimiterOK
<1>3. \A b \in Addresses : permits[b] \in Nat /\ current[b] \in Nat /\ opened[b] \in Nat
                           /\ permits[b] + current[b] = env.permit
  BY <1>2 DEF LimiterOK, PermitsCountAnswers, Times
<1>4. PermitsCountAnswers'
  BY <1>1, <1>2 DEF LimiterOK, PermitsCountAnswers
<1>5. \A b, t : Span(b, t)' = Span(b, t) /\ Served(b)' = Served(b)
  BY <1>1 DEF Span, Served
<1>6. AtMostTwicePerWindow'
  BY <1>1, <1>5 DEF LimiterOK, AtMostTwicePerWindow
<1>7. LimitInv'
  <2>1. ASSUME NEW b \in Addresses, NEW t \in Times
        PROVE  /\ opened'[b] < t => Cardinality(Span(b, t)) <= current'[b]
               /\ t <= opened'[b] /\ opened'[b] < t + Window =>
                     Cardinality(Span(b, t)) <= env.permit + current'[b]
    <3>1. CASE b # a
      BY <1>1, <3>1 DEF LimiterOK, LimitInv
    <3>2. CASE b = a
      <4>1. opened'[b] = now /\ current'[b] = 0
        BY <1>1, <3>2 DEF LimiterOK
      <4>2. ASSUME now < t
            PROVE  Cardinality(Span(b, t)) = 0
        <5>1. Span(b, t) = {}
          BY <4>2 DEF Span, LimiterOK, LimitInv, Times
        <5> QED
          BY <5>1, FS_EmptySet
      <4>3. ASSUME t <= now, now < t + Window
            PROVE  Cardinality(Span(b, t)) <= env.permit
        <5>1. opened[a] < t
          BY <1>1, <1>3, <4>3, TimesAssumption DEF Times, LimiterOK
        <5>2. Cardinality(Span(a, t)) <= current[a]
          BY <5>1 DEF LimiterOK, LimitInv
        <5> QED
          BY <1>2, <1>3, <3>2, <5>2, SpanIsFinite
      <4> QED
        BY <1>2, <4>1, <4>2, <4>3
    <3> QED
      BY <3>1, <3>2
  <2>2. \A b \in Addresses : opened'[b] <= now'
    BY <1>1 DEF LimiterOK, LimitInv, Times
  <2>3. IsFiniteSet(served') /\ \A r \in served' : r.at <= now' /\ r.nth < Served(r.by)'
    <3>1. \A r \in served : r.at <= now /\ r.nth < Served(r.by) /\ Served(r.by)' = Served(r.by)
      BY <1>5 DEF LimiterOK, LimitInv
    <3> QED
      BY <1>1, <3>1 DEF LimiterOK, LimitInv
  <2> QED
    BY <1>1, <1>5, <2>1, <2>2, <2>3 DEF LimitInv
<1> QED
  BY <1>1, <1>2, <1>4, <1>6, <1>7 DEF LimiterOK

LEMMA AddedElement ==
    ASSUME NEW S, NEW x, IsFiniteSet(S)
    PROVE  Cardinality(S \cup {x}) <= Cardinality(S) + 1
<1>1. Cardinality(S \cup {x}) = IF x \in S THEN Cardinality(S) ELSE Cardinality(S) + 1
  BY FS_AddElement
<1>2. Cardinality(S) \in Nat
  BY FS_CardinalityType
<1> QED
  BY <1>1, <1>2

\* Calling the controller uses one permit of its address and is counted once.
LEMMA LimiterHandle ==
    ASSUME LimiterOK, NEW a \in Addresses, NEW header, Handle(a, header)
    PROVE  LimiterOK'
<1> DEFINE request == [by |-> a, at |-> now, nth |-> Served(a)]
<1>1. /\ permits[a] \in Nat /\ permits[a] > 0 /\ current[a] \in Nat
      /\ env.permit \in Nat /\ permits[a] + current[a] = env.permit
  BY ScenariosAssumption DEF LimiterOK, PermitsCountAnswers, Handle, Acquire
<1>2. /\ permits' = [permits EXCEPT ![a] = permits[a] - 1]
      /\ current' = [current EXCEPT ![a] = current[a] + 1]
      /\ served' = served \cup {request}
      /\ env' = env /\ now' = now /\ opened' = opened
  BY <1>1 DEF Handle, storeVars
<1>3. PermitsCountAnswers'
  <2> SUFFICES ASSUME NEW b \in Addresses
               PROVE  permits'[b] + current'[b] = env'.permit
    BY DEF PermitsCountAnswers
  <2> QED
    BY <1>1, <1>2 DEF LimiterOK, PermitsCountAnswers
<1>4. request \in [by : Addresses, at : Times, nth : Nat]
  BY SpanIsFinite DEF LimiterOK
<1>5. request \notin served
  BY SpanIsFinite DEF LimiterOK, LimitInv
<1>6. Served(a)' = Served(a) + 1 /\ \A b \in Addresses : b # a => Served(b)' = Served(b)
  <2> DEFINE before(b) == {r \in served : r.by = b}
  <2>1. {r \in served' : r.by = a} = before(a) \cup {request} /\ request \notin before(a)
    BY <1>2, <1>5
  <2>2. IsFiniteSet(before(a))
    BY FS_Subset DEF LimiterOK, LimitInv
  <2>3. \A b \in Addresses : b # a => {r \in served' : r.by = b} = before(b)
    BY <1>2
  <2>4. Cardinality(before(a) \cup {request}) = Cardinality(before(a)) + 1
    BY <2>1, <2>2, FS_AddElement
  <2> QED
    BY <2>1, <2>3, <2>4 DEF Served
<1>7. \A b \in Addresses, t \in Times :
        /\ b # a \/ ~(t <= now /\ now < t + Window) => Span(b, t)' = Span(b, t)
        /\ Cardinality(Span(b, t)') <= Cardinality(Span(b, t)) + 1
  <2> SUFFICES ASSUME NEW b \in Addresses, NEW t \in Times
               PROVE  /\ b # a \/ ~(t <= now /\ now < t + Window) => Span(b, t)' = Span(b, t)
                      /\ Cardinality(Span(b, t)') <= Cardinality(Span(b, t)) + 1
    OBVIOUS
  <2>1. CASE b # a \/ ~(t <= now /\ now < t + Window)
    <3>1. Span(b, t)' = Span(b, t)
      BY <1>2, <2>1 DEF Span
    <3> QED
      BY <3>1, SpanIsFinite
  <2>2. CASE b = a /\ t <= now /\ now < t + Window
    <3>1. Span(b, t)' = Span(b, t) \cup {request}
      BY <1>2, <2>2 DEF Span
    <3>2. IsFiniteSet(Span(b, t)) /\ Cardinality(Span(b, t)) \in Nat
      BY SpanIsFinite
    <3>3. Cardinality(Span(b, t) \cup {request}) <= Cardinality(Span(b, t)) + 1
      BY <3>2, AddedElement
    <3> QED
      BY <2>2, <3>1, <3>3
  <2> QED
    BY <2>1, <2>2
<1>8. \A b \in Addresses, t \in Times :
        /\ opened[b] < t => Cardinality(Span(b, t)') <= current'[b]
        /\ t <= opened[b] /\ opened[b] < t + Window =>
              Cardinality(Span(b, t)') <= env.permit + current'[b]
        /\ Cardinality(Span(b, t)') <= 2 * env.permit
  <2> SUFFICES ASSUME NEW b \in Addresses, NEW t \in Times
               PROVE  /\ opened[b] < t => Cardinality(Span(b, t)') <= current'[b]
                      /\ t <= opened[b] /\ opened[b] < t + Window =>
                            Cardinality(Span(b, t)') <= env.permit + current'[b]
                      /\ Cardinality(Span(b, t)') <= 2 * env.permit
    OBVIOUS
  <2> DEFINE n == Cardinality(Span(b, t))
             m == Cardinality(Span(b, t)')
  <2>1. /\ n \in Nat /\ current[b] \in Nat /\ opened[b] \in Nat /\ opened[b] <= now
        /\ opened[b] < t => n <= current[b]
        /\ t <= opened[b] /\ opened[b] < t + Window => n <= env.permit + current[b]
        /\ n <= 2 * env.permit
    BY SpanIsFinite DEF LimiterOK, LimitInv, AtMostTwicePerWindow, Times
  <2>2. CASE b # a
    BY <1>2, <1>7, <2>1, <2>2 DEF LimiterOK
  <2>3. CASE b = a
    <3>1. current'[b] = current[b] + 1 /\ current'[b] <= env.permit
      BY <1>1, <1>2, <2>3 DEF LimiterOK
    <3>2. CASE ~(t <= now /\ now < t + Window)
      <4>1. m = n
        BY <1>7, <3>2
      <4> HIDE DEF n, m
      <4> QED
        BY <1>1, <2>1, <3>1, <4>1 DEF m
    <3>3. CASE t <= now /\ now < t + Window
      <4>1. m <= n + 1 /\ m \in Int
        <5>1. IsFiniteSet(Span(b, t)')
          <6>1. IsFiniteSet(served') /\ Span(b, t)' \in SUBSET served'
            BY <1>2, FS_AddElement DEF Span, LimiterOK, LimitInv
          <6> QED
            BY <6>1, FS_Subset
        <5> QED
          BY <1>7, <5>1, FS_CardinalityType
      <4>2. t \in Nat /\ now \in Nat /\ Window \in Nat
        BY TimesAssumption DEF Times, LimiterOK
      <4>3. (opened[b] < t) \/ (t <= opened[b] /\ opened[b] < t + Window)
        BY <2>1, <3>3, <4>2
      <4> HIDE DEF n, m
      <4> QED
        BY <1>1, <2>1, <3>1, <4>1, <4>3 DEF m
    <3> QED
      BY <3>2, <3>3
  <2> QED
    BY <2>2, <2>3
<1>9. LimitInv' /\ AtMostTwicePerWindow'
  <2>1. IsFiniteSet(served')
    BY <1>2, FS_AddElement DEF LimiterOK, LimitInv
  <2>2. \A r \in served' : r.at <= now' /\ r.nth < Served(r.by)'
    <3> SUFFICES ASSUME NEW r \in served'
                 PROVE  r.at <= now' /\ r.nth < Served(r.by)'
      OBVIOUS
    <3>0. Served(a) \in Nat /\ now \in Nat
      BY SpanIsFinite DEF LimiterOK, Times
    <3>1. CASE r = request
      BY <1>2, <1>6, <3>0, <3>1
    <3>2. CASE r \in served
      <4>1. r.by \in Addresses /\ r.nth \in Nat /\ r.at <= now /\ r.nth < Served(r.by)
        BY <3>2 DEF LimiterOK, LimitInv
      <4>2. CASE r.by = a
        BY <1>2, <1>6, <3>0, <4>1, <4>2
      <4>3. CASE r.by # a
        BY <1>2, <1>6, <4>1, <4>3
      <4> QED
        BY <4>2, <4>3
    <3> QED
      BY <1>2, <3>1, <3>2
  <2>3. \A b \in Addresses : opened'[b] <= now'
    BY <1>2 DEF LimiterOK, LimitInv
  <2> QED
    BY <1>2, <1>8, <2>1, <2>2, <2>3 DEF LimitInv, AtMostTwicePerWindow
<1>10. permits' \in [Addresses -> 0..env'.permit] /\ current' \in [Addresses -> Nat]
  BY <1>1, <1>2 DEF LimiterOK
<1> HIDE DEF request
<1> QED
  BY <1>2, <1>3, <1>4, <1>9, <1>10 DEF LimiterOK

(***************************************************************************)
(* The answers.                                                            *)
(***************************************************************************)
\* A handled request leaves the store as it is.
LEMMA HandledStore ==
    ASSUME LimiterOK, PointsOK, NEW a \in Addresses, NEW header, Handle(a, header)
    PROVE  LimiterOK' /\ PointsOK' /\ env' = env /\ UNCHANGED <<metadata, raw, points, now>>
BY LimiterHandle DEF Handle, PointsOK, storeVars

\* A response without values or series, whatever its status, promises nothing.
LEMMA EmptyAnswer ==
    ASSUME reply'.values = {}, reply'.series = {}
    PROVE  AnswerOK'
BY DEF AnswerOK, BrowsedNodesReadBack, LatestIsFresh, ReadIsInHistory, ReadStaysInNamespace,
       ReadOfNamespace, PointsOf

LEMMA EmptyResponse ==
    ASSUME NEW op \in Ops \cup {"none"}, NEW http \in {0, 200, 400, 401, 429},
           NEW status \in {"none"} \cup Failures, status # "none" <=> http = 200,
           reply' = Response(op, http, status, {})
    PROVE  ReplyOK' /\ AnswerOK'
<1>1. /\ reply'.op = op /\ reply'.http = http /\ reply'.status = status
      /\ reply'.values = {} /\ reply'.series = {}
  BY DEF Response
<1> QED
  BY <1>1, EmptyAnswer DEF ReplyOK, Failures

\* The answer to a node: its status fits its values.
LEMMA NodeAnswerIs ==
    ASSUME NEW op \in {"read", "historyread"}, NEW node, NEW found, NEW answered,
           NEW values, NEW status, reply' = NodeAnswer(op, node, status, found, answered, values),
           (status \in Failures /\ values = {}) \/ status = Outcome(values)
    PROVE  /\ reply'.op = op /\ reply'.node = node
           /\ reply'.status = status /\ reply'.series = found
           /\ reply'.answered = answered /\ reply'.values = values
           /\ ReplyOK'
<1>1. /\ reply'.op = op /\ reply'.http = 200 /\ reply'.status = status
      /\ reply'.node = node /\ reply'.series = found
      /\ reply'.answered = answered /\ reply'.values = values
  BY DEF NodeAnswer, Response
<1> QED
  BY <1>1 DEF ReplyOK, Ops, Failures, Outcome

LEMMA NoAnswerIs ==
    ASSUME NEW op \in {"read", "historyread"}, NEW node, NoAnswer(op, node)
    PROVE  ReplyOK' /\ AnswerOK'
<1>1. PICK status \in Failures : reply' = NodeAnswer(op, node, status, {}, TRUE, {})
  BY DEF NoAnswer, Failures
<1>2. ReplyOK' /\ reply'.values = {} /\ reply'.series = {}
  BY <1>1, NodeAnswerIs
<1> QED
  BY <1>2, EmptyAnswer

LEMMA SourceKnown ==
    ASSUME LimiterOK, PointsOK
    PROVE  /\ env.source \in {"ADX", "InfluxDB"}
           /\ env.source = "InfluxDB" => \A w \in WriterSet : raw[w] = {}
BY ScenariosAssumption DEF LimiterOK, PointsOK

\* A DataSetName in which a namespace occurs names it, if no longer one is recorded.
LEMMA NamedExactly ==
    ASSUME NEW namespace, Unambiguous(namespace),
           NEW w \in WriterSet, NEW d \in DataSetNames(w), Has(d, namespace)
    PROVE  RecordedFor(namespace, w)
<1>1. PICK part \in {d.urn, d.nsu, d.uri} :
        part = namespace \/ <<namespace, part>> \in UriPrefixes
  BY DEF Has
<1>2. d # Null
  BY DEF Has
<1>3. RecordedFor(part, w)
  BY <1>1, <1>2 DEF RecordedFor
<1>4. CASE <<namespace, part>> \in UriPrefixes
  <2>1. <<namespace, part>>[1] = namespace /\ <<namespace, part>>[2] = part
    OBVIOUS
  <2> QED
    BY <1>3, <1>4, <2>1 DEF Unambiguous
<1> QED
  BY <1>1, <1>3, <1>4

\* A namespace that is recorded in metadata alone occurs in a DataSetName.
LEMMA RecordedOccurs ==
    ASSUME NEW namespace, NEW w, raw[w] = {}, RecordedFor(namespace, w)
    PROVE  \E i \in DOMAIN metadata[w] : Has(metadata[w][i], namespace)
<1>1. PICK d \in DataSetNames(w) : d # Null /\ namespace \in {d.urn, d.nsu, d.uri}
  BY DEF RecordedFor
<1>2. Has(d, namespace)
  BY <1>1 DEF Has
<1> QED
  BY <1>1, <1>2, NamesOfMetadata

\* Values of resolved series stay in the namespace of the NodeId.
LEMMA ValuesInNamespace ==
    ASSUME StoreOK, UNCHANGED <<metadata, raw, env>>, NEW node, NEW values,
           reply'.node = node, reply'.values = values,
           NEW pick \in Picks, NEW answered \in BOOLEAN, reply'.answered => answered,
           \A v \in values :
              <<v.writer, v.tag>> \in IF env.source = "ADX" THEN AdxResolves(node, pick)
                                      ELSE InfluxResolves(node, answered),
           env.source \in {"ADX", "InfluxDB"},
           env.source = "InfluxDB" => \A w \in WriterSet : raw[w] = {}
    PROVE  ReadStaysInNamespace'
<1>1. \A w : DataSetNames(w)' = DataSetNames(w)
  BY DEF DataSetNames
<1>a. \A ns, w : RecordedFor(ns, w)' <=> RecordedFor(ns, w)
  BY <1>1 DEF RecordedFor
<1>b. \A ns : Unambiguous(ns)' <=> Unambiguous(ns)
  BY <1>a DEF Unambiguous
<1> SUFFICES ASSUME node # Null, StartsWithNsu(node), NEW v \in values,
                    Unambiguous(node.nsu),
                    env.source = "InfluxDB" =>
                        reply'.answered /\ \E w \in WriterSet : RecordedFor(node.nsu, w)
             PROVE  \/ env.source = "ADX" /\ node \in DataSetNames(v.writer)
                    \/ v.tag = node.name /\ RecordedFor(node.nsu, v.writer)
  BY <1>1, <1>a, <1>b DEF ReadStaysInNamespace, ReadOfNamespace
<1> DEFINE s == <<v.writer, v.tag>>
<1>3. CASE env.source = "ADX"
  <2>1. s \in AdxResolves(node, pick)
    BY <1>3
  <2>2. \/ node \in DataSetNames(s[1])
        \/ /\ s[2] = node.name
           /\ \/ \E d \in DataSetNames(s[1]) : Has(d, node.nsu)
              \/ node.nsu \in raw[s[1]]
    BY <2>1, AdxInNamespace
  <2>3. v.writer \in WriterSet
    BY <2>1 DEF AdxResolves, Series
  <2>4. node.nsu \in raw[v.writer] => RecordedFor(node.nsu, v.writer)
    BY DEF RecordedFor
  <2> QED
    BY <1>3, <2>2, <2>3, <2>4, NamedExactly
<1>4. CASE env.source = "InfluxDB"
  <2>1. answered /\ s \in InfluxResolves(node, answered)
    BY <1>4
  <2>2. /\ s[2] = node.name
        /\ \/ \E d \in DataSetNames(s[1]) : Has(d, node.nsu)
           \/ ~answered
           \/ \A w \in WriterSet : ~\E i \in DOMAIN metadata[w] : Has(metadata[w][i], node.nsu)
    BY <2>1, InfluxInNamespace
  <2>3. PICK w \in WriterSet : \E i \in DOMAIN metadata[w] : Has(metadata[w][i], node.nsu)
    BY <1>4, RecordedOccurs
  <2>4. v.writer \in WriterSet
    BY <2>1 DEF InfluxResolves, Series
  <2> QED
    BY <2>1, <2>2, <2>3, <2>4, NamedExactly
<1> QED
  BY <1>3, <1>4

\* Whatever pick, ADX resolves a NodeId to the same series of a Subject that has no
\* more than one raw namespace.
LEMMA SamePick ==
    ASSUME StoreOK, NEW pick \in Picks, NEW next \in Picks, NEW node,
           NEW s \in AdxResolves(node, pick), ~SeveralNamespaces(s)
    PROVE  s \in AdxResolves(node, next)
<1>1. s[1] \in WriterSet
  BY DEF AdxResolves, Series
<1>2. CASE raw[s[1]] = {}
  BY <1>1, <1>2 DEF Picks, AdxResolves
<1>3. CASE raw[s[1]] # {}
  <2>1. pick[s[1]] \in raw[s[1]] /\ next[s[1]] \in raw[s[1]]
    BY <1>1, <1>3 DEF Picks
  <2>2. pick[s[1]] = next[s[1]]
    BY <1>1, <2>1, AtMostOne DEF StoreOK, SeveralNamespaces
  <2> QED
    BY <2>2 DEF AdxResolves
<1> QED
  BY <1>2, <1>3

\* A value in reach of a series that the NodeId is resolved to is in every history of
\* the node that has no limit.
LEMMA InEveryHistory ==
    ASSUME StoreOK, NEW node, NEW pick \in Picks, NEW v \in points,
           env.source \in {"ADX", "InfluxDB"},
           env.source = "ADX" => <<v.writer, v.tag>> \in AdxResolves(node, pick),
           env.source = "InfluxDB" => /\ <<v.writer, v.tag>> \in InfluxResolves(node, TRUE)
                                      /\ v \in Since(Month),
           ~SeveralNamespaces(<<v.writer, v.tag>>)
    PROVE  \A next \in Picks : \A history \in Histories(node, next) : v \in history
<1> SUFFICES ASSUME NEW next \in Picks, NEW history \in Histories(node, next)
             PROVE  v \in history
  OBVIOUS
<1> DEFINE s == <<v.writer, v.tag>>
<1>1. CASE env.source = "ADX"
  <2> DEFINE V == PointsOf(AdxResolves(node, next))
  <2>1. v \in V
    BY <1>1, SamePick DEF PointsOf
  <2>2. IsFiniteSet(V)
    BY FS_Subset DEF PointsOf, StoreOK
  <2>3. history \in FirstOf(V, 0)
    BY <1>1 DEF Histories, AdxHistory
  <2> HIDE DEF V
  <2> QED
    BY <2>1, <2>2, <2>3, UnlimitedIsAll
<1>2. CASE env.source = "InfluxDB"
  <2> DEFINE V == PointsOf({s}) \cap Since(Month)
  <2>1. v \in V /\ s \in InfluxResolves(node, TRUE)
    BY <1>2 DEF PointsOf
  <2>2. IsFiniteSet(V)
    BY FS_Subset DEF PointsOf, StoreOK
  <2>3. history \cap PointsOf({s}) \in FirstOf(V, 0)
    BY <1>2, <2>1 DEF Histories, InfluxHistory
  <2> HIDE DEF V
  <2> QED
    BY <2>1, <2>2, <2>3, UnlimitedIsAll
<1> QED
  BY <1>1, <1>2

\* Nothing that is resolved depends on anything but the store.
LEMMA SameResolution ==
    ASSUME UNCHANGED <<metadata, raw, points, now, env>>
    PROVE  /\ \A reference : ReadsBack(reference)' <=> ReadsBack(reference)
           /\ Picks' = Picks
           /\ \A node, pick : Histories(node, pick)' = Histories(node, pick)
<1>1. Picks' = Picks
  BY DEF Picks
<1>2. \A node, pick : AdxResolves(node, pick)' = AdxResolves(node, pick)
  BY DEF AdxResolves, DataSetNames
<1>3. \A node : InfluxResolves(node, TRUE)' = InfluxResolves(node, TRUE)
  BY DEF InfluxResolves
<1>4. /\ \A series : PointsOf(series)' = PointsOf(series)
      /\ Since(Month)' = Since(Month)
  BY DEF PointsOf, Since
<1>5. \A node, pick : Histories(node, pick)' = Histories(node, pick)
  BY <1>2, <1>3, <1>4 DEF Histories, AdxHistory, InfluxHistory
<1> QED
  BY <1>1, <1>2, <1>3, <1>5 DEF ReadsBack, Resolves

\* Read returns one of the latest values of the series the NodeId is resolved to.
LEMMA InvRead ==
    ASSUME Inv, NEW a \in Addresses, NEW header, NEW node, Read(a, header, node)
    PROVE  Inv'
<1>1. /\ LimiterOK' /\ PointsOK'
      /\ env' = env /\ UNCHANGED <<metadata, raw, points, now>> /\ StoreOK
  BY HandledStore, InvParts, StoreIsOK DEF Read
<1>2. ASSUME NoAnswer("read", node)
      PROVE  Inv'
  BY <1>1, <1>2, NoAnswerIs, InvNext
<1>3. ASSUME NEW pick \in Picks, NEW near \in Answers, NEW wide \in Answers, NEW latest,
             latest = IF env.source = "ADX" THEN AdxLatest(AdxResolves(node, pick))
                      ELSE InfluxLatest(InfluxResolves(node, near), InfluxResolves(node, wide)),
             NEW values \in SUBSET latest.values, values = {} => latest.values = {},
             reply' = NodeAnswer("read", node, Outcome(values), latest.series,
                                 near /\ wide, values)
      PROVE  Inv'
  <2>1. /\ reply'.op = "read" /\ reply'.node = node /\ reply'.series = latest.series
        /\ reply'.answered = (near /\ wide) /\ reply'.values = values
        /\ ReplyOK'
    BY <1>3, NodeAnswerIs
  <2>a. near \in BOOLEAN /\ wide \in BOOLEAN /\ env.source \in {"ADX", "InfluxDB"}
    BY SourceKnown, InvParts DEF Answers
  <2>2. BrowsedNodesReadBack'
    BY <2>1 DEF BrowsedNodesReadBack
  <2>3. LatestIsFresh'
    <3> DEFINE series == latest.series
    <3> SUFFICES ASSUME near, wide
                 PROVE  /\ values = {} => PointsOf(series) \cap InReach = {}
                        /\ env.source = "ADX" \/ (\E s \in Series : series = {s}) =>
                              \A p \in values, q \in PointsOf(series) : q.time <= p.time
                        /\ \A p \in values, q \in PointsOf(series) :
                              q \in Since(Hour) => p \in Since(Hour)
      BY <1>1, <2>1 DEF LatestIsFresh, PointsOf, Since, InReach
    <3>1. CASE env.source = "ADX"
      <4>1. latest.values = LatestOf(PointsOf(series)) /\ PointsOf(series) \in SUBSET points
        BY <1>3, <3>1 DEF AdxLatest, PointsOf
      <4>2. values = {} => PointsOf(series) = {}
        BY <1>1, <1>3, <4>1, LatestExists
      <4>3. \A p \in values, q \in PointsOf(series) :
              p \in points /\ q \in points /\ q.time <= p.time
        BY <1>3, <4>1 DEF LatestOf
      <4>4. \A p \in values, q \in PointsOf(series) : q \in Since(Hour) => p \in Since(Hour)
        BY <1>1, <4>3, PastTimes, RangesAssumption DEF Since
      <4> QED
        BY <4>2, <4>3, <4>4
    <3>2. CASE env.source = "InfluxDB"
      <4>1. latest = InfluxLatest(InfluxResolves(node, TRUE), InfluxResolves(node, TRUE))
        BY <1>3, <3>2
      <4>2. series = InfluxResolves(node, TRUE)
        BY <4>1 DEF InfluxLatest
      <4>3. latest.values = InfluxLatest(series, series).values
        BY <4>1, <4>2
      <4>4. \A s \in Series : series = {s} =>
              \A p \in PointsOf(series), q \in PointsOf(series) : p.writer = q.writer /\ p.tag = q.tag
        BY DEF PointsOf
      <4>5. InReach = Since(Month)
        BY <3>2 DEF InReach
      <4> HIDE DEF series
      <4> QED
        BY <1>1, <1>3, <3>2, <4>3, <4>4, <4>5, InfluxLatestIsFresh
    <3> QED
      BY <2>a, <3>1, <3>2
  <2>b. ReadIsInHistory'
    <3> SUFFICES ASSUME near, wide, NEW v \in values, ~SeveralNamespaces(<<v.writer, v.tag>>)
                 PROVE  \A next \in Picks : \A history \in Histories(node, next) : v \in history
      <4>1. \A s : SeveralNamespaces(s)' <=> SeveralNamespaces(s)
        BY <1>1 DEF SeveralNamespaces
      <4>2. Picks' = Picks /\ \A n, p : Histories(n, p)' = Histories(n, p)
        BY <1>1, SameResolution
      <4> QED
        BY <2>1, <4>1, <4>2 DEF ReadIsInHistory
    <3>1. CASE env.source = "ADX"
      <4>1. v \in points /\ <<v.writer, v.tag>> \in AdxResolves(node, pick)
        BY <1>3, <3>1 DEF AdxLatest, LatestOf, PointsOf
      <4> QED
        BY <1>1, <3>1, <4>1, InEveryHistory
    <3>2. CASE env.source = "InfluxDB"
      <4> DEFINE series == InfluxResolves(node, TRUE)
      <4>1. v \in InfluxLatest(series, series).values
        BY <1>3, <3>2
      <4> HIDE DEF series
      <4>2. v \in PointsOf(series) /\ v \in Since(Month)
        BY <1>1, <4>1, InfluxLatestIsFresh
      <4>3. v \in points /\ <<v.writer, v.tag>> \in series
        BY <4>2 DEF PointsOf
      <4> QED
        BY <1>1, <3>2, <4>2, <4>3, InEveryHistory DEF series
    <3> QED
      BY <2>a, <3>1, <3>2
  <2>4. ReadStaysInNamespace'
    <3>1. PICK answered \in BOOLEAN :
            /\ near /\ wide => answered
            /\ \A v \in values :
                  <<v.writer, v.tag>> \in IF env.source = "ADX" THEN AdxResolves(node, pick)
                                          ELSE InfluxResolves(node, answered)
      <4>1. CASE env.source = "ADX"
        BY <1>3, <4>1 DEF AdxLatest, LatestOf, PointsOf
      <4>2. CASE env.source # "ADX"
        <5>1. \A series, range : \A v \in LatestPerSeries(series, range) : <<v.writer, v.tag>> \in series
          BY DEF LatestPerSeries, LatestOf, PointsOf
        <5>2. PICK answered \in {near, wide} :
                \A v \in latest.values : <<v.writer, v.tag>> \in InfluxResolves(node, answered)
          BY <1>3, <4>2, <5>1 DEF InfluxLatest
        <5> QED
          BY <2>a, <4>2, <5>2
      <4> QED
        BY <4>1, <4>2
    <3> QED
      BY <1>1, <2>1, <3>1, ValuesInNamespace, SourceKnown, InvParts
  <2> QED
    BY <1>1, <2>1, <2>2, <2>3, <2>b, <2>4, InvNext DEF AnswerOK
<1>4. ASSUME ~NoAnswer("read", node)
      PROVE  Inv'
  <2>1. PICK pick \in Picks, near \in Answers, wide \in Answers :
          LET latest == IF env.source = "ADX" THEN AdxLatest(AdxResolves(node, pick))
                        ELSE InfluxLatest(InfluxResolves(node, near), InfluxResolves(node, wide))
              Reply(values) == NodeAnswer("read", node, Outcome(values), latest.series,
                                          near /\ wide, values)
          IN \/ latest.values = {} /\ reply' = Reply({})
             \/ \E p \in latest.values : reply' = Reply({p})
    BY <1>4 DEF Read
  <2> DEFINE latest == IF env.source = "ADX" THEN AdxLatest(AdxResolves(node, pick))
                       ELSE InfluxLatest(InfluxResolves(node, near), InfluxResolves(node, wide))
  <2>2. PICK values \in SUBSET latest.values :
          /\ values = {} => latest.values = {}
          /\ reply' = NodeAnswer("read", node, Outcome(values), latest.series, near /\ wide, values)
    <3>1. {} \in SUBSET latest.values /\ \A p \in latest.values : {p} \in SUBSET latest.values
      OBVIOUS
    <3> QED
      BY <2>1, <3>1
  <2> QED
    BY <1>3, <2>2
<1> QED
  BY <1>2, <1>4

\* Historyread returns values of the series the NodeId is resolved to.
LEMMA InvHistoryRead ==
    ASSUME Inv, NEW a \in Addresses, NEW header, NEW node, NEW limit \in Nat,
           HistoryRead(a, header, node, limit)
    PROVE  Inv'
<1>1. /\ LimiterOK' /\ PointsOK'
      /\ env' = env /\ UNCHANGED <<metadata, raw, points, now>> /\ StoreOK
  BY HandledStore, InvParts, StoreIsOK DEF HistoryRead
<1>2. ASSUME NoAnswer("historyread", node)
      PROVE  Inv'
  BY <1>1, <1>2, NoAnswerIs, InvNext
<1>3. ASSUME NEW pick \in Picks, NEW answered \in Answers, NEW series,
             series = IF env.source = "ADX" THEN AdxResolves(node, pick)
                      ELSE InfluxResolves(node, answered),
             NEW values \in IF env.source = "ADX" THEN AdxHistory(series, limit)
                            ELSE InfluxHistory(series, limit),
             reply' = NodeAnswer("historyread", node, Outcome(values), series,
                                 answered, values)
      PROVE  Inv'
  <2>1. /\ reply'.op = "historyread" /\ reply'.node = node /\ reply'.series = series
        /\ reply'.answered = answered /\ reply'.values = values
        /\ ReplyOK'
    BY <1>3, NodeAnswerIs
  <2>2. BrowsedNodesReadBack' /\ LatestIsFresh' /\ ReadIsInHistory'
    BY <2>1 DEF BrowsedNodesReadBack, LatestIsFresh, ReadIsInHistory
  <2>3. values \in SUBSET PointsOf(series)
    BY <1>3 DEF AdxHistory, InfluxHistory, FirstOf, AnyOf
  <2>4. answered \in BOOLEAN
    BY DEF Answers
  <2>5. ReadStaysInNamespace'
    <3>1. \A v \in values : <<v.writer, v.tag>> \in series
      BY <2>3 DEF PointsOf
    <3> QED
      BY <1>1, <1>3, <2>1, <2>4, <3>1, ValuesInNamespace, SourceKnown, InvParts
  <2> QED
    BY <1>1, <2>1, <2>2, <2>5, InvNext DEF AnswerOK
<1>4. ASSUME ~NoAnswer("historyread", node)
      PROVE  Inv'
  <2>1. PICK pick \in Picks, answered \in Answers :
          LET series == IF env.source = "ADX" THEN AdxResolves(node, pick)
                        ELSE InfluxResolves(node, answered)
          IN \E values \in (IF env.source = "ADX" THEN AdxHistory(series, limit)
                            ELSE InfluxHistory(series, limit)) :
                reply' = NodeAnswer("historyread", node, Outcome(values), series,
                                    answered, values)
    BY <1>4 DEF HistoryRead
  <2> QED
    BY <1>3, <2>1
<1> QED
  BY <1>2, <1>4

LEMMA InvBrowse ==
    ASSUME Inv, NEW a \in Addresses, NEW header, Browse(a, header)
    PROVE  Inv'
<1>1. /\ LimiterOK' /\ PointsOK'
      /\ env' = env /\ UNCHANGED <<metadata, raw, points, now>> /\ StoreOK
  BY HandledStore, InvParts, StoreIsOK DEF Browse
<1>2. ASSUME NEW status \in Failures, reply' = Response("browse", 200, status, {})
      PROVE  Inv'
  BY <1>1, <1>2, EmptyResponse, InvNext DEF Ops, Failures
<1>3. ASSUME NEW tags \in TagLists,
             reply' = Response("browse", 200, Outcome(tags), {Reference(b) : b \in tags})
      PROVE  Inv'
  <2>1. /\ reply'.op = "browse" /\ reply'.http = 200 /\ reply'.status = Outcome(tags)
        /\ reply'.values = {Reference(b) : b \in tags}
    BY <1>3 DEF Response
  <2>2. ReplyOK'
    BY <2>1 DEF ReplyOK, Ops, Outcome
  <2>3. LatestIsFresh' /\ ReadIsInHistory' /\ ReadStaysInNamespace'
    BY <2>1 DEF LatestIsFresh, ReadIsInHistory, ReadStaysInNamespace, ReadOfNamespace
  <2>4. BrowsedNodesReadBack'
    <3> SUFFICES ASSUME NEW b \in tags,
                        Reference(b).nodeId.nsu # DefaultNamespace,
                        ~(Cardinality(raw[b.series[1]]) > 1),
                        ~(/\ env.source = "InfluxDB" /\ StartsWithNsu(Reference(b).nodeId)
                          /\ ParseStringIdentifier(Reference(b).nodeId) # Reference(b).browseName)
                 PROVE  ReadsBack(Reference(b))
      <4>1. \A b \in tags : Reference(b).series = b.series
        BY DEF Reference
      <4> QED
        BY <1>1, <2>1, <4>1, SameResolution DEF BrowsedNodesReadBack, SeveralNamespaces
    <3>0. Reference(b).series = b.series
      BY DEF Reference
    <3>1. env.source \in {"ADX", "InfluxDB"}
      BY SourceKnown, InvParts
    <3>2. CASE env.source = "ADX"
      <4>1. PICK pick \in Picks : b \in AdxBrowseTags(pick)
        BY <3>2 DEF TagLists
      <4>2. \A next \in Picks : b.series \in AdxResolves(Reference(b).nodeId, next)
        BY <1>1, <4>1, AdxReadsBack
      <4> QED
        BY <3>0, <3>2, <4>2 DEF ReadsBack, Resolves
    <3>3. CASE env.source = "InfluxDB"
      <4>1. \/ b \in InfluxUnscopedTags
            \/ \E answered \in BOOLEAN, lost \in SUBSET WriterSet :
                  b \in InfluxBrowseTags(answered, lost)
        BY <3>3 DEF TagLists
      <4>2. b.series \in InfluxResolves(Reference(b).nodeId, TRUE)
        BY <1>1, <3>3, <4>1, InfluxReadsBack
      <4> QED
        BY <3>0, <3>3, <4>2 DEF ReadsBack, Resolves
    <3> QED
      BY <3>1, <3>2, <3>3
  <2> QED
    BY <1>1, <2>2, <2>3, <2>4, InvNext DEF AnswerOK
<1> QED
  BY <1>2, <1>3 DEF Browse

(***************************************************************************)
(* The other steps.                                                        *)
(***************************************************************************)
LEMMA NoReplyIs ==
    ASSUME reply' = NoReply
    PROVE  ReplyOK' /\ AnswerOK'
BY EmptyResponse DEF NoReply

LEMMA InvInit == Init => Inv
<1> SUFFICES ASSUME Init PROVE Inv
  OBVIOUS
<1>1. LimiterOK
  BY LimiterInit
<1>2. PointsOK
  BY FS_EmptySet DEF Init, PointsOK
<1>3. reply.op = "none" /\ reply.http = 0 /\ reply.status = "none" /\ reply.values = {}
  BY DEF Init, NoReply, Response
<1>4. ReplyOK
  BY <1>3 DEF ReplyOK
<1>5. AnswerOK
  BY <1>3 DEF AnswerOK, BrowsedNodesReadBack, LatestIsFresh, ReadIsInHistory, ReadStaysInNamespace,
              ReadOfNamespace
<1> QED
  BY <1>1, <1>2, <1>4, <1>5, InvParts

LEMMA InvTick ==
    ASSUME Inv, Tick
    PROVE  Inv'
<1>1. LimiterOK /\ PointsOK /\ now \in Nat
  BY InvParts DEF LimiterOK, Times
<1>2. /\ now' = now + 1 /\ now' \in Times /\ now <= now'
      /\ UNCHANGED <<env, limiterVars>> /\ UNCHANGED <<metadata, raw, points>>
  BY <1>1, TimesAssumption DEF Tick, Times
<1>3. LimiterOK'
  BY <1>1, <1>2, LimiterUntouched
<1>4. PointsOK'
  <2>1. \A p \in points : p.time <= now'
    BY <1>1, <1>2 DEF PointsOK, Point, Times
  <2> QED
    BY <1>1, <1>2, <2>1 DEF PointsOK
<1> QED
  BY <1>3, <1>4, NoReplyIs, InvNext DEF Tick

LEMMA InvReport ==
    ASSUME Inv, NEW w \in WriterSet, NEW tag \in Tags, Report(w, tag)
    PROVE  Inv'
<1>1. LimiterOK /\ PointsOK
  BY InvParts
<1>2. /\ points' = points \cup {[writer |-> w, tag |-> tag, time |-> now]}
      /\ UNCHANGED <<metadata, raw, now>> /\ UNCHANGED <<env, limiterVars>>
      /\ now \in Times /\ now' \in Times /\ now <= now'
  BY <1>1 DEF Report, LimiterOK, Times
<1>3. LimiterOK'
  BY <1>1, <1>2, LimiterUntouched
<1>4. PointsOK'
  <2>1. IsFiniteSet(points')
    BY <1>1, <1>2, FS_AddElement DEF PointsOK
  <2>2. points' \subseteq Point /\ \A p \in points' : p.time <= now'
    BY <1>1, <1>2 DEF PointsOK, Point
  <2> QED
    BY <1>1, <1>2, <2>1, <2>2 DEF PointsOK
<1> QED
  BY <1>3, <1>4, NoReplyIs, InvNext DEF Report

LEMMA InvReplenish ==
    ASSUME Inv, NEW a \in Addresses, Replenish(a)
    PROVE  Inv'
<1>1. LimiterOK' /\ PointsOK'
  BY LimiterReplenish, InvParts DEF Replenish, PointsOK, storeVars
<1> QED
  BY <1>1, NoReplyIs, InvNext DEF Replenish

\* A request that is refused changes the response alone.
LEMMA InvRefused ==
    ASSUME Inv, NEW a, NEW header, NEW op \in Ops,
           Challenge(a, op, header) \/ TooManyRequests(a, op, header)
    PROVE  Inv'
<1>1. PICK http \in {401, 429} :
        reply' = Response(op, http, "none", {}) /\ UNCHANGED <<storeVars, env, limiterVars>>
  BY DEF Challenge, TooManyRequests
<1>2. LimiterOK /\ PointsOK
  BY InvParts
<1>3. LimiterOK' /\ PointsOK'
  <2>1. now' = now /\ now' \in Times /\ now <= now' /\ UNCHANGED <<env, limiterVars>>
    BY <1>1, <1>2 DEF storeVars, LimiterOK, Times
  <2> QED
    BY <1>1, <1>2, <2>1, LimiterUntouched DEF PointsOK, storeVars
<1>4. ReplyOK' /\ AnswerOK'
  BY <1>1, EmptyResponse
<1> QED
  BY <1>3, <1>4, InvNext

LEMMA InvBadRequest ==
    ASSUME Inv, NEW a \in Addresses, NEW header, NEW op \in Ops, BadRequest(a, header, op)
    PROVE  Inv'
<1>1. LimiterOK' /\ PointsOK'
  BY HandledStore, InvParts DEF BadRequest
<1>2. ReplyOK' /\ AnswerOK'
  BY EmptyResponse DEF BadRequest
<1> QED
  BY <1>1, <1>2, InvNext

LEMMA InvStep == Inv /\ [Next]_vars => Inv'
<1> SUFFICES ASSUME Inv, [Next]_vars PROVE Inv'
  OBVIOUS
<1>1. ASSUME NEW a \in Addresses, NEW header, Request(a, header)
      PROVE  Inv'
  <2>1. CASE \E op \in Ops : Challenge(a, op, header) \/ TooManyRequests(a, op, header)
    BY <2>1, InvRefused
  <2>2. CASE \E op \in Ops : BadRequest(a, header, op)
    BY <2>2, InvBadRequest
  <2>3. CASE Browse(a, header)
    BY <2>3, InvBrowse
  <2>4. CASE \E node \in NodeIds : Read(a, header, node)
    BY <2>4, InvRead
  <2>5. CASE \E node \in NodeIds, n \in 0..1 : HistoryRead(a, header, node, n)
    BY <2>5, InvHistoryRead
  <2> QED
    BY <1>1, <2>1, <2>2, <2>3, <2>4, <2>5 DEF Request
<1>2. ASSUME NEW a \in env.clients, Replenish(a) \/ \E header \in Headers : Request(a, header)
      PROVE  Inv'
  <2>1. a \in Addresses
    BY ScenariosAssumption, InvParts DEF LimiterOK
  <2> QED
    BY <1>1, <1>2, <2>1, InvReplenish
<1>3. CASE UNCHANGED vars
  <2>1. LimiterOK /\ PointsOK /\ ReplyOK /\ AnswerOK /\ UNCHANGED <<metadata, raw, points, now>>
    BY <1>3, InvParts DEF vars, storeVars
  <2>2. LimiterOK' /\ PointsOK' /\ ReplyOK'
    <3>1. now' = now /\ now' \in Times /\ now <= now' /\ UNCHANGED <<env, limiterVars>>
      BY <1>3, <2>1 DEF vars, LimiterOK, Times
    <3> QED
      BY <1>3, <2>1, <3>1, LimiterUntouched DEF PointsOK, ReplyOK, vars
  <2>3. AnswerOK'
    <3>1. /\ reply' = reply /\ env' = env /\ UNCHANGED <<metadata, raw, points, now>>
          /\ BrowsedNodesReadBack /\ LatestIsFresh /\ ReadIsInHistory /\ ReadStaysInNamespace
      BY <1>3, <2>1 DEF vars, AnswerOK
    <3>2. \A s : SeveralNamespaces(s)' <=> SeveralNamespaces(s)
      BY <3>1 DEF SeveralNamespaces
    <3>3. /\ \A r : ReadsBack(r)' <=> ReadsBack(r)
          /\ Picks' = Picks /\ \A n, p : Histories(n, p)' = Histories(n, p)
      BY <3>1, SameResolution
    <3>4. BrowsedNodesReadBack'
      BY <3>1, <3>2, <3>3 DEF BrowsedNodesReadBack
    <3>5. LatestIsFresh'
      BY <3>1 DEF LatestIsFresh, InReach, PointsOf, Since
    <3>6. ReadIsInHistory'
      BY <3>1, <3>2, <3>3 DEF ReadIsInHistory
    <3>7. ReadStaysInNamespace'
      BY <3>1 DEF ReadStaysInNamespace, ReadOfNamespace, Unambiguous, RecordedFor, DataSetNames
    <3> QED
      BY <3>4, <3>5, <3>6, <3>7 DEF AnswerOK
  <2> QED
    BY <2>2, <2>3, InvNext
<1> QED
  BY <1>2, <1>3, InvTick, InvReport DEF Next

(***************************************************************************)
(* The properties.                                                         *)
(***************************************************************************)
\* Every reachable state satisfies the inductive invariant.
THEOREM Invariance == Spec => []Inv
<1>1. Inv /\ [Next]_vars => Inv'
  BY InvStep
<1> QED
  BY InvInit, <1>1, PTL DEF Spec

\* Every variable keeps its type, and a response its status.
THEOREM TypeCorrect == Spec => []TypeOK
<1>1. Inv => TypeOK
  BY DEF Inv
<1> QED
  BY Invariance, <1>1, PTL

\* Whatever addresses send and in whatever order, the permits an address has left
\* and the requests it was let through with since its window began make up its
\* limit: no refused request ever used a permit, and none was used twice.
THEOREM PermitsCounted == Spec => []PermitsCountAnswers
<1>1. Inv => PermitsCountAnswers
  BY DEF Inv
<1> QED
  BY Invariance, <1>1, PTL

\* However requests and replenishments fall, no span of a window's length holds more
\* than twice the limit of requests of one address.
THEOREM TwicePerWindow == Spec => []AtMostTwicePerWindow
<1>1. Inv => AtMostTwicePerWindow
  BY DEF Inv
<1> QED
  BY Invariance, <1>1, PTL

\* Whatever the metadata, and whatever else the stores hold, a series that browse lists
\* is found again under the NodeId it was listed with, where the metadata records a
\* namespace for it.
THEOREM BrowsedReadBack == Spec => []BrowsedNodesReadBack
<1>1. Inv => BrowsedNodesReadBack
  BY DEF Inv
<1> QED
  BY Invariance, <1>1, PTL

\* Read returns the newest value of its node in ADX, and of a single series in InfluxDB;
\* of several it returns one of the narrow range if there is one.
THEOREM LatestFresh == Spec => []LatestIsFresh
<1>1. Inv => LatestIsFresh
  BY DEF Inv
<1> QED
  BY Invariance, <1>1, PTL

\* For any ranges, the narrow one within the wide one, what read returns is in the
\* history of its node.
THEOREM ReadInHistory == Spec => []ReadIsInHistory
<1>1. Inv => ReadIsInHistory
  BY DEF Inv
<1> QED
  BY Invariance, <1>1, PTL

\* A NodeId with a namespace that begins no other one yields values of exactly that
\* namespace, in InfluxDB if the metadata has it and can be asked.
THEOREM StaysInNamespace == Spec => []ReadStaysInNamespace
<1>1. Inv => ReadStaysInNamespace
  BY DEF Inv
<1> QED
  BY Invariance, <1>1, PTL
=============================================================================
