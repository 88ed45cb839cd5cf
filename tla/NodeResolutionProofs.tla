------------------------ MODULE NodeResolutionProofs ------------------------
(***************************************************************************)
(* What holds of the values and the series that the data sources find, in  *)
(* any store: for any writers, metadata, namespaces and points.            *)
(***************************************************************************)
EXTENDS NodeResolution, FiniteSetTheorems, TLAPS

\* A store: its points are of its writers and tags and of the past.
StoreOK ==
    /\ now \in Nat /\ IsFiniteSet(points)
    /\ \A p \in points : /\ <<p.writer, p.tag>> \in Series
                         /\ p.time \in Nat /\ p.time <= now
    /\ \A w \in WriterSet : IsSequence(metadata[w]) /\ IsFiniteSet(raw[w])

(***************************************************************************)
(* Values.                                                                 *)
(***************************************************************************)
LEMMA LeastElement ==
    ASSUME NEW S \in SUBSET Nat, S # {}
    PROVE  \E n \in S : \A m \in S : n <= m
<1> DEFINE R == OpToRel(<, Nat)
<1>1. PICK n \in S : \A m \in S : <<m, n>> \notin R
  <2>1. IsWellFoundedOn(R, Nat)
    BY NatLessThanWellFounded
  <2> HIDE DEF R
  <2> QED
    BY <2>1, WFMin
<1>2. \A m \in S : ~(m < n)
  BY <1>1 DEF OpToRel
<1> QED
  BY <1>2

LEMMA PastTimes ==
    ASSUME StoreOK
    PROVE  now \in Nat /\ \A p \in points : p.time \in Nat /\ p.time <= now
BY DEF StoreOK

\* Among values of the past there is a latest one.
LEMMA LatestExists ==
    ASSUME StoreOK, NEW V \in SUBSET points, V # {}
    PROVE  LatestOf(V) # {}
<1> DEFINE ages == {now - p.time : p \in V}
<1>1. ages \in SUBSET Nat /\ ages # {}
  BY PastTimes
<1>2. PICK n \in ages : \A m \in ages : n <= m
  <2> HIDE DEF ages
  <2> QED
    BY <1>1, LeastElement
<1>3. PICK p \in V : n = now - p.time
  BY <1>2
<1>4. \A q \in V : now - p.time <= now - q.time
  BY <1>2, <1>3
<1> QED
  BY <1>4, PastTimes DEF LatestOf

\* The latest value of each series in a range is its latest value of all.
LEMMA LatestIsNewest ==
    ASSUME StoreOK, NEW series, NEW range \in Nat, NEW p \in LatestPerSeries(series, range)
    PROVE  /\ p \in Since(range) /\ p \in PointsOf(series)
           /\ \A q \in points : q.writer = p.writer /\ q.tag = p.tag => q.time <= p.time
<1>1. PICK s \in series : p \in LatestOf(PointsOf({s}) \cap Since(range))
  BY DEF LatestPerSeries
<1>2. p \in points /\ <<p.writer, p.tag>> = s /\ p \in Since(range)
  BY <1>1 DEF LatestOf, PointsOf
<1>3. ASSUME NEW q \in points, q.writer = p.writer, q.tag = p.tag
      PROVE  q.time <= p.time
  <2>1. q \in PointsOf({s})
    BY <1>2, <1>3 DEF PointsOf
  <2>2. CASE q \in Since(range)
    BY <1>1, <2>1, <2>2 DEF LatestOf
  <2>3. CASE q \notin Since(range)
    BY <1>2, <2>3, PastTimes DEF Since
  <2> QED
    BY <2>2, <2>3
<1> QED
  BY <1>1, <1>2, <1>3 DEF PointsOf

\* A series with a value in the range has a latest one there.
LEMMA LatestInRange ==
    ASSUME StoreOK, NEW series, NEW range, NEW q \in PointsOf(series), q \in Since(range)
    PROVE  LatestPerSeries(series, range) # {}
<1> DEFINE s == <<q.writer, q.tag>>
           V == PointsOf({s}) \cap Since(range)
<1>1. s \in series /\ q \in V /\ V \in SUBSET points
  BY DEF PointsOf
<1>2. LatestOf(V) # {}
  BY <1>1, LatestExists
<1>3. PICK v : v \in LatestOf(PointsOf({s}) \cap Since(range))
  BY <1>2
<1> HIDE DEF s
<1>4. v \in LatestPerSeries(series, range)
  BY <1>1, <1>3, Zenon DEF LatestPerSeries
<1> QED
  BY <1>4

\* ReadLatest of InfluxDB: a value of the narrow range if any series has one, of its
\* own series the newest, and none only if there is none in the wide range.
LEMMA InfluxLatestIsFresh ==
    ASSUME StoreOK, NEW series
    PROVE  LET values == InfluxLatest(series, series).values
           IN /\ values = {} => PointsOf(series) \cap Since(Month) = {}
              /\ \A p \in values :
                    /\ p \in PointsOf(series) /\ p \in Since(Month)
                    /\ \A q \in PointsOf(series) :
                          /\ p.writer = q.writer /\ p.tag = q.tag => q.time <= p.time
                          /\ q \in Since(Hour) => p \in Since(Hour)
<1> DEFINE values == InfluxLatest(series, series).values
<1>1. \A q \in PointsOf(series) : q \in points
  BY DEF PointsOf
<1>2. Hour \in Nat /\ Month \in Nat /\ \A p \in Since(Hour) : p \in Since(Month)
  <2>1. ASSUME NEW p \in Since(Hour)
        PROVE  p \in Since(Month)
    <3>1. p \in points /\ now - p.time <= Hour /\ now - p.time \in Int
      BY PastTimes DEF Since
    <3>2. now - p.time <= Month
      BY <3>1, RangesAssumption
    <3> QED
      BY <3>1, <3>2 DEF Since
  <2> QED
    BY <2>1, RangesAssumption
<1>3. CASE LatestPerSeries(series, Hour) # {}
  <2>1. values = LatestPerSeries(series, Hour)
    BY <1>3 DEF InfluxLatest
  <2> HIDE DEF values
  <2> QED
    BY <1>1, <1>2, <1>3, <2>1, LatestIsNewest DEF values
<1>4. CASE LatestPerSeries(series, Hour) = {}
  <2>1. values = LatestPerSeries(series, Month)
    BY <1>4 DEF InfluxLatest
  <2>2. \A q \in PointsOf(series) : q \notin Since(Hour)
    BY <1>4, LatestInRange
  <2>3. values = {} => PointsOf(series) \cap Since(Month) = {}
    BY <2>1, LatestInRange
  <2> HIDE DEF values
  <2> QED
    BY <1>1, <1>2, <2>1, <2>2, <2>3, LatestIsNewest DEF values
<1> QED
  BY <1>3, <1>4

\* Without a limit nothing is cut off.
LEMMA UnlimitedIsAll ==
    ASSUME NEW V, IsFiniteSet(V), NEW H \in FirstOf(V, 0)
    PROVE  H = V
<1>1. H \in SUBSET V /\ Cardinality(H) = Cardinality(V)
  BY DEF FirstOf, AnyOf
<1> QED
  BY <1>1, FS_Subset

(***************************************************************************)
(* Series.                                                                 *)
(***************************************************************************)
\* A namespace that is taken from a DataSetName occurs in it.
LEMMA NamespaceOccurs ==
    ASSUME NEW text, NamespaceUriFromDataSetName(text) # Null
    PROVE  text # Null /\ Has(text, NamespaceUriFromDataSetName(text))
BY DEF NamespaceUriFromDataSetName, FirstUri, Has

\* What ADX resolves a NodeId with a namespace to has the NodeId for its name, or the
\* tag and the namespace.
LEMMA AdxInNamespace ==
    ASSUME NEW node, node # Null, StartsWithNsu(node),
           NEW pick \in Picks, NEW s \in AdxResolves(node, pick)
    PROVE  \/ node \in DataSetNames(s[1])
           \/ /\ s[2] = node.name
              /\ \/ \E d \in DataSetNames(s[1]) : Has(d, node.nsu)
                 \/ node.nsu \in raw[s[1]]
<1>1. s[1] \in WriterSet /\ s[2] \in Tags /\ node.nsu # Null
  BY DEF AdxResolves, Series, StartsWithNsu
<1>2. PICK d \in DataSetNames(s[1]) :
        d = node \/ (s[2] = TagName(node) /\ NamespaceMatches(node, d, pick[s[1]]))
  BY DEF AdxResolves
<1>3. TagName(node) \in {Null, node.name}
  BY DEF TagName, ParseStringIdentifier
<1>4. ASSUME NamespaceMatches(node, d, pick[s[1]])
      PROVE  Has(d, node.nsu) \/ node.nsu \in raw[s[1]]
  <2>1. Has(d, node.nsu) \/ EffNs(d, pick[s[1]]) = node.nsu
    BY <1>1, <1>4 DEF NamespaceMatches, NamespaceFromNodeId
  <2>2. CASE d # Null /\ FirstUri(d) = node.nsu
    BY <2>2 DEF FirstUri, Has
  <2>3. CASE pick[s[1]] = node.nsu
    BY <1>1, <2>3 DEF Picks
  <2> QED
    BY <1>1, <2>1, <2>2, <2>3 DEF EffNs, OrElse
<1> QED
  BY <1>1, <1>2, <1>3, <1>4, TagsAssumption

\* What InfluxDB resolves a NodeId with a namespace to has the tag, and the namespace
\* unless no writer has it or the writers' query failed.
LEMMA InfluxInNamespace ==
    ASSUME NEW node, StartsWithNsu(node),
           NEW answered \in BOOLEAN, NEW s \in InfluxResolves(node, answered)
    PROVE  /\ s[2] = node.name
           /\ \/ \E d \in DataSetNames(s[1]) : Has(d, node.nsu)
              \/ ~answered
              \/ \A w \in WriterSet : ~\E i \in DOMAIN metadata[w] : Has(metadata[w][i], node.nsu)
<1> DEFINE ofNamespace == {w \in WriterSet : answered /\ \E i \in DOMAIN metadata[w] :
                                                 Has(metadata[w][i], node.nsu)}
<1>1. /\ s \in Series /\ s[2] = ParseStringIdentifier(node)
      /\ ofNamespace = {} \/ s[1] \in ofNamespace
  BY DEF InfluxResolves, NamespaceFromNodeId
<1>2. s[2] = node.name
  BY <1>1, TagsAssumption DEF ParseStringIdentifier, Series
<1>3. CASE s[1] \in ofNamespace
  BY <1>2, <1>3 DEF DataSetNames, ToSet
<1> QED
  BY <1>1, <1>2, <1>3

\* The DataSetNames of a writer are those of its metadata, if there are any.
LEMMA NamesOfMetadata ==
    ASSUME NEW w, NEW d \in DataSetNames(w), d # Null
    PROVE  \E i \in DOMAIN metadata[w] : metadata[w][i] = d
BY DEF DataSetNames, ToSet

LEMMA SyntheticNodeId ==
    ASSUME NEW tag, NEW namespace, namespace # Null
    PROVE  LET node == BuildExpandedNodeId(tag, namespace)
           IN  /\ StartsWithNsu(node) /\ NamespaceFromNodeId(node) = namespace
               /\ ParseStringIdentifier(node) = tag /\ TagName(node) = tag
BY DEF BuildExpandedNodeId, StartsWithNsu, NamespaceFromNodeId, ParseStringIdentifier, TagName

LEMMA AtMostOne ==
    ASSUME NEW S, IsFiniteSet(S), ~(Cardinality(S) > 1), NEW x \in S, NEW y \in S
    PROVE  x = y
<1>1. Cardinality(S) = 1
  BY FS_EmptySet, FS_CardinalityType
<1> QED
  BY <1>1, FS_Singleton

\* A series that ADX lists is found again, whatever namespaces the next query picks, if
\* it has a namespace at all and its Subject has one raw namespace at most.
LEMMA AdxReadsBack ==
    ASSUME StoreOK, NEW pick \in Picks, NEW next \in Picks, NEW b \in AdxBrowseTags(pick),
           ~(Cardinality(raw[b.series[1]]) > 1),
           Reference(b).nodeId.nsu # DefaultNamespace
    PROVE  b.series \in AdxResolves(Reference(b).nodeId, next)
<1>0. PICK p \in points :
        b \in {BrowseTag(<<p.writer, p.tag>>, OrElse(NamespaceUriFromDataSetName(d), pick[p.writer]), d) :
                 d \in DataSetNames(p.writer)}
  BY DEF AdxBrowseTags
<1>1. PICK d \in DataSetNames(p.writer) :
        b = BrowseTag(<<p.writer, p.tag>>, OrElse(NamespaceUriFromDataSetName(d), pick[p.writer]), d)
  BY <1>0
<1> DEFINE s == <<p.writer, p.tag>>
           node == Reference(b).nodeId
           namespace == OrElse(NamespaceUriFromDataSetName(d), pick[p.writer])
<1>2. /\ s \in Series /\ s[1] = p.writer /\ s[2] = p.tag /\ p.writer \in WriterSet
  BY DEF StoreOK, Series
<1>3. b.tag = p.tag /\ b.dataSetName = d /\ b.namespace = namespace /\ b.series = s
  BY <1>1 DEF BrowseTag
<1>4. ~(Cardinality(raw[p.writer]) > 1)
  BY <1>3
<1>5. CASE d # Null /\ (d.urn # Null \/ d.nsu # Null)
  <2>1. node = d
    BY <1>3, <1>5 DEF Reference
  <2> QED
    BY <1>2, <1>3, <2>1 DEF AdxResolves
<1>6. CASE ~(d # Null /\ (d.urn # Null \/ d.nsu # Null))
  <2>1. node = BuildExpandedNodeId(p.tag, OrElse(namespace, DefaultNamespace))
    BY <1>3, <1>6 DEF Reference
  <2>2. namespace # Null /\ node = BuildExpandedNodeId(p.tag, namespace)
    BY <2>1 DEF OrElse, BuildExpandedNodeId
  <2>3. NamespaceMatches(node, d, next[p.writer])
    <3>1. NamespaceFromNodeId(node) = namespace
      BY <2>2, SyntheticNodeId
    <3>2. CASE NamespaceUriFromDataSetName(d) # Null
      BY <3>1, <3>2, NamespaceOccurs DEF OrElse, NamespaceMatches
    <3>3. CASE NamespaceUriFromDataSetName(d) = Null
      <4>1. namespace = pick[p.writer]
        BY <3>3 DEF OrElse
      <4>2. pick[p.writer] \in raw[p.writer] /\ next[p.writer] \in raw[p.writer]
        BY <1>2, <2>2, <4>1 DEF Picks
      <4>3. pick[p.writer] = next[p.writer]
        BY <1>2, <1>4, <4>2, AtMostOne DEF StoreOK
      <4>4. d = Null \/ FirstUri(d) = Null
        BY <1>6, <3>3 DEF NamespaceUriFromDataSetName
      <4> QED
        BY <3>1, <4>1, <4>3, <4>4 DEF NamespaceMatches, EffNs, OrElse
    <3> QED
      BY <3>2, <3>3
  <2>4. TagName(node) = p.tag
    BY <2>2, SyntheticNodeId
  <2> HIDE DEF node, namespace
  <2> QED
    BY <1>2, <1>3, <2>3, <2>4 DEF AdxResolves, node
<1> QED
  BY <1>5, <1>6

\* The DataSetName that InfluxDB hands out for a writer is one of its metadata.
LEMMA NewestIsName ==
    ASSUME StoreOK, NEW w \in WriterSet, NEW answered, NewestName(w, answered) # Null
    PROVE  \E i \in DOMAIN metadata[w] : metadata[w][i] = NewestName(w, answered)
<1>1. /\ metadata[w] # <<>> /\ NewestName(w, answered) = metadata[w][Len(metadata[w])]
      /\ metadata[w] \in Seq(ToSet(metadata[w]))
  BY DEF NewestName, Last, StoreOK, IsSequence
<1> QED
  BY <1>1

\* A series that InfluxDB lists is found again, if it has a namespace at all and its
\* DataSetName, where that is handed out, does not end with another name.
LEMMA InfluxReadsBack ==
    ASSUME StoreOK,
           NEW b, \/ b \in InfluxUnscopedTags
                  \/ \E answered \in BOOLEAN, lost \in SUBSET WriterSet :
                        b \in InfluxBrowseTags(answered, lost),
           Reference(b).nodeId.nsu # DefaultNamespace,
           ~(/\ StartsWithNsu(Reference(b).nodeId)
             /\ ParseStringIdentifier(Reference(b).nodeId) # Reference(b).browseName)
    PROVE  b.series \in InfluxResolves(Reference(b).nodeId, TRUE)
<1>1. CASE b \in InfluxUnscopedTags
  BY <1>1 DEF InfluxUnscopedTags, BrowseTag, Reference, OrElse, BuildExpandedNodeId
<1>2. ASSUME NEW answered \in BOOLEAN, NEW lost \in SUBSET WriterSet,
             b \in InfluxBrowseTags(answered, lost)
      PROVE  b.series \in InfluxResolves(Reference(b).nodeId, TRUE)
  <2>1. PICK l \in (1..Len(Writers)) \X Tags :
          b = BrowseTag(<<Writers[l[1]], l[2]>>,
                        NamespaceUriFromDataSetName(NewestName(Writers[l[1]], answered)),
                        NewestName(Writers[l[1]], answered))
    BY <1>2 DEF InfluxBrowseTags
  <2> DEFINE w == Writers[l[1]]
             name == NewestName(w, answered)
             namespace == NamespaceUriFromDataSetName(name)
             node == Reference(b).nodeId
             s == <<w, l[2]>>
  <2>2. w \in WriterSet /\ l[2] \in Tags
    BY WritersAssumption DEF IsSequence, WriterSet, ToSet
  <2>3. s \in Series /\ s[1] = w /\ s[2] = l[2]
    BY <2>2 DEF Series
  <2>4. b.tag = l[2] /\ b.dataSetName = name /\ b.namespace = namespace /\ b.series = s
    BY <2>1 DEF BrowseTag
  <2>5. Reference(b).browseName = l[2]
    BY <2>4 DEF Reference
  <2>6. name # Null
    BY <2>4 DEF Reference, OrElse, BuildExpandedNodeId, NamespaceUriFromDataSetName
  <2>7. PICK i \in DOMAIN metadata[w] : metadata[w][i] = name
    BY <2>2, <2>6, NewestIsName
  <2> HIDE DEF name, w
  <2>8. CASE name.urn # Null \/ name.nsu # Null
    <3>1. node = name
      BY <2>4, <2>6, <2>8 DEF Reference
    <3>2. CASE StartsWithNsu(name)
      <4>1. Has(name, NamespaceFromNodeId(name))
        BY <2>6, <3>2 DEF Has, NamespaceFromNodeId, StartsWithNsu
      <4>2. ParseStringIdentifier(name) = l[2]
        BY <2>5, <3>1, <3>2
      <4>3. s \in InfluxResolves(name, TRUE)
        BY <2>2, <2>3, <2>7, <3>2, <4>1, <4>2 DEF InfluxResolves
      <4> QED
        BY <2>4, <3>1, <4>3
    <3>3. CASE ~StartsWithNsu(name)
      <4>1. s \in InfluxResolves(name, TRUE)
        BY <2>2, <2>3, <2>7, <3>3 DEF InfluxResolves
      <4> QED
        BY <2>4, <3>1, <4>1
    <3> QED
      BY <3>2, <3>3
  <2>9. CASE ~(name.urn # Null \/ name.nsu # Null)
    <3>1. namespace # Null /\ node = BuildExpandedNodeId(l[2], namespace)
      BY <2>4, <2>9 DEF Reference, OrElse, BuildExpandedNodeId
    <3>2. Has(name, namespace)
      BY <3>1, NamespaceOccurs
    <3> HIDE DEF node, namespace
    <3>3. /\ StartsWithNsu(node) /\ NamespaceFromNodeId(node) = namespace
          /\ ParseStringIdentifier(node) = l[2]
      BY <3>1, SyntheticNodeId
    <3>4. s \in InfluxResolves(node, TRUE)
      BY <2>2, <2>3, <2>7, <3>2, <3>3 DEF InfluxResolves
    <3> QED
      BY <2>4, <3>4 DEF node
  <2> QED
    BY <2>8, <2>9
<1> QED
  BY <1>1, <1>2
=============================================================================
