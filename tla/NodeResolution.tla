--------------------------- MODULE NodeResolution ---------------------------
(***************************************************************************)
(* How the OPC UA Web API names the series of the telemetry store: the     *)
(* NodeIds that browse hands out (OpcUaNodeId, BuildBrowseResult) and the  *)
(* series and values that read and historyread find for a NodeId           *)
(* (AdxDataSource, InfluxDataSource).                                      *)
(*                                                                         *)
(* A NodeId and a DataSetName are texts of the same make, up to four parts *)
(* separated by semicolons: "urn:<app>;nsu=<namespace>;<uri>;s=<name>".    *)
(* They are modelled as the record of their parts.  The last part has a    *)
(* kind: "s" for a string identifier, "i" for a numeric one, "bare" for a  *)
(* word without "s=".  A part that is absent is Null.                      *)
(*                                                                         *)
(* The store holds points of telemetry, each a writer (ADX: Subject), a    *)
(* tag (ADX: Name, InfluxDB: _field) and a time, and for each writer the   *)
(* DataSetNames recorded for it, the newest last, and for ADX the          *)
(* namespaces of its raw metadata.  A query is evaluated where the code    *)
(* sends it; what the engine leaves open is a choice.  The start and end   *)
(* times of historyread are not given.                                     *)
(***************************************************************************)
EXTENDS Integers, FiniteSets, SequencesExt

CONSTANTS
    Writers,           \* a sequence, in the order in which InfluxDB lists them
    Tags,
    Null,              \* a part or a value that is absent
    DefaultNamespace,  \* http://opcfoundation.org/UA/
    UriPrefixes,       \* the pairs of URIs the first of which begins the second
    Hour, Day, Month   \* the time ranges -1h, -24h and -30d

IsSequence(s) == s \in Seq(ToSet(s))

ASSUME WritersAssumption == IsSequence(Writers)
ASSUME TagsAssumption == Null \notin Tags
ASSUME RangesAssumption == Hour \in Nat /\ Day \in Nat /\ Month \in Nat /\ Hour <= Month

VARIABLES metadata, raw, points, now

storeVars == <<metadata, raw, points, now>>

WriterSet == ToSet(Writers)
Series == WriterSet \X Tags
PointsOf(series) == {p \in points : <<p.writer, p.tag>> \in series}
Since(range) == {p \in points : now - p.time <= range}

(***************************************************************************)
(* OpcUaNodeId                                                             *)
(***************************************************************************)
BuildExpandedNodeId(tag, namespace) ==
    [urn |-> Null, nsu |-> namespace, uri |-> Null, kind |-> "s", name |-> tag]

\* The first part that looks like a URI; inside "nsu=" KQL finds one as well.
FirstUri(text) ==
    CASE text.urn # Null -> text.urn
      [] text.urn = Null /\ text.nsu # Null -> text.nsu
      [] OTHER -> text.uri

\* An explicit "nsu=" part is preferred to a leading ApplicationUri.
NamespaceUriFromDataSetName(text) ==
    CASE text = Null -> Null
      [] text # Null /\ text.nsu # Null -> text.nsu
      [] OTHER -> FirstUri(text)

ApplicationUriFromDataSetName(text) == IF text = Null THEN Null ELSE text.urn

StartsWithNsu(text) == text.urn = Null /\ text.nsu # Null
IsBareTag(text) == text.kind = "bare" /\ text.urn = Null /\ text.nsu = Null /\ text.uri = Null

\* Without "s=", what is left after a leading namespace; the text of a numeric
\* identifier is never the name of a tag.
ParseStringIdentifier(text) ==
    IF text.kind = "s" \/ (text.kind = "bare" /\ text.urn = Null /\ text.uri = Null)
    THEN text.name ELSE Null

\* For ADX a tag without "s=" has to stand alone.
TagName(text) == IF text.kind = "s" \/ IsBareTag(text) THEN ParseStringIdentifier(text) ELSE Null

NamespaceFromNodeId(text) == text.nsu

\* A namespace occurs in a text, be it as the beginning of a longer URI.
Has(text, namespace) ==
    /\ text # Null
    /\ \E part \in {text.urn, text.nsu, text.uri} :
          part = namespace \/ <<namespace, part>> \in UriPrefixes

(***************************************************************************)
(* Browse                                                                  *)
(***************************************************************************)
DataSetNames(writer) == IF metadata[writer] = <<>> THEN {Null} ELSE ToSet(metadata[writer])

\* take_any: one of the raw namespaces of each writer, another one per query.
Picks == {p \in [WriterSet -> UNION {raw[w] : w \in WriterSet} \cup {Null}] :
            \A w \in WriterSet : IF raw[w] = {} THEN p[w] = Null ELSE p[w] \in raw[w]}

\* OpcUaBrowseTag: a tag with the namespace found for it and where it was found; as
\* history, the series it was made of.
BrowseTag(series, namespace, dataSetName) ==
    [tag |-> series[2], namespace |-> namespace, dataSetName |-> dataSetName, series |-> series]

OrElse(value, default) == IF value # Null THEN value ELSE default

AdxBrowseTags(pick) ==
    UNION {{BrowseTag(<<p.writer, p.tag>>, OrElse(NamespaceUriFromDataSetName(d), pick[p.writer]), d) :
               d \in DataSetNames(p.writer)} : p \in points}

\* The newest DataSetName of each writer, unless the metadata query fails.
NewestName(writer, answered) ==
    IF answered /\ metadata[writer] # <<>> THEN Last(metadata[writer]) ELSE Null

\* Tags of the last day, but for the writers whose fields were not answered; of those
\* that agree in application, namespace and field the first is kept.
InfluxBrowseTags(answered, lost) ==
    LET TagAt(i, field) ==
            LET name == NewestName(Writers[i], answered)
            IN BrowseTag(<<Writers[i], field>>, NamespaceUriFromDataSetName(name), name)
        key(b) == <<ApplicationUriFromDataSetName(b.dataSetName), b.namespace, b.tag>>
        listed == {l \in (1..Len(Writers)) \X Tags :
                      /\ Writers[l[1]] \notin lost
                      /\ \E p \in Since(Day) : p.writer = Writers[l[1]] /\ p.tag = l[2]}
        first == {l \in listed : \A m \in listed :
                     m[1] < l[1] => key(TagAt(m[1], m[2])) # key(TagAt(l[1], l[2]))}
    IN {TagAt(l[1], l[2]) : l \in first}

\* No writer is found, or the query for them fails: the fields alone are listed.
InfluxUnscopedTags == {BrowseTag(<<p.writer, p.tag>>, Null, Null) : p \in Since(Day)}

\* BuildBrowseResult: a DataSetName that is a NodeId is handed out as it is; the
\* DisplayName is left out.
Reference(b) ==
    [nodeId |-> IF b.dataSetName # Null /\ (b.dataSetName.urn # Null \/ b.dataSetName.nsu # Null)
                THEN b.dataSetName
                ELSE BuildExpandedNodeId(b.tag, OrElse(b.namespace, DefaultNamespace)),
     browseName |-> b.tag, series |-> b.series]

(***************************************************************************)
(* AdxDataSource: BuildResolutionPrelude and ReadSeries                    *)
(***************************************************************************)
EffNsWithoutRaw(dataSetName, rawNamespace) ==   \* mutant: no fallback
    IF dataSetName = Null THEN Null ELSE FirstUri(dataSetName)

EffNs(dataSetName, rawNamespace) ==
    OrElse(IF dataSetName = Null THEN Null ELSE FirstUri(dataSetName), rawNamespace)

AnyNamespace(nodeId, dataSetName, rawNamespace) == TRUE   \* mutant: the tag alone decides

\* The namespace of a NodeId is that of a series with this DataSetName.
NamespaceMatches(nodeId, dataSetName, rawNamespace) ==
    LET ParsedNs == NamespaceFromNodeId(nodeId)
    IN ParsedNs = Null \/ EffNs(dataSetName, rawNamespace) = ParsedNs \/ Has(dataSetName, ParsedNs)

AdxResolves(nodeId, pick) ==
    {s \in Series : \E d \in DataSetNames(s[1]) :
        \/ d = nodeId
        \/ s[2] = TagName(nodeId) /\ NamespaceMatches(nodeId, d, pick[s[1]])}

(***************************************************************************)
(* InfluxDataSource: Query                                                 *)
(***************************************************************************)
\* The writers' queries are answered, or fail and count as no match: then a
\* synthetic NodeId is matched by its field alone and any other matches nothing.
InfluxResolves(nodeId, answered) ==
    LET WritersWhere(P(_)) ==
            {w \in WriterSet : answered /\ \E i \in DOMAIN metadata[w] : P(metadata[w][i])}
        ofNamespace == WritersWhere(LAMBDA d : Has(d, NamespaceFromNodeId(nodeId)))
        ofName == WritersWhere(LAMBDA d : d = nodeId)
    IN IF StartsWithNsu(nodeId)
       THEN {s \in Series : /\ s[2] = ParseStringIdentifier(nodeId)
                            /\ ofNamespace = {} \/ s[1] \in ofNamespace}
       ELSE {s \in Series : s[1] \in ofName}

(***************************************************************************)
(* The values: ReadLatest and ReadHistory return one of a set of outcomes. *)
(***************************************************************************)
LatestOf(values) == {p \in values : \A q \in values : q.time <= p.time}

\* The values cut off at n, if n is not 0.
AnyOf(values, n) ==
    {V \in SUBSET values :
        Cardinality(V) = IF n = 0 \/ Cardinality(values) < n THEN Cardinality(values) ELSE n}

\* In the order of time, the first of them.
FirstOf(values, n) ==
    {V \in AnyOf(values, n) : \A v \in V, p \in values \ V : v.time <= p.time}

AdxLatest(series) == [series |-> series, values |-> LatestOf(PointsOf(series))]
AdxHistory(series, n) == FirstOf(PointsOf(series), n)

LatestPerSeries(series, range) ==
    UNION {LatestOf(PointsOf({s}) \cap Since(range)) : s \in series}

InfluxLatestWide(near, wide) ==   \* mutant: only the wide range is asked
    [series |-> wide, values |-> LatestPerSeries(wide, Month)]

\* The narrow range is asked first, then the wide one, each with a query of its own
\* for the series; the value of the first table is returned, the latest of one series.
InfluxLatest(near, wide) ==
    IF LatestPerSeries(near, Hour) # {}
    THEN [series |-> near, values |-> LatestPerSeries(near, Hour)]
    ELSE [series |-> wide, values |-> LatestPerSeries(wide, Month)]


\* limit(n) applies to each series.
InfluxHistory(series, n) ==
    {V \in SUBSET (PointsOf(series) \cap Since(Month)) :
        \A s \in series : V \cap PointsOf({s}) \in FirstOf(PointsOf({s}) \cap Since(Month), n)}
=============================================================================
