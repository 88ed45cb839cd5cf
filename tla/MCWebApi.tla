------------------------------ MODULE MCWebApi ------------------------------
(* Two writers, two tags; the metadata of one writer in every shape the code  *)
(* tells apart, the other writer under the namespace that begins like the     *)
(* default one.                                                               *)
EXTENDS WebApi

CONSTANTS w1, w2, Base, Own, Other, App, A, B

MCWriters == <<w1, w2>>
MCTags == {"Pressure", "Speed"}
MCPrefixes == {<<Base, Own>>}

Text(urn, nsu, uri, kind, name) ==
    [urn |-> urn, nsu |-> nsu, uri |-> uri, kind |-> kind, name |-> name]

Words == Text(Null, Null, Null, "bare", "Line1")
OwnName == Text(App, Own, Null, "s", "Pressure")
UriName == Text(Null, Null, Own, "bare", "Line1")

Metadata ==
    {<<>>, <<Words>>, <<OwnName>>, <<UriName>>, <<UriName, Words>>, <<Words, OwnName>>,
     <<Text(App, Other, Null, "i", "7")>>,
     <<Text(App, Null, Null, "bare", "Line1")>>,
     <<Text(Null, Own, Null, "s", "Pressure")>>,
     <<Text(Null, Own, Null, "i", "7")>>}

\* A deployment whose store is read, and one whose limit is reached.
Store(source, name, namespaces) ==
    [source |-> source, configured |-> TRUE, permit |-> 1, clients |-> {A},
     metadata |-> (w1 :> name @@ w2 :> <<UriName>>),
     raw |-> (w1 :> namespaces @@ w2 :> {}), maxPoints |-> 2, maxRequests |-> 1]

Limit(configured, permit) ==
    [Store("ADX", <<>>, {}) EXCEPT
        !.configured = configured, !.permit = permit, !.clients = {A, B},
        !.maxPoints = 0, !.maxRequests = 4]

AdxStores == {Store("ADX", name, namespaces) : name \in Metadata, namespaces \in {{}, {Other}, {Own, Other}}}
InfluxStores == {Store("InfluxDB", name, {}) : name \in Metadata}
Limits == {Limit(c, p) : c \in BOOLEAN, p \in 1..2}
AllScenarios == AdxStores \cup InfluxStores \cup Limits

MCNodeIds ==
    {Null, OwnName,
     Text(Null, Null, Null, "bare", "Pressure"),
     Text(Null, Null, Null, "s", "Pressure"),
     Text(Null, Null, Own, "i", "7")}
    \cup {Text(Null, n, Null, "s", "Pressure") : n \in {Base, Own, Other}}

\* The NodeId that browse hands out for a series of the servers' namespace.
OwnPressure == {Text(Null, Own, Null, "s", "Pressure")}
=============================================================================
