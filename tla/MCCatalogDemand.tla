-------------------------- MODULE MCCatalogDemand ---------------------------
\* A small instance of CatalogDemand: catalogs of two documents out of the ones
\* below, or three, for charts with one trait each.
EXTENDS CatalogDemand

Q(n, unit) == [n |-> n, unit |-> unit]
None == Q(0, "unset")
Pair(cpu, memory) == [cpu |-> cpu, memory |-> memory]
Nothing == Pair(None, None)

\* Charts: a view of 3m and 3Ki, and a source of 2m and 2Ki, each laid out in
\* several ways.
Pod(containers, overhead, replicas) ==
    [kind |-> "Deployment", initContainers |-> 0, containers |-> containers,
     overhead |-> overhead, replicas |-> replicas]
Service == [Pod(<<>>, Nothing, 0) EXCEPT !.kind = "other"]
One == Pair(Q(1, "m"), Q(1, "Ki"))
Rendered(manifests) == [ok |-> TRUE, manifests |-> manifests]

Source == Rendered(<<Pod(<<One>>, One, 1), Service>>)
View == Rendered(<<Pod(<<One, One>>, Nothing, 1), Service, Pod(<<One>>, Nothing, 1)>>)
Replicated == Rendered(<<Pod(<<Pair(Q(1, "m"), Q(1, "Ki"))>>, One, 2)>>)
WholeCore == Rendered(<<Pod(<<Pair(Q(1, ""), Q(1, "Mi"))>>, Nothing, 1)>>)
Refused == {[Source EXCEPT !.ok = FALSE], Rendered(<<Service>>),
            Rendered(<<Pod(<<One>>, One, 0), Pod(<<One>>, One, 1)>>),
            Rendered(<<[Pod(<<One>>, One, 1) EXCEPT !.initContainers = 1]>>),
            Rendered(<<Pod(<<One, Pair(Q(1, "m"), None)>>, Nothing, 1)>>),
            Rendered(<<Pod(<<One, One>>, Pair(Q(1, "unknown"), None), 1)>>)}

ChartOf(source, view) == [r \in EXPECTED_ROLES |-> IF r = "source" THEN source ELSE view]
MCCharts ==
    {ChartOf(Source, View), ChartOf(Source, Replicated), ChartOf(WholeCore, View)}
    \cup {ChartOf(s, View) : s \in Refused}

\* Documents: what they declare is accurate, wrong, not in millicores or not
\* there.
TwoM == Pair(Q(2, "m"), Q(2, "Ki"))
ThreeM == Pair(Q(3, "m"), Q(3, "Ki"))
Topo(profile) == [ref |-> "plain", file |-> "whole", sources |-> 2, viewer |-> TRUE,
                  profile |-> profile]
Topologies == {NoTopology, Topo(TwoM), Topo(ThreeM), Topo(Nothing),
               Topo(Pair(Q(1000, "m"), Q(1, "Mi"))),
               [Topo(TwoM) EXCEPT !.ref = "no string"],
               [Topo(TwoM) EXCEPT !.file = "garbled"],
               [Topo(TwoM) EXCEPT !.sources = 0]}
Doc(key, role, declared, topology) ==
    [key |-> key, chart |-> TRUE, broken |-> "nothing", role |-> role,
     declared |-> declared, topology |-> topology]

Views == {Doc("k", "view", declared, t) :
             declared \in {ThreeM, Pair(Q(4, "m"), Q(4, "Ki"))}, t \in Topologies}
Sources == {Doc(key, "source", declared, NoTopology) :
               key \in {"k", "l"}, declared \in {TwoM, Pair(Q(2, ""), Q(2, "Ki")), Nothing}}
Others == {Doc("l", "other", TwoM, NoTopology),
           Doc("l", "source", TwoM, Topo(TwoM)),
           Doc("l", "view", ThreeM, Topo(TwoM)),
           [Doc("l", "view", ThreeM, NoTopology) EXCEPT !.chart = FALSE],
           [Doc("l", "source", TwoM, NoTopology) EXCEPT !.broken = "document"],
           [Doc("l", "source", TwoM, NoTopology) EXCEPT !.broken = "requests"]}
Documents == Views \cup Sources \cup Others

Third == {Doc("m", "other", TwoM, NoTopology), Doc("m", "view", ThreeM, Topo(TwoM)),
          Doc("m", "source", TwoM, Topo(TwoM))}
MCCatalogs ==
    {<<>>} \cup {<<d>> : d \in Documents} \cup (Documents \X Documents)
    \cup (Documents \X Documents \X Third)
=============================================================================
