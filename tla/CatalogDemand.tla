--------------------------- MODULE CatalogDemand ----------------------------
(***************************************************************************)
(* The catalog demand gate, check-catalog-demand.py: what each catalog     *)
(* entry of the chart declares is compared with what the rendered chart    *)
(* requests, and the entries together must provide each role once.         *)
(*                                                                         *)
(* A quantity is abstracted to its number and its unit, a YAML document to *)
(* the fields the gate reads.  0 stands for a quantity or a demand that is *)
(* refused: the gate accepts none that is not positive.                    *)
(***************************************************************************)
EXTENDS Integers, Sequences, FiniteSets, Functions

CONSTANTS
    Catalogs,   \* the catalogs: sequences of documents, in order of their file names
    Charts      \* what helm template may yield for each role

EXPECTED_ROLES == {"source", "view"}

(* Documents.  broken names the part that is not the mapping the gate      *)
(* takes it for.                                                           *)
NoTopology == [ref |-> "absent", file |-> "missing", sources |-> 0, viewer |-> FALSE,
               profile |-> [cpu |-> [n |-> 0, unit |-> "unset"],
                            memory |-> [n |-> 0, unit |-> "unset"]]]

Quantity == [n : Nat, unit : {"m", "", "Ki", "Mi", "Gi", "unknown", "unset"}]
Requests == [cpu : Quantity, memory : Quantity]
Topology == [ref : {"absent", "no string", "outside", "plain"},
             file : {"missing", "garbled", "whole"},
             sources : Nat, viewer : BOOLEAN, profile : Requests]
Document == [key : STRING, chart : BOOLEAN, broken : {"nothing", "document", "requests"},
             role : EXPECTED_ROLES \cup {"other"}, declared : Requests,
             topology : Topology]

(* What helm prints: whether it succeeded, and its documents.              *)
Manifest == [kind : {"Deployment", "other"}, initContainers : Nat,
             containers : Seq(Requests), overhead : Requests, replicas : Int]
Rendering == [ok : BOOLEAN, manifests : Seq(Manifest)]

ASSUME CatalogAssumption ==
    /\ Catalogs \subseteq Seq(Document)
    /\ Charts \subseteq [EXPECTED_ROLES -> Rendering]

VARIABLES
    catalog,         \* the documents of catalog/*.yaml
    chart,           \* the chart, by what it renders to
    stage,           \* what main does next
    at,              \* the next document or entry
    entries,         \* the positions of the documents that name the chart
    role_counts,     \* for each role, the entries that cover it
    topology_by_key, \* the topologies, by the key of the entry
    failures,        \* what is reported in the end: the check and its entry
    aggregates,      \* the printed aggregates, by entry
    exit             \* the exit status, -1 before

catalogVars == <<catalog, chart, stage, at, entries, role_counts, topology_by_key,
                 failures, aggregates, exit>>

-----------------------------------------------------------------------------
(* Quantities *)

Units == [Ki |-> 1024, Mi |-> 1024 * 1024, Gi |-> 1024 * 1024 * 1024]

CpuRendered(q) == CASE q.unit = "m" -> q.n
                    [] q.unit = "" -> q.n * 1000
                    [] OTHER -> 0

(* The catalog must say millicores.                                        *)
CpuDeclared(q) == IF q.unit = "m" THEN q.n ELSE 0

Bytes(q) == IF q.unit \in DOMAIN Units THEN q.n * Units[q.unit] ELSE 0

-----------------------------------------------------------------------------
(* The demand of what helm rendered *)

NoDemand == [cpu |-> 0, mem |-> 0]

Millicores(containers) ==
    SumFunction([i \in DOMAIN containers |-> CpuRendered(containers[i].cpu)])
Memory(containers) ==
    SumFunction([i \in DOMAIN containers |-> Bytes(containers[i].memory)])

ContainerRequests(containers) ==
    IF \E i \in DOMAIN containers : \/ CpuRendered(containers[i].cpu) = 0
                                    \/ Bytes(containers[i].memory) = 0
    THEN NoDemand
    ELSE [cpu |-> Millicores(containers), mem |-> Memory(containers)]

(* Mutant: the overhead is counted once, not for every replica.            *)
DemandWithOneOverhead(d) ==
    IF \/ d.initContainers > 0
       \/ ContainerRequests(d.containers) = NoDemand
       \/ d.overhead.cpu.unit # "unset" /\ CpuRendered(d.overhead.cpu) = 0
       \/ d.overhead.memory.unit # "unset" /\ Bytes(d.overhead.memory) = 0
       \/ d.replicas <= 0
    THEN NoDemand
    ELSE [cpu |-> ContainerRequests(d.containers).cpu * d.replicas
                     + CpuRendered(d.overhead.cpu),
          mem |-> ContainerRequests(d.containers).mem * d.replicas
                     + Bytes(d.overhead.memory)]

(* Init containers, no containers, a quantity that is refused, and replicas*)
(* that are no positive number are refused.                                *)
DeploymentDemand(d) ==
    IF \/ d.initContainers > 0
       \/ ContainerRequests(d.containers) = NoDemand
       \/ d.overhead.cpu.unit # "unset" /\ CpuRendered(d.overhead.cpu) = 0
       \/ d.overhead.memory.unit # "unset" /\ Bytes(d.overhead.memory) = 0
       \/ d.replicas <= 0
    THEN NoDemand
    ELSE [cpu |-> (ContainerRequests(d.containers).cpu + CpuRendered(d.overhead.cpu))
                     * d.replicas,
          mem |-> (ContainerRequests(d.containers).mem + Bytes(d.overhead.memory))
                     * d.replicas]

IsDeployment(doc) == doc.kind = "Deployment"

(* rendered_role_demand: helm failed, nothing deployed, or one Deployment  *)
(* refused: no demand.                                                     *)
Deployments(role) ==
    {i \in DOMAIN chart[role].manifests : IsDeployment(chart[role].manifests[i])}

RoleDemand(role) ==
    LET demand == [i \in Deployments(role) |-> DeploymentDemand(chart[role].manifests[i])]
    IN  IF \/ ~chart[role].ok
           \/ Deployments(role) = {}
           \/ \E i \in Deployments(role) : demand[i] = NoDemand
        THEN NoDemand
        ELSE [cpu |-> SumFunction([i \in Deployments(role) |-> demand[i].cpu]),
              mem |-> SumFunction([i \in Deployments(role) |-> demand[i].mem])]

(* The declared quantities, unless one of them is refused.                 *)
Declared(requests) ==
    IF CpuDeclared(requests.cpu) = 0 \/ Bytes(requests.memory) = 0 THEN NoDemand
    ELSE [cpu |-> CpuDeclared(requests.cpu), mem |-> Bytes(requests.memory)]

(* Neither is refused, and they are the same.                              *)
Matches(requests, role) ==
    Declared(requests) # NoDemand /\ Declared(requests) = RoleDemand(role)

-----------------------------------------------------------------------------
(* Roles and topologies *)

(* _validate_topology_ref_path and _load_topology_object succeed.          *)
ValidPath(t) == t.ref = "plain"
Loads(t) == ValidPath(t) /\ t.file = "whole" /\ t.sources > 0 /\ t.viewer

(* _covered_roles: none if it raises.                                      *)
CoveredRoles(e) ==
    IF e.topology.ref = "absent" THEN {e.role}
    ELSE IF e.role = "view" /\ Loads(e.topology) THEN {"view", "source"}
    ELSE {}

-----------------------------------------------------------------------------
(* main *)

CatalogInit ==
    /\ catalog \in Catalogs
    /\ chart \in Charts
    /\ stage = "collect"
    /\ at = 1
    /\ entries = {}
    /\ role_counts = [r \in EXPECTED_ROLES \cup {"other"} |-> {}]
    /\ topology_by_key = [k \in {} |-> NoTopology]
    /\ failures = {}
    /\ aggregates = [i \in {} |-> NoDemand]
    /\ exit = -1

Failed(check, i) == failures' = failures \cup {<<check, i>>}

(* An exception nobody catches: Python exits 1, and what was found so far  *)
(* is not printed.                                                         *)
Crash ==
    /\ stage' = "crashed"
    /\ exit' = 1
    /\ UNCHANGED <<catalog, chart, at, entries, role_counts, topology_by_key,
                   failures, aggregates>>

CollectEntry ==
    /\ stage = "collect"
    /\ at <= Len(catalog)
    /\ IF catalog[at].broken = "document" THEN Crash
       ELSE /\ entries' = IF catalog[at].chart THEN entries \cup {at} ELSE entries
            /\ at' = at + 1
            /\ UNCHANGED <<catalog, chart, stage, role_counts, topology_by_key,
                           failures, aggregates, exit>>

(* From one loop to the next.                                              *)
Then(here, next) ==
    /\ stage = here
    /\ at > Len(catalog)
    /\ at' = 1
    /\ stage' = next
    /\ UNCHANGED <<catalog, chart, entries, role_counts, topology_by_key,
                   aggregates, exit>>

Collected == Then("collect", "cover") /\ UNCHANGED failures

Skip(here) ==
    /\ stage = here
    /\ at <= Len(catalog)
    /\ at \notin entries
    /\ at' = at + 1
    /\ UNCHANGED <<catalog, chart, stage, entries, role_counts, topology_by_key,
                   failures, aggregates, exit>>

(* Mutant: the first entry that raises ends the loop.                      *)
CoverUntilFailure ==
    LET covered == CoveredRoles(catalog[at])
        e == catalog[at]
    IN
    /\ stage = "cover"
    /\ at \in entries
    /\ role_counts' = [r \in DOMAIN role_counts |->
          IF r \in covered THEN role_counts[r] \cup {at} ELSE role_counts[r]]
    /\ topology_by_key' =
          IF e.topology.ref = "absent" \/ covered = {} THEN topology_by_key
          ELSE [k \in DOMAIN topology_by_key \cup {e.key} |->
                   IF k = e.key THEN e.topology ELSE topology_by_key[k]]
    /\ IF covered = {} THEN Failed("coverage", at) ELSE UNCHANGED failures
    /\ at' = IF covered = {} THEN Len(catalog) + 1 ELSE at + 1
    /\ UNCHANGED <<catalog, chart, stage, entries, aggregates, exit>>

CoverEntry ==
    LET covered == CoveredRoles(catalog[at])
        e == catalog[at]
    IN
    /\ stage = "cover"
    /\ at \in entries
    /\ role_counts' = [r \in DOMAIN role_counts |->
          IF r \in covered THEN role_counts[r] \cup {at} ELSE role_counts[r]]
    /\ topology_by_key' =
          IF e.topology.ref = "absent" \/ covered = {} THEN topology_by_key
          ELSE [k \in DOMAIN topology_by_key \cup {e.key} |->
                   IF k = e.key THEN e.topology ELSE topology_by_key[k]]
    /\ IF covered = {} THEN Failed("coverage", at) ELSE UNCHANGED failures
    /\ at' = at + 1
    /\ UNCHANGED <<catalog, chart, stage, entries, aggregates, exit>>

(* Exactly the two roles, each covered by exactly one entry.               *)
CoverageHolds ==
    \A r \in DOMAIN role_counts :
        Cardinality(role_counts[r]) = IF r \in EXPECTED_ROLES THEN 1 ELSE 0

CheckCoverage ==
    /\ Then("cover", "demand")
    /\ IF CoverageHolds THEN UNCHANGED failures ELSE Failed("roles", 0)

(* One entry of the second loop is done with.                              *)
Checking ==
    /\ stage = "demand"
    /\ at \in entries
Done ==
    /\ at' = at + 1
    /\ UNCHANGED <<catalog, chart, stage, entries, role_counts, topology_by_key, exit>>

Unset(requests) == requests.cpu.unit = "unset" \/ requests.memory.unit = "unset"

RequestsBroken ==
    /\ Checking
    /\ catalog[at].role \in EXPECTED_ROLES
    /\ catalog[at].broken = "requests"
    /\ Crash

(* The role is unknown, nothing or nothing acceptable is declared, the     *)
(* chart does not render to a demand, or the two differ.                   *)
EntryFails ==
    LET e == catalog[at] IN
    /\ Checking
    /\ \/ e.role \notin EXPECTED_ROLES
       \/ /\ e.role \in EXPECTED_ROLES /\ e.broken = "nothing"
          /\ Unset(e.declared) \/ ~Matches(e.declared, e.role)
    /\ Failed("demand", at)
    /\ UNCHANGED aggregates
    /\ Done

EntryMatches(e) ==
    /\ Checking
    /\ e.role \in EXPECTED_ROLES
    /\ e.broken = "nothing"
    /\ ~Unset(e.declared)
    /\ Matches(e.declared, e.role)

(* No topology, or one that the first loop has reported.                   *)
EntryPasses ==
    LET e == catalog[at] IN
    /\ EntryMatches(e)
    /\ e.topology.ref = "absent" \/ e.key \notin DOMAIN topology_by_key
    /\ UNCHANGED <<failures, aggregates>>
    /\ Done

(* _validate_source_profile raises.                                        *)
ProfileFails ==
    LET e == catalog[at] IN
    /\ EntryMatches(e)
    /\ e.topology.ref # "absent" /\ e.key \in DOMAIN topology_by_key
    /\ ~Matches(topology_by_key[e.key].profile, "source")
    /\ Failed("profile", at)
    /\ UNCHANGED aggregates
    /\ Done

(* Mutant: the viewer's demand, once for each source.                      *)
AggregateOfViewers(e, t) ==
    [cpu |-> (1 + t.sources) * Declared(e.declared).cpu,
     mem |-> (1 + t.sources) * Declared(e.declared).mem]

(* The entry itself, and a source for each member of sources.              *)
Aggregate(e, t) ==
    [cpu |-> Declared(e.declared).cpu + t.sources * Declared(t.profile).cpu,
     mem |-> Declared(e.declared).mem + t.sources * Declared(t.profile).mem]

PrintAggregate ==
    LET e == catalog[at] IN
    /\ EntryMatches(e)
    /\ e.topology.ref # "absent" /\ e.key \in DOMAIN topology_by_key
    /\ Matches(topology_by_key[e.key].profile, "source")
    /\ aggregates' = [i \in DOMAIN aggregates \cup {at} |->
          IF i = at THEN Aggregate(e, topology_by_key[e.key]) ELSE aggregates[i]]
    /\ UNCHANGED failures
    /\ Done

(* The summary, and the exit status.                                       *)
Finish ==
    /\ stage = "demand"
    /\ at > Len(catalog)
    /\ stage' = "finished"
    /\ exit' = IF failures = {} THEN 0 ELSE 1
    /\ UNCHANGED <<catalog, chart, at, entries, role_counts, topology_by_key,
                   failures, aggregates>>

CatalogNext ==
    \/ CollectEntry \/ Collected
    \/ Skip("cover") \/ CoverEntry \/ CheckCoverage
    \/ Skip("demand") \/ RequestsBroken \/ EntryFails \/ EntryPasses
    \/ ProfileFails \/ PrintAggregate \/ Finish

CatalogSpec == CatalogInit /\ [][CatalogNext]_catalogVars

-----------------------------------------------------------------------------
(* Properties *)

(* What a role costs, counted pod by pod: each replica of a Deployment runs*)
(* all its containers, and adds its overhead.                              *)
PodMillicores(d) == Millicores(d.containers) + CpuRendered(d.overhead.cpu)
PodMemory(d) == Memory(d.containers) + Bytes(d.overhead.memory)

Pods(role) ==
    UNION {{i} \X (1 .. chart[role].manifests[i].replicas) : i \in Deployments(role)}

CostMillicores(role) ==
    SumFunction([p \in Pods(role) |-> PodMillicores(chart[role].manifests[p[1]])])
CostMemory(role) ==
    SumFunction([p \in Pods(role) |-> PodMemory(chart[role].manifests[p[1]])])

(* An accurate declaration, in millicores, for a chart whose demand can be *)
(* told: it renders, deploys something, has no init container, and says    *)
(* what every container needs.                                             *)
Counts(d) ==
    /\ d.initContainers = 0 /\ d.replicas > 0 /\ d.containers # <<>>
    /\ \A j \in DOMAIN d.containers :
          CpuRendered(d.containers[j].cpu) > 0 /\ Bytes(d.containers[j].memory) > 0
    /\ d.overhead.cpu.unit = "unset" \/ CpuRendered(d.overhead.cpu) > 0
    /\ d.overhead.memory.unit = "unset" \/ Bytes(d.overhead.memory) > 0
Accounted(role) ==
    /\ chart[role].ok
    /\ Deployments(role) # {}
    /\ \A i \in Deployments(role) : Counts(chart[role].manifests[i])
Accurate(requests, role) ==
    /\ Accounted(role)
    /\ requests.cpu.unit = "m"
    /\ requests.cpu.n = CostMillicores(role)
    /\ Bytes(requests.memory) = CostMemory(role)

(* One entry, by itself.                                                   *)
EntryRight(e) ==
    /\ e.broken = "nothing"
    /\ e.role \in EXPECTED_ROLES
    /\ Accurate(e.declared, e.role)
    /\ e.topology.ref # "absent" =>
          /\ e.role = "view" /\ Loads(e.topology)
          /\ Accurate(e.topology.profile, "source")

Named == {i \in DOMAIN catalog : catalog[i].chart}
Providing(role) ==
    {i \in Named : \/ catalog[i].role = role
                   \/ role = "source" /\ catalog[i].topology.ref # "absent"}

(* The gate is green for the catalogs that tell what the chart costs, and  *)
(* for no others: every entry right, one of each role, the sources of a    *)
(* topology counted as one.                                                *)
GreenIffRight ==
    stage \in {"finished", "crashed"} =>
        (exit = 0 <=> /\ \A i \in DOMAIN catalog : catalog[i].broken # "document"
                      /\ \A i \in Named : EntryRight(catalog[i])
                      /\ \A r \in EXPECTED_ROLES : Cardinality(Providing(r)) = 1)

DistinctKeys ==
    \A i, j \in Named : i # j => catalog[i].key # catalog[j].key

(* A gate that runs to its end names every entry that is wrong and no      *)
(* other, whatever else is wrong with the catalog.  (Entries that share a  *)
(* key also share the topology of the last of them.)                       *)
EachFaultNamed ==
    (stage = "finished" /\ DistinctKeys) =>
        \A i \in Named : EntryRight(catalog[i]) <=> \A f \in failures : f[2] # i

(* The aggregate is the viewer's demand and that of every source, and no   *)
(* green run leaves it out: also where keys collide, which only a red run  *)
(* can have.                                                               *)
AggregateRight ==
    /\ (DistinctKeys \/ exit = 0) =>
          \A i \in DOMAIN aggregates :
             LET n == catalog[i].topology.sources IN
             /\ aggregates[i].cpu = RoleDemand("view").cpu + n * RoleDemand("source").cpu
             /\ aggregates[i].mem = RoleDemand("view").mem + n * RoleDemand("source").mem
    /\ exit = 0 => DOMAIN aggregates = {i \in Named : catalog[i].topology.ref # "absent"}
=============================================================================
