------------------------------ MODULE Discovery ------------------------------
(***************************************************************************)
(* The discovery of instances and of databases                             *)
(* (extredis/instance_discovery.go, extredis/database_discovery.go and the *)
(* loop over the endpoints in extredis/common.go).  Each call of it goes   *)
(* through the configured endpoints once, and asks Redis again and again   *)
(* while servers fail and recover.                                         *)
(***************************************************************************)
EXTENDS Integers, Sequences, ClusterNodes

CONSTANTS
    Configured,    \* per endpoint, in their order: the server its URL leads to
    Databases      \* what INFO keyspace may list: sets of numbers of databases

ASSUME ConfiguredAssumption == Configured \in Seq(Nodes) /\ Len(Configured) > 0
ASSUME DatabasesAssumption == Databases \subseteq SUBSET Nat

VARIABLES
    clustered, \* do the servers say they form a cluster?
    sort,      \* instances or databases
    asking,    \* what the discovery waits for
    index,     \* index of the endpoint the loop is at
    unvisited, \* nodes of its cluster that were listed and not asked yet
    found,     \* its targets so far
    targets,   \* those of the endpoints before
    told,      \* history: per endpoint, what CLUSTER NODES or INFO keyspace answered
    troubled   \* history: the endpoints one of whose own calls failed

loop == <<index, unvisited, found, targets>>
purpose == <<clustered, sort>>
discoveryVars == <<purpose, asking, loop, told, troubled>>

Endpoints == DOMAIN Configured
Current == Configured[index]

\* A target is a node or the number of a database, with the attributes INFO gives or
\* without.
Target(id, described) == [endpoint |-> index, id |-> id, described |-> described]

DiscoveryInit ==
    /\ clustered \in BOOLEAN
    /\ sort \in {"instances", "databases"}
    /\ asking = "idle"
    /\ index = 1
    /\ unvisited = {}
    /\ found = {}
    /\ targets = {}
    /\ told = [i \in Endpoints |-> {}]
    /\ troubled = {}

\* The discovery kit asks for the targets.
Discover ==
    /\ asking = "idle"
    /\ asking' = "ping"
    /\ UNCHANGED <<purpose, loop, told, troubled>>

\* FetchTargetsPerEndpoint: the handler is done with an endpoint, and has these targets.
Collect(collected) ==
    /\ targets' = targets \cup collected
    /\ found' = {}
    /\ unvisited' = {}
    /\ IF index = Len(Configured)
       THEN asking' = "done" /\ index' = index
       ELSE asking' = "ping" /\ index' = index + 1

\* Mutant of Fail: the error of one endpoint ends the loop.
FailEndsLoop ==
    /\ asking' = "done"
    /\ UNCHANGED loop

\* ... or it is done with an error, and has none.
Fail == Collect({})

\* The call under way gets no answer.  A failing INFO is no error: the instance has no
\* attributes from it, and is taken for a standalone server; there are no databases to
\* list but the first.
CallTroubled ==
    /\ asking \in {"ping", "info", "cluster nodes", "keyspace"}
    /\ troubled' = troubled \cup {index}
    /\ \/ asking \in {"ping", "cluster nodes"} /\ Fail
       \/ asking = "info" /\ sort = "instances" /\ Collect({Target(Current, FALSE)})
       \/ asking = "info" /\ sort = "databases" /\ asking' = "keyspace" /\ UNCHANGED loop
       \/ asking = "keyspace" /\ Collect({Target(0, TRUE)})
    /\ UNCHANGED <<purpose, told>>

Pinged ==
    /\ asking = "ping"
    /\ asking' = "info"
    /\ UNCHANGED <<purpose, loop, told, troubled>>

\* INFO of the endpoint: is it of a cluster?  A cluster has one database.
Informed ==
    /\ asking = "info"
    /\ \/ clustered /\ sort = "databases" /\ Collect({Target(0, TRUE)})
       \/ clustered /\ sort = "instances" /\ asking' = "cluster nodes" /\ UNCHANGED loop
       \/ ~clustered /\ sort = "databases" /\ asking' = "keyspace" /\ UNCHANGED loop
       \/ ~clustered /\ sort = "instances" /\ Collect({Target(Current, TRUE)})
    /\ UNCHANGED <<purpose, told, troubled>>

\* INFO keyspace lists the databases that hold keys.
KeyspaceListed ==
    /\ asking = "keyspace"
    /\ \E databases \in Databases :
         /\ Collect({Target(d, TRUE) : d \in IF databases = {} THEN {0} ELSE databases})
         /\ told' = [told EXCEPT ![index] = databases]
    /\ UNCHANGED <<purpose, troubled>>

\* CLUSTER NODES: with a node or more to ask, or none.
NodesListed ==
    /\ asking = "cluster nodes"
    /\ \E view \in Views :
         /\ told' = [told EXCEPT ![index] = {<<n, view[n]>> : n \in DOMAIN view}]
         /\ IF ParsedNodes(view) = {} THEN Collect({})
            ELSE /\ asking' = "nodes"
                 /\ unvisited' = ParsedNodes(view)
                 /\ UNCHANGED <<index, found, targets>>
    /\ UNCHANGED <<purpose, troubled>>

\* INFO of a listed node: it is a target whether it answers or not.
NodeVisited(n, answers) ==
    /\ asking = "nodes"
    /\ n \in unvisited
    /\ LET visited == found \cup {Target(n, answers)}
       IN  IF unvisited = {n} THEN Collect(visited)
           ELSE /\ found' = visited
                /\ unvisited' = unvisited \ {n}
                /\ UNCHANGED <<asking, index, targets>>
    /\ UNCHANGED <<purpose, told, troubled>>

DiscoveryNext ==
    \/ Discover \/ CallTroubled \/ Pinged \/ Informed \/ KeyspaceListed \/ NodesListed
    \/ \E n \in Nodes, answers \in BOOLEAN : NodeVisited(n, answers)

DiscoverySpec == DiscoveryInit /\ [][DiscoveryNext]_discoveryVars

-----------------------------------------------------------------------------
\* Every variable has its type, and only the endpoint the loop is at has nodes to visit.
DiscoveryTypeOK ==
    /\ clustered \in BOOLEAN
    /\ asking \in {"idle", "ping", "info", "keyspace", "cluster nodes", "nodes", "done"}
    /\ sort \in {"instances", "databases"}
    /\ index \in Endpoints
    /\ unvisited \subseteq Nodes
    /\ (unvisited # {}) <=> (asking = "nodes")
    /\ troubled \subseteq Endpoints

\* What an endpoint should yield, given what Redis answered: an instance per node of the
\* cluster that has an address, is not suspected to have failed and may fail over.
ExpectedInstances(i) ==
    IF ~clustered THEN {Configured[i]}
    ELSE {line[1] : line \in {l \in told[i] :
              l[2] \cap {"fail", "fail?", "noaddr", "nofailover"} = {}}}
ExpectedDatabases(i) == IF clustered \/ told[i] = {} THEN {0} ELSE told[i]
Expected(i) == IF sort = "instances" THEN ExpectedInstances(i) ELSE ExpectedDatabases(i)

\* The targets are those, no more and no fewer, of every endpoint that answered, whatever
\* the other endpoints and the other nodes of its cluster did meanwhile.
TargetsComplete ==
    asking = "done" =>
        \A i \in Endpoints \ troubled :
            {t.id : t \in {x \in targets : x.endpoint = i}} = Expected(i)
=============================================================================
