--------------------------- MODULE DiscoveryProofs ---------------------------
(***************************************************************************)
(* Proofs about the discovery: for any endpoints, nodes and answers an     *)
(* endpoint whose calls were answered yields all its targets, whatever the *)
(* other endpoints and the nodes of its cluster do.  And about the search  *)
(* for keys: for any keys, moves and masters it finds those it can.        *)
(***************************************************************************)
EXTENDS Discovery, KeyScan, TLAPS

-----------------------------------------------------------------------------
\* The discovery.

\* The targets of an endpoint among some.
Ids(among, i) == {t.id : t \in {x \in among : x.endpoint = i}}

\* The loop is done with the endpoint.
Over(i) == i < index \/ asking = "done"

\* Only the endpoints the loop came to have targets, and those it is done with have all.
LoopInv ==
    /\ asking = "done" => index = Len(Configured)
    /\ \A t \in targets : t.endpoint \in Endpoints /\ Over(t.endpoint)
    /\ \A i \in Endpoints : Over(i) => i \in troubled \/ Ids(targets, i) = Expected(i)

\* What may be told: the lines of CLUSTER NODES, or numbers of databases.
Told == (SUBSET (Nodes \X (SUBSET Flags))) \cup (SUBSET Nat)

\* What the call under way was made for, and what the visited nodes add up to.
CallInv ==
    /\ told \in [Endpoints -> Told]
    /\ \A t \in found : t.endpoint = index
    /\ asking # "nodes" => found = {}
    /\ asking = "cluster nodes" => clustered /\ sort = "instances"
    /\ asking = "keyspace" => sort = "databases" /\ (index \in troubled \/ ~clustered)
    /\ asking = "nodes" =>
         /\ clustered /\ sort = "instances"
         /\ {t.id : t \in found} \cup unvisited = ExpectedInstances(index)

DiscoveryInv == DiscoveryTypeOK /\ LoopInv /\ CallInv

\* The endpoints are counted from 1.
LEMMA EndpointsFacts == /\ Len(Configured) \in Nat /\ 1 \in Endpoints
                        /\ Endpoints = 1 .. Len(Configured)
                        /\ \A i \in Endpoints : Configured[i] \in Nodes
BY ConfiguredAssumption DEF Endpoints

LEMMA IndexFacts ==
    ASSUME DiscoveryInv
    PROVE  /\ index \in Endpoints /\ index \in Nat /\ index <= Len(Configured)
           /\ asking # "done" => \A i \in Endpoints : Over(i) => i # index
<1>1. index \in Endpoints
  BY DEF DiscoveryInv, DiscoveryTypeOK
<1>2. index \in Nat /\ index <= Len(Configured)
  BY <1>1, EndpointsFacts
<1>3. ASSUME asking # "done", NEW i \in Endpoints, Over(i) PROVE i # index
  BY <1>2, <1>3 DEF Over
<1> QED
  BY <1>1, <1>2, <1>3

\* What an endpoint should yield depends on what was told of it alone.
LEMMA ExpectedSame ==
    ASSUME UNCHANGED purpose, NEW i \in Endpoints, told'[i] = told[i]
    PROVE  Expected(i)' = Expected(i)
<1>1. clustered' = clustered /\ sort' = sort
  BY DEF purpose
<1> QED
  BY <1>1 DEF Expected, ExpectedInstances, ExpectedDatabases

\* An endpoint the loop is done with keeps its targets.
LEMMA CollectKeeps ==
    ASSUME DiscoveryInv, NEW at \in Endpoints, at = index,
           NEW collected, Collect(collected), UNCHANGED purpose,
           \A t \in collected : t.endpoint = index,
           told' \in [Endpoints -> Told],
           \A i \in Endpoints \ {index} : told'[i] = told[i],
           troubled' \in {troubled, troubled \cup {index}},
           asking # "done",
           index \in troubled' \/ {t.id : t \in collected} = Expected(at)'
    PROVE  DiscoveryInv'
<1>1. index \in Nat /\ Len(Configured) \in Nat /\ index \in 1 .. Len(Configured)
  BY EndpointsFacts, IndexFacts
<1>2. \/ index = Len(Configured) /\ asking' = "done" /\ index' = index
      \/ index < Len(Configured) /\ asking' = "ping" /\ index' = index + 1
  BY <1>1 DEF Collect
<1>3. index' \in Endpoints /\ unvisited' = {} /\ found' = {} /\ targets' = targets \cup collected
  BY <1>1, <1>2, EndpointsFacts DEF Collect
<1>4. DiscoveryTypeOK'
  BY <1>2, <1>3 DEF DiscoveryTypeOK, DiscoveryInv, purpose
<1>5. CallInv'
  BY <1>2, <1>3 DEF CallInv
<1>6. \A i \in Endpoints : Over(i)' <=> Over(i) \/ i = index
  BY <1>1, <1>2, EndpointsFacts DEF Over
<1>7. \A t \in targets' : t.endpoint \in Endpoints /\ Over(t.endpoint)'
  BY <1>3, <1>6, EndpointsFacts DEF LoopInv, DiscoveryInv, DiscoveryTypeOK
<1>8. ASSUME NEW i \in Endpoints, Over(i)', i \notin troubled'
      PROVE  Ids(targets', i) = Expected(i)'
  <2>1. CASE i = index
    <3>1. \A t \in targets : t.endpoint # index
      BY <1>1 DEF LoopInv, DiscoveryInv, Over
    <3>2. {x \in targets' : x.endpoint = i} = collected
      BY <1>3, <2>1, <3>1
    <3>3. Ids(targets', i) = {t.id : t \in collected}
      BY <3>2 DEF Ids
    <3>4. i = at
      BY <2>1
    <3> QED
      BY <1>8, <2>1, <3>3, <3>4
  <2>2. CASE i # index
    <3>1. Over(i) /\ i \notin troubled
      BY <1>6, <1>8, <2>2
    <3>2. {x \in targets' : x.endpoint = i} = {x \in targets : x.endpoint = i}
      BY <1>3, <2>2
    <3>3. Expected(i)' = Expected(i)
      BY <2>2, ExpectedSame
    <3> QED
      BY <3>1, <3>2, <3>3 DEF Ids, LoopInv, DiscoveryInv
  <2> QED
    BY <2>1, <2>2
<1>9. LoopInv'
  BY <1>2, <1>7, <1>8 DEF LoopInv
<1> QED
  BY <1>4, <1>5, <1>9 DEF DiscoveryInv

\* As long as the loop stays at its endpoint, what it is done with stays as it is.
LEMMA LoopStays ==
    ASSUME DiscoveryInv, UNCHANGED <<purpose, index, targets>>, asking # "done", asking' # "done",
           \A i \in Endpoints \ {index} : told'[i] = told[i],
           troubled' \in {troubled, troubled \cup {index}}
    PROVE  LoopInv'
<1>1. \A i \in Endpoints : Over(i)' <=> Over(i)
  BY DEF Over
<1>2. \A i \in Endpoints : Over(i) => i # index
  BY IndexFacts
<1>3. ASSUME NEW i \in Endpoints, i # index PROVE Expected(i)' = Expected(i)
  BY <1>3, ExpectedSame
<1>4. ASSUME NEW i \in Endpoints, Over(i), i \notin troubled'
      PROVE  Ids(targets', i) = Expected(i)'
  BY <1>2, <1>3, <1>4 DEF LoopInv, DiscoveryInv
<1> QED
  BY <1>1, <1>4 DEF LoopInv, DiscoveryInv

\* What INFO of an endpoint, or of the nodes of its cluster, is expected to yield.
LEMMA ListedExpected ==
    ASSUME DiscoveryInv, NEW at \in Endpoints, at = index, NEW view \in Views,
           told' = [told EXCEPT ![index] = {<<n, view[n]>> : n \in DOMAIN view}],
           clustered' = clustered, clustered
    PROVE  ExpectedInstances(at)' = ParsedNodes(view)
<1> DEFINE lines == {<<n, view[n]>> : n \in DOMAIN view}
<1>1. told'[index] = lines
  BY DEF DiscoveryInv, CallInv, DiscoveryTypeOK
<1> DEFINE Ok(l) == l[2] \cap {"fail", "fail?", "noaddr", "nofailover"} = {}
<1>2. ASSUME NEW n \in DOMAIN view
      PROVE  <<n, view[n]>>[1] = n /\ (Ok(<<n, view[n]>>) <=> n \in ParsedNodes(view))
  BY DEF ParsedNodes, Skipped
<1>3. {line[1] : line \in {l \in lines : Ok(l)}} = ParsedNodes(view)
  <2>1. ASSUME NEW x \in {line[1] : line \in {l \in lines : Ok(l)}} PROVE x \in ParsedNodes(view)
    <3>1. PICK line \in lines : Ok(line) /\ x = line[1]
      BY <2>1
    <3>2. PICK n \in DOMAIN view : line = <<n, view[n]>>
      BY <3>1
    <3> QED
      BY <1>2, <3>1, <3>2
  <2>2. ASSUME NEW n \in ParsedNodes(view) PROVE n \in {line[1] : line \in {l \in lines : Ok(l)}}
    <3>1. n \in DOMAIN view
      BY DEF ParsedNodes
    <3>2. <<n, view[n]>> \in {l \in lines : Ok(l)}
      BY <1>2, <3>1
    <3> QED
      BY <1>2, <3>1, <3>2
  <2> QED
    BY <2>1, <2>2
<1> QED
  BY <1>1, <1>3 DEF ExpectedInstances

LEMMA TroubledKeeps == DiscoveryInv /\ CallTroubled => DiscoveryInv'
<1> SUFFICES ASSUME DiscoveryInv, CallTroubled PROVE DiscoveryInv'
  OBVIOUS
<1>1. /\ asking \in {"ping", "info", "cluster nodes", "keyspace"}
      /\ troubled' = troubled \cup {index} /\ UNCHANGED <<purpose, told>>
  BY DEF CallTroubled
<1>2. told' \in [Endpoints -> Told]
  BY <1>1 DEF DiscoveryInv, CallInv
<1>3. ASSUME NEW collected, Collect(collected), \A t \in collected : t.endpoint = index
      PROVE  DiscoveryInv'
  <2>1. PICK at \in Endpoints : at = index
    BY IndexFacts
  <2>2. index \in troubled' /\ asking # "done" /\ told' = told
    BY <1>1
  <2> QED
    BY <1>1, <1>2, <1>3, <2>1, <2>2, CollectKeeps
<1>4. CASE asking = "info" /\ sort = "databases" /\ asking' = "keyspace" /\ UNCHANGED loop
  <2>1. LoopInv'
    BY <1>1, <1>4, LoopStays DEF loop
  <2>2. DiscoveryTypeOK'
    BY <1>1, <1>4 DEF DiscoveryInv, DiscoveryTypeOK, loop, purpose
  <2>3. CallInv'
    BY <1>1, <1>2, <1>4 DEF DiscoveryInv, CallInv, loop, purpose
  <2> QED
    BY <2>1, <2>2, <2>3 DEF DiscoveryInv
<1>5. CASE Fail
  BY <1>3, <1>5 DEF Fail
<1>6. ASSUME NEW id, NEW described, Collect({Target(id, described)}) PROVE DiscoveryInv'
  BY <1>3, <1>6 DEF Target
<1> QED
  BY <1>4, <1>5, <1>6 DEF CallTroubled

LEMMA AnsweredKeeps == DiscoveryInv /\ (Discover \/ Pinged \/ Informed) => DiscoveryInv'
<1> SUFFICES ASSUME DiscoveryInv, Discover \/ Pinged \/ Informed PROVE DiscoveryInv'
  OBVIOUS
<1>1. asking \in {"idle", "ping", "info"} /\ UNCHANGED <<purpose, told, troubled>>
  BY DEF Discover, Pinged, Informed
<1>2. ASSUME UNCHANGED loop,
             \/ asking' \in {"ping", "info"}
             \/ asking' = "cluster nodes" /\ clustered /\ sort = "instances"
             \/ asking' = "keyspace" /\ ~clustered /\ sort = "databases"
      PROVE  DiscoveryInv'
  <2>1. LoopInv'
    BY <1>1, <1>2, LoopStays DEF loop
  <2>2. DiscoveryTypeOK'
    BY <1>1, <1>2 DEF DiscoveryInv, DiscoveryTypeOK, loop, purpose
  <2>3. CallInv'
    BY <1>1, <1>2 DEF DiscoveryInv, CallInv, loop, purpose
  <2> QED
    BY <2>1, <2>2, <2>3 DEF DiscoveryInv
<1>3. ASSUME NEW id, Collect({Target(id, TRUE)}), {id} = Expected(index)
      PROVE  DiscoveryInv'
  <2>1. PICK at \in Endpoints : at = index
    BY IndexFacts
  <2>4. Expected(at)' = {id}
    BY <1>1, <1>3, <2>1, ExpectedSame
  <2>2. Target(id, TRUE).endpoint = index /\ Target(id, TRUE).id = id
    BY DEF Target
  <2>3. {t.id : t \in {Target(id, TRUE)}} = {id}
    BY <2>2
  <2>5. asking # "done" /\ told' = told /\ troubled' = troubled
        /\ told' \in [Endpoints -> Told]
    BY <1>1 DEF DiscoveryInv, CallInv
  <2> QED
    BY <1>1, <1>3, <2>1, <2>2, <2>3, <2>4, <2>5, CollectKeeps
<1>4. CASE Discover \/ Pinged
  BY <1>2, <1>4 DEF Discover, Pinged
<1>5. CASE Informed
  <2>1. CASE clustered /\ sort = "databases" /\ Collect({Target(0, TRUE)})
    BY <1>3, <2>1 DEF Expected, ExpectedDatabases
  <2>2. CASE ~clustered /\ sort = "instances" /\ Collect({Target(Current, TRUE)})
    BY <1>3, <2>2 DEF Expected, ExpectedInstances, Current
  <2>3. CASE ~clustered /\ sort = "databases" /\ asking' = "keyspace" /\ UNCHANGED loop
    BY <1>2, <2>3
  <2>4. CASE clustered /\ sort = "instances" /\ asking' = "cluster nodes" /\ UNCHANGED loop
    BY <1>2, <2>4
  <2> QED
    BY <1>5, <2>1, <2>2, <2>3, <2>4 DEF Informed
<1> QED
  BY <1>4, <1>5

\* The databases Redis lists, or the first one when it lists none.
LEMMA KeyspaceKeeps == DiscoveryInv /\ KeyspaceListed => DiscoveryInv'
<1> SUFFICES ASSUME DiscoveryInv, KeyspaceListed PROVE DiscoveryInv'
  OBVIOUS
<1>1. asking = "keyspace" /\ UNCHANGED <<purpose, troubled>>
  BY DEF KeyspaceListed
<1>2. PICK databases \in Databases :
        /\ Collect({Target(d, TRUE) : d \in IF databases = {} THEN {0} ELSE databases})
        /\ told' = [told EXCEPT ![index] = databases]
  BY DEF KeyspaceListed
<1>3. PICK at \in Endpoints : at = index
  BY IndexFacts
<1> DEFINE ids == IF databases = {} THEN {0} ELSE databases
           collected == {Target(d, TRUE) : d \in ids}
<1>4. /\ told' \in [Endpoints -> Told]
      /\ told'[at] = databases /\ \A i \in Endpoints \ {index} : told'[i] = told[i]
  <2>1. databases \in Told
    <3>1. databases \in SUBSET Nat
      BY DatabasesAssumption
    <3> QED
      BY <3>1 DEF Told
  <2> QED
    BY <1>2, <1>3, <2>1 DEF DiscoveryInv, CallInv
<1>5. sort' = "databases" /\ (index \in troubled' \/ ~clustered')
  BY <1>1 DEF DiscoveryInv, CallInv, purpose
<1>6. {t.id : t \in collected} = ids
  <2>1. \A d \in ids : Target(d, TRUE).id = d
    BY DEF Target
  <2> HIDE DEF ids
  <2> QED
    BY <2>1
<1>7. \A t \in collected : t.endpoint = index
  BY DEF Target
<1>8. index \in troubled' \/ Expected(at)' = ids
  BY <1>4, <1>5 DEF Expected, ExpectedDatabases
<1>9. asking # "done" /\ Collect(collected) /\ troubled' = troubled /\ UNCHANGED purpose
  BY <1>1, <1>2
<1>10. index \in troubled' \/ {t.id : t \in collected} = Expected(at)'
  BY <1>6, <1>8
<1> HIDE DEF collected
<1> QED
  BY <1>3, <1>4, <1>7, <1>9, <1>10, CollectKeeps

\* A cluster without a node to ask is done with; the nodes of another are all to visit.
LEMMA ListKeeps == DiscoveryInv /\ NodesListed => DiscoveryInv'
<1> SUFFICES ASSUME DiscoveryInv, NodesListed PROVE DiscoveryInv'
  OBVIOUS
<1>1. asking = "cluster nodes" /\ UNCHANGED <<purpose, troubled>>
  BY DEF NodesListed
<1>2. PICK view \in Views :
         /\ told' = [told EXCEPT ![index] = {<<n, view[n]>> : n \in DOMAIN view}]
         /\ IF ParsedNodes(view) = {} THEN Collect({})
            ELSE /\ asking' = "nodes"
                 /\ unvisited' = ParsedNodes(view)
                 /\ UNCHANGED <<index, found, targets>>
  BY DEF NodesListed
<1>3. PICK at \in Endpoints : at = index
  BY IndexFacts
<1>4. /\ told' \in [Endpoints -> Told]
      /\ \A i \in Endpoints \ {index} : told'[i] = told[i]
  <2>1. {<<n, view[n]>> : n \in DOMAIN view} \in Told
    BY ViewsAssumption DEF Told
  <2> QED
    BY <1>2, <1>3, <2>1 DEF DiscoveryInv, CallInv
<1>5. clustered /\ sort = "instances" /\ clustered' = clustered /\ sort' = sort
  BY <1>1 DEF DiscoveryInv, CallInv, purpose
<1>6. ExpectedInstances(at)' = ParsedNodes(view)
  BY <1>2, <1>3, <1>5, ListedExpected
<1>7. CASE ParsedNodes(view) = {} /\ Collect({})
  <2>1. Expected(at)' = {} /\ {t.id : t \in {}} = {}
    BY <1>5, <1>6, <1>7 DEF Expected
  <2>2. asking # "done" /\ troubled' = troubled /\ UNCHANGED purpose
    BY <1>1
  <2> QED
    BY <1>3, <1>4, <1>7, <2>1, <2>2, CollectKeeps
<1>8. CASE /\ ParsedNodes(view) # {} /\ asking' = "nodes" /\ unvisited' = ParsedNodes(view)
           /\ UNCHANGED <<index, found, targets>>
  <2>1. LoopInv'
    BY <1>1, <1>4, <1>8, LoopStays
  <2>2. ParsedNodes(view) \subseteq Nodes
    BY ViewsAssumption DEF ParsedNodes
  <2>3. DiscoveryTypeOK'
    BY <1>1, <1>8, <2>2 DEF DiscoveryInv, DiscoveryTypeOK, purpose
  <2>4. found' = {}
    BY <1>1, <1>8 DEF DiscoveryInv, CallInv
  <2>6. ExpectedInstances(index)' = ParsedNodes(view)
    BY <1>3, <1>6, <1>8
  <2>5. CallInv'
    BY <1>4, <1>5, <1>8, <2>4, <2>6 DEF CallInv
  <2> QED
    BY <2>1, <2>3, <2>5 DEF DiscoveryInv
<1> QED
  BY <1>2, <1>7, <1>8

\* A node is a target whether it answered or not.
LEMMA VisitKeeps ==
    ASSUME DiscoveryInv, NEW n \in Nodes, NEW answers \in BOOLEAN, NodeVisited(n, answers)
    PROVE  DiscoveryInv'
<1> DEFINE visited == found \cup {Target(n, answers)}
<1>1. asking = "nodes" /\ n \in unvisited /\ UNCHANGED <<purpose, told, troubled>>
  BY DEF NodeVisited
<1>2. \/ unvisited = {n} /\ Collect(visited)
      \/ /\ unvisited # {n} /\ found' = visited /\ unvisited' = unvisited \ {n}
         /\ UNCHANGED <<asking, index, targets>>
  BY DEF NodeVisited
<1>3. PICK at \in Endpoints : at = index
  BY IndexFacts
<1>4. /\ told' \in [Endpoints -> Told]
      /\ clustered /\ sort = "instances" /\ \A t \in found : t.endpoint = index
      /\ {t.id : t \in found} \cup unvisited = ExpectedInstances(at)
  BY <1>1, <1>3 DEF DiscoveryInv, CallInv
<1>5. Target(n, answers).endpoint = index /\ Target(n, answers).id = n
  BY DEF Target
<1>6. {t.id : t \in visited} = {t.id : t \in found} \cup {n} /\ \A t \in visited : t.endpoint = index
  BY <1>4, <1>5
<1>7. Expected(at)' = ExpectedInstances(at) /\ ExpectedInstances(at)' = ExpectedInstances(at)
  BY <1>1, <1>4 DEF Expected, ExpectedInstances, purpose
<1> HIDE DEF visited
<1>8. CASE unvisited = {n} /\ Collect(visited)
  <2>1. {t.id : t \in visited} = Expected(at)'
    BY <1>4, <1>6, <1>7, <1>8
  <2>2. asking # "done" /\ told' = told /\ troubled' = troubled /\ UNCHANGED purpose
    BY <1>1
  <2> QED
    BY <1>3, <1>4, <1>6, <1>8, <2>1, <2>2, CollectKeeps
<1>9. CASE /\ unvisited # {n} /\ found' = visited /\ unvisited' = unvisited \ {n}
           /\ UNCHANGED <<asking, index, targets>>
  <2>1. LoopInv'
    BY <1>1, <1>9, LoopStays
  <2>2. DiscoveryTypeOK'
    BY <1>1, <1>9 DEF DiscoveryInv, DiscoveryTypeOK, purpose
  <2>3. {t.id : t \in found'} \cup unvisited' = ExpectedInstances(at)
    BY <1>1, <1>4, <1>6, <1>9
  <2>4. ExpectedInstances(index)' = ExpectedInstances(at)
    BY <1>3, <1>7, <1>9
  <2>5. asking' = "nodes" /\ clustered' /\ sort' = "instances" /\ \A t \in found' : t.endpoint = index'
    BY <1>1, <1>4, <1>6, <1>9 DEF purpose
  <2>6. CallInv'
    BY <1>4, <2>3, <2>4, <2>5 DEF CallInv
  <2> QED
    BY <2>1, <2>2, <2>6 DEF DiscoveryInv
<1> QED
  BY <1>2, <1>8, <1>9

LEMMA DiscoveryInductive == DiscoveryInv /\ [DiscoveryNext]_discoveryVars => DiscoveryInv'
<1> SUFFICES ASSUME DiscoveryInv, [DiscoveryNext]_discoveryVars PROVE DiscoveryInv'
  OBVIOUS
<1>1. CASE UNCHANGED discoveryVars
  BY <1>1 DEF discoveryVars, loop, purpose, DiscoveryInv, DiscoveryTypeOK, LoopInv, CallInv, Over,
              Expected, ExpectedInstances, ExpectedDatabases
<1> QED
  BY <1>1, TroubledKeeps, AnsweredKeeps, KeyspaceKeeps, ListKeeps, VisitKeeps DEF DiscoveryNext

LEMMA DiscoveryInitial == DiscoveryInit => DiscoveryInv
<1> SUFFICES ASSUME DiscoveryInit PROVE DiscoveryInv
  OBVIOUS
<1>1. DiscoveryTypeOK
  BY EndpointsFacts DEF DiscoveryInit, DiscoveryTypeOK
<1>2. LoopInv
  BY EndpointsFacts DEF DiscoveryInit, LoopInv, Over
<1>3. CallInv
  <2>1. {} \in Told
    BY DEF Told
  <2> QED
    BY <2>1 DEF DiscoveryInit, CallInv
<1> QED
  BY <1>1, <1>2, <1>3 DEF DiscoveryInv

\* Every reachable state of the discovery is well typed, and only the endpoint it is at has
\* nodes to visit.
THEOREM DiscoveryTypeCorrect == DiscoverySpec => []DiscoveryTypeOK
<1>1. DiscoveryInv => DiscoveryTypeOK
  BY DEF DiscoveryInv
<1> QED
  BY <1>1, DiscoveryInitial, DiscoveryInductive, PTL DEF DiscoverySpec

\* Every endpoint whose calls were answered yields its targets, no more and no fewer, for
\* any number of endpoints and nodes, whichever of them fail.
THEOREM TargetsFound == DiscoverySpec => []TargetsComplete
<1>1. DiscoveryInv => TargetsComplete
  BY DEF DiscoveryInv, LoopInv, Over, Ids, TargetsComplete
<1> QED
  BY <1>1, DiscoveryInitial, DiscoveryInductive, PTL DEF DiscoverySpec
-----------------------------------------------------------------------------
\* The search for keys.  In a cluster no key is a candidate twice, or one again after it
\* has been looked at.
Once == isCluster => /\ IsInjective(candidates)
                     /\ IsInjective(matched)
                     /\ ToSet(matched) \cap ToSet(candidates) = {}

\* Below the limit there is room for another key.
Room == MaxKeys > 0 => /\ Len(matched) <= MaxKeys
                       /\ scanning = "type" => Len(matched) < MaxKeys

\* A key that has been at the endpoint all the time is to come yet, or was found; then it
\* is to be looked at, or was kept, or its TYPE got no answer.
Accounted ==
    /\ scanning \in {"idle", "scan"} => matched = <<>>
    /\ scanning = "idle" => stayed = {} /\ scanned = {} /\ candidates = <<>>
    /\ \A k \in stayed : home[k] = {Endpoint}
    /\ (scanning = "scan" /\ ~scanFailed) =>
         \A k \in stayed : \/ Endpoint \in masters
                           \/ scanned = {Endpoint} /\ k \in pending
                           \/ k \in ToSet(candidates)
    /\ (scanning \in {"type", "matched"} /\ ~Full(matched)) =>
         (stayed \cap StringKeys) \ untyped \subseteq ToSet(matched) \cup ToSet(candidates)
    /\ scanning = "matched" => candidates = <<>>

ScanInv == ScanTypeOK /\ Once /\ Room /\ Accounted

\* Sequences as the search uses them.
LEMMA AppendFacts ==
    ASSUME NEW S, NEW s \in Seq(S), NEW e \in S
    PROVE  /\ Append(s, e) \in Seq(S) /\ Len(Append(s, e)) = Len(s) + 1
           /\ ToSet(Append(s, e)) = ToSet(s) \cup {e}
           /\ IsInjective(s) /\ e \notin ToSet(s) => IsInjective(Append(s, e))
<1> DEFINE t == Append(s, e)
<1>1. /\ Len(s) \in Nat /\ t \in Seq(S) /\ Len(t) = Len(s) + 1
      /\ DOMAIN s = 1 .. Len(s) /\ DOMAIN t = 1 .. Len(s) + 1
      /\ \A i \in 1 .. Len(s) : t[i] = s[i]
      /\ t[Len(s) + 1] = e
  OBVIOUS
<1> HIDE DEF t
<1>2. \A i \in DOMAIN t : i \in DOMAIN s \/ i = Len(s) + 1
  BY <1>1
<1>3. DOMAIN s \subseteq DOMAIN t /\ Len(s) + 1 \in DOMAIN t
  BY <1>1
<1>4. ToSet(t) = ToSet(s) \cup {e}
  <2>1. ToSet(t) \subseteq ToSet(s) \cup {e}
    BY <1>1, <1>2 DEF ToSet
  <2>2. ToSet(s) \cup {e} \subseteq ToSet(t)
    BY <1>1, <1>3 DEF ToSet
  <2> QED
    BY <2>1, <2>2
<1>5. ASSUME IsInjective(s), e \notin ToSet(s) PROVE IsInjective(t)
  <2>1. \A i \in DOMAIN s : s[i] # e
    BY <1>5 DEF ToSet
  <2> QED
    BY <1>1, <1>2, <1>5, <2>1 DEF IsInjective
<1> QED
  BY <1>1, <1>4, <1>5 DEF t

LEMMA TailFacts ==
    ASSUME NEW S, NEW s \in Seq(S), s # <<>>
    PROVE  /\ Head(s) \in S /\ Tail(s) \in Seq(S)
           /\ ToSet(s) = {Head(s)} \cup ToSet(Tail(s))
           /\ IsInjective(s) => IsInjective(Tail(s)) /\ Head(s) \notin ToSet(Tail(s))
<1>1. /\ Len(s) \in Nat /\ Len(s) > 0 /\ Head(s) = s[1] /\ Head(s) \in S /\ Tail(s) \in Seq(S)
      /\ DOMAIN s = 1 .. Len(s) /\ DOMAIN Tail(s) = 1 .. Len(s) - 1
      /\ \A i \in 1 .. Len(s) - 1 : Tail(s)[i] = s[i + 1]
  OBVIOUS
<1>2. ToSet(s) = {Head(s)} \cup ToSet(Tail(s))
  <2>1. \A i \in 1 .. Len(s) : i = 1 \/ (i - 1 \in 1 .. Len(s) - 1 /\ Tail(s)[i - 1] = s[i])
    BY <1>1
  <2>2. \A i \in 1 .. Len(s) - 1 : i + 1 \in 1 .. Len(s) /\ Tail(s)[i] = s[i + 1]
    BY <1>1
  <2>3. ToSet(s) \subseteq {Head(s)} \cup ToSet(Tail(s))
    <3>1. ASSUME NEW i \in DOMAIN s PROVE s[i] \in {Head(s)} \cup ToSet(Tail(s))
      <4>1. CASE i = 1
        BY <1>1, <4>1
      <4>2. CASE i - 1 \in DOMAIN Tail(s) /\ Tail(s)[i - 1] = s[i]
        BY <4>2 DEF ToSet
      <4> QED
        BY <1>1, <2>1, <4>1, <4>2
    <3> QED
      BY <3>1 DEF ToSet
  <2>4. {Head(s)} \cup ToSet(Tail(s)) \subseteq ToSet(s)
    BY <1>1, <2>2 DEF ToSet
  <2> QED
    BY <2>3, <2>4
<1>3. ASSUME IsInjective(s) PROVE IsInjective(Tail(s)) /\ Head(s) \notin ToSet(Tail(s))
  BY <1>1, <1>3 DEF ToSet, IsInjective
<1> QED
  BY <1>1, <1>2, <1>3

LEMMA EmptyFacts == ToSet(<<>>) = {} /\ IsInjective(<<>>) /\ Len(<<>>) = 0
BY DEF ToSet, IsInjective

LEMMA ContainsFacts ==
    ASSUME NEW S, NEW s \in Seq(S), NEW e \in S PROVE Contains(s, e) <=> e \in ToSet(s)
BY DEF Contains, ToSet

\* Steps of the scan find keys, or leave them to be found.
LEMMA ScanKeeps ==
    ASSUME ScanInv, ScanBegins \/ ScanEnds \/ ScanFails \/ ScanOver \/ ScanRefused
    PROVE  ScanInv'
<1>1. CASE ScanBegins
  <2>1. masters' \subseteq Nodes
    BY <1>1, NodesAssumption, ViewsAssumption DEF ScanBegins, MasterLists, Masters, ParsedNodes
  <2>2. \A k \in Keys : Endpoint \in home[k] => home[k] = {Endpoint}
    BY DEF ScanInv, ScanTypeOK, Homes
  <2>3. stayed' \subseteq Keys /\ \A k \in stayed' : home[k] = {Endpoint} /\ Endpoint \in masters'
    BY <1>1, <2>2 DEF ScanBegins, KeysAt
  <2> QED
    BY <1>1, <2>1, <2>3, EmptyFacts
       DEF ScanBegins, ScanInv, ScanTypeOK, Once, Room, Accounted, Full
<1>2. CASE ScanEnds
  BY <1>2 DEF ScanEnds, ScanInv, ScanTypeOK, Once, Room, Accounted, Full, Homes, keyspace
<1>3. CASE ScanFails
  BY <1>3 DEF ScanFails, Refuse, ScanInv, ScanTypeOK, Once, Room, Accounted, Full, Homes, keyspace
<1>4. CASE ScanOver
  BY <1>4, EmptyFacts
     DEF ScanOver, Refuse, ScanInv, ScanTypeOK, Once, Room, Accounted, Full, keyspace, cursor
<1>5. CASE ScanRefused
  BY <1>5 DEF ScanRefused, Refuse, ScanInv, ScanTypeOK, Once, Room, Accounted, Full, keyspace, cursor
<1> QED
  BY <1>1, <1>2, <1>3, <1>4, <1>5

LEMMA MasterKeeps ==
    ASSUME ScanInv, NEW n \in Nodes, ScanMaster(n) PROVE ScanInv'
<1>1. \A k \in KeysAt(n) : k \in Keys /\ home[k] = {n}
  BY DEF ScanInv, ScanTypeOK, Homes, KeysAt
<1>2. \A k \in stayed : n = Endpoint => k \in KeysAt(n)
  BY DEF ScanInv, ScanTypeOK, Accounted, KeysAt
<1> QED
  BY <1>1, <1>2 DEF ScanMaster, ScanInv, ScanTypeOK, Once, Room, Accounted, Full, Homes, keyspace

\* A key that moves has not stayed.
LEMMA MoveKeeps ==
    ASSUME ScanInv, NEW k \in Keys, KeyMoves(k) PROVE ScanInv'
<1>1. PICK to \in Homes \ {home[k]} : home' = [home EXCEPT ![k] = to]
  BY DEF KeyMoves
<1>2. home' \in [Keys -> Homes] /\ \A x \in Keys \ {k} : home'[x] = home[x]
  BY <1>1 DEF ScanInv, ScanTypeOK
<1>3. moves' \in 0 .. MaxMoves
  BY ScanBounds DEF KeyMoves, ScanInv, ScanTypeOK
<1> QED
  BY <1>2, <1>3 DEF KeyMoves, ScanInv, ScanTypeOK, Once, Room, Accounted, Full

\* A key that SCAN returns is a candidate, once in a cluster.
LEMMA ReturnKeeps ==
    ASSUME ScanInv, NEW k \in Keys, ScanReturns(k) PROVE ScanInv'
<1>1. /\ candidates' \in Seq(Keys) /\ ToSet(candidates') = ToSet(candidates) \cup {k}
      /\ isCluster => IsInjective(candidates')
  BY AppendFacts, ContainsFacts DEF ScanReturns, Found, ScanInv, ScanTypeOK, Once
<1>2. scanning = "scan" /\ matched = <<>> /\ matched' = matched
  BY DEF ScanReturns, ScanInv, Accounted
<1>3. ScanTypeOK'
  BY <1>1 DEF ScanReturns, ScanInv, ScanTypeOK, keyspace
<1>4. Once' /\ Room'
  BY <1>1, <1>2, EmptyFacts DEF ScanReturns, ScanInv, Once, Room
<1>5. Accounted'
  BY <1>1, <1>2 DEF ScanReturns, ScanInv, Accounted, keyspace
<1> QED
  BY <1>3, <1>4, <1>5 DEF ScanInv

\* The loop over the candidates, which keeps the key it looks at or not.
LEMMA ReadKeeps ==
    ASSUME ScanInv, scanning = "type", NEW kept, TypeRead(kept), UNCHANGED <<keyspace, cursor>>,
           \/ kept = matched
           \/ Head(candidates) \in StringKeys /\ kept = Append(matched, Head(candidates)),
           untyped' \in SUBSET Keys, untyped \subseteq untyped',
           kept = matched =>
               Head(candidates) \notin stayed \cap StringKeys \/ Head(candidates) \in untyped'
    PROVE  ScanInv'
<1> DEFINE k == Head(candidates)
<1>1. /\ candidates \in Seq(Keys) /\ candidates # <<>> /\ matched \in Seq(StringKeys)
      /\ Len(matched) \in Nat /\ MaxKeys \in Nat /\ (MaxKeys > 0 => Len(matched) < MaxKeys)
  BY ScanBounds DEF ScanInv, ScanTypeOK, Room
<1>2. /\ k \in Keys /\ Tail(candidates) \in Seq(Keys)
      /\ ToSet(candidates) = {k} \cup ToSet(Tail(candidates))
      /\ isCluster => /\ IsInjective(Tail(candidates)) /\ k \notin ToSet(Tail(candidates))
                      /\ IsInjective(matched) /\ ToSet(matched) \cap ToSet(candidates) = {}
  BY <1>1, TailFacts DEF ScanInv, Once
<1> HIDE DEF k
<1>3. /\ kept \in Seq(StringKeys) /\ Len(kept) \in Nat
      /\ MaxKeys > 0 => Len(kept) <= MaxKeys
      /\ kept # matched => k \in StringKeys /\ ToSet(kept) = ToSet(matched) \cup {k}
      /\ ToSet(matched) \subseteq ToSet(kept)
      /\ isCluster => IsInjective(kept) /\ ToSet(kept) \cap ToSet(Tail(candidates)) = {}
  <2>1. CASE kept = matched
    BY <1>1, <1>2, <2>1
  <2>2. CASE k \in StringKeys /\ kept = Append(matched, k)
    <3>1. /\ kept \in Seq(StringKeys) /\ Len(kept) = Len(matched) + 1
          /\ ToSet(kept) = ToSet(matched) \cup {k}
          /\ IsInjective(matched) /\ k \notin ToSet(matched) => IsInjective(kept)
      BY <1>1, <2>2, AppendFacts
    <3>2. isCluster => k \notin ToSet(matched) /\ ToSet(matched) \cap ToSet(Tail(candidates)) = {}
      BY <1>2
    <3>3. isCluster => IsInjective(kept) /\ ToSet(kept) \cap ToSet(Tail(candidates)) = {}
      BY <1>2, <3>1, <3>2
    <3>4. Len(kept) \in Nat /\ (MaxKeys > 0 => Len(kept) <= MaxKeys)
      BY <1>1, <3>1
    <3> QED
      BY <2>2, <3>1, <3>3, <3>4
  <2> QED
    BY <2>1, <2>2 DEF k
<1>4. /\ matched' = kept
      /\ candidates' = (IF Full(kept) THEN <<>> ELSE Tail(candidates))
      /\ \/ candidates' # <<>> /\ scanning' = "type"
         \/ candidates' = <<>> /\ scanning' \in {"refused", "matched"}
  BY DEF TypeRead, Refuse, k
<1>5. UNCHANGED <<home, moves, stayed, isCluster, masters, scanned, pending, scanFailed>>
  BY DEF keyspace, cursor
<1>6. candidates' \in Seq(Keys) /\ (isCluster => IsInjective(candidates'))
      /\ ToSet(candidates') \subseteq ToSet(Tail(candidates))
  BY <1>2, <1>4, EmptyFacts
<1>7. ScanTypeOK'
  BY <1>3, <1>4, <1>5, <1>6 DEF ScanInv, ScanTypeOK
<1>8. Once'
  BY <1>3, <1>4, <1>5, <1>6 DEF Once
<1>9. Room'
  <2>1. candidates' # <<>> => ~Full(kept)
    BY <1>4
  <2> QED
    BY <1>1, <1>3, <1>4, <2>1 DEF Room, Full
<1>10. Accounted'
  <2>1. ASSUME ~Full(kept)
        PROVE  (stayed \cap StringKeys) \ untyped' \subseteq ToSet(kept) \cup ToSet(Tail(candidates))
    <3>1. ~Full(matched)
      BY <1>1 DEF Full
    <3>2. (stayed \cap StringKeys) \ untyped \subseteq ToSet(matched) \cup ToSet(candidates)
      BY <3>1 DEF ScanInv, Accounted
    <3> QED
      BY <1>2, <1>3, <3>2 DEF k
  <2>2. Full(matched)' <=> Full(kept)
    BY <1>4 DEF Full
  <2> QED
    BY <1>4, <1>5, <2>1, <2>2, EmptyFacts DEF ScanInv, Accounted
<1> QED
  BY <1>7, <1>8, <1>9, <1>10 DEF ScanInv

LEMMA TypeKeeps == ScanInv /\ (TypeKey \/ TypeFails) => ScanInv'
<1> SUFFICES ASSUME ScanInv, TypeKey \/ TypeFails PROVE ScanInv'
  OBVIOUS
<1>1. scanning = "type" /\ UNCHANGED <<keyspace, cursor>>
  BY DEF TypeKey, TypeFails
<1>2. candidates \in Seq(Keys) /\ candidates # <<>> /\ untyped \subseteq Keys
  BY <1>1 DEF ScanInv, ScanTypeOK
<1> DEFINE k == Head(candidates)
<1>3. k \in Keys
  BY <1>2
<1>4. k \in stayed => Endpoint \in home[k]
  BY DEF ScanInv, Accounted
<1>5. CASE TypeKey
  <2>1. untyped' = untyped
    BY <1>5 DEF TypeKey
  <2>2. CASE k \in StringKeys /\ Endpoint \in home[k]
    <3>1. TypeRead(Append(matched, k))
      BY <1>5, <2>2 DEF TypeKey
    <3>2. Append(matched, k) # matched
      BY <1>1, <1>3, AppendFacts, <2>2 DEF ScanInv, ScanTypeOK
    <3> QED
      BY <1>1, <1>2, <2>1, <2>2, <3>1, <3>2, ReadKeeps
  <2>3. CASE ~(k \in StringKeys /\ Endpoint \in home[k])
    <3>1. TypeRead(matched)
      BY <1>5, <2>3 DEF TypeKey
    <3> QED
      BY <1>1, <1>2, <1>4, <2>1, <2>3, <3>1, ReadKeeps
  <2> QED
    BY <2>2, <2>3
<1>6. CASE TypeFails
  BY <1>1, <1>2, <1>3, <1>6, ReadKeeps DEF TypeFails
<1> QED
  BY <1>5, <1>6 

LEMMA ScanInductive == ScanInv /\ [ScanNext]_scanVars => ScanInv'
<1> SUFFICES ASSUME ScanInv, [ScanNext]_scanVars PROVE ScanInv'
  OBVIOUS
<1>1. CASE UNCHANGED scanVars
  BY <1>1 DEF scanVars, keyspace, cursor, ScanInv, ScanTypeOK, Once, Room, Accounted, Full
<1> QED
  BY <1>1, ScanKeeps, MasterKeeps, MoveKeeps, ReturnKeeps, TypeKeeps DEF ScanNext

LEMMA ScanInitial == ScanInit => ScanInv
<1> SUFFICES ASSUME ScanInit PROVE ScanInv
  OBVIOUS
<1>1. ScanTypeOK
  <2>1. home \in [Keys -> Homes] /\ {} \in Homes
    BY DEF ScanInit, Homes
  <2>2. moves \in 0 .. MaxMoves
    BY ScanBounds DEF ScanInit
  <2>3. candidates \in Seq(Keys) /\ matched \in Seq(StringKeys)
    BY DEF ScanInit
  <2> QED
    BY <2>1, <2>2, <2>3 DEF ScanInit, ScanTypeOK
<1>2. Once /\ Room /\ Accounted
  BY EmptyFacts, ScanBounds DEF ScanInit, Once, Room, Accounted
<1> QED
  BY <1>1, <1>2 DEF ScanInv

\* Every reachable state of the search is well typed: a key is at one server at most, and
\* the cursor has only keys of the server it is at to return.
THEOREM ScanTypeCorrect == ScanSpec => []ScanTypeOK
<1>1. ScanInv => ScanTypeOK
  BY DEF ScanInv
<1> QED
  BY <1>1, ScanInitial, ScanInductive, PTL DEF ScanSpec

\* The search keeps to its limit, names no key of a cluster twice and, below the limit,
\* misses no key the endpoint held all the time, for any keys, masters and moves.
THEOREM KeysFound == ScanSpec => []ScanComplete
<1>1. ScanInv => ScanComplete
  BY EmptyFacts DEF ScanInv, Once, Room, Accounted, ScanComplete
<1> QED
  BY <1>1, ScanInitial, ScanInductive, PTL DEF ScanSpec
=============================================================================
