------------------------- MODULE ConnectionExhaustion -------------------------
(***************************************************************************)
(* The connection exhaustion attack                                        *)
(* (extredis/attack_connection_exhaustion.go).                             *)
(*                                                                         *)
(* Start opens single-connection clients against one node or against the   *)
(* masters of a cluster and files them in the process-wide map             *)
(* activeConnections under a key made of the target's URL and the time.    *)
(* The key is not part of the state the agent carries: Stop looks for an   *)
(* entry whose key begins with its URL and closes what it finds there.  A  *)
(* goroutine per attack pings the clients so that dropped connections are  *)
(* dialled again.                                                          *)
(***************************************************************************)
EXTENDS Integers, FiniteSets

CONSTANTS
    Attacks,         \* executions of the attack
    URLs,            \* connection strings of targets
    URLOf,           \* state.RedisURL of each execution
    IsPrefix,        \* pairs of URLs, the first a prefix of the second
    NumConnections,  \* state.NumConnections
    MaxMasters,      \* bound on the masters of a cluster
    MaxClients,      \* connections a node accepts (Redis maxclients)
    FailLimit,       \* failures after which Start gives up on a node, 5 in the code
    MayFail,         \* may a connection fail for another reason than maxclients?
    MaxStops,        \* bound: answered Stop calls per execution
    MaxDrops         \* bound: connections the server drops

ASSUME URLAssumption == /\ URLOf \in [Attacks -> URLs]
                        /\ \A u \in URLs : <<u, u>> \in IsPrefix
ASSUME NumberAssumption == /\ NumConnections \in Nat
                           /\ MaxMasters \in Nat \ {0}
                           /\ MaxClients \in Nat
                           /\ FailLimit \in Nat
                           /\ MaxStops \in Nat
                           /\ MaxDrops \in Nat
                           /\ MayFail \in BOOLEAN

Nodes == 1 .. MaxMasters

\* A client is known by the execution that opened it and a running number.
Clients == Attacks \X (1 .. NumConnections)

VARIABLES
    pc,                 \* where each execution is
    targets,            \* nodes Start distributes its connections over
    node,               \* the node Start is at
    left,               \* attempts left on that node
    failCount,
    successCount,
    conn,               \* each client: none, connected, dropped or closed
    at,                 \* the node a client connects to
    activeConnections,  \* executions whose key is in the map
    closing,            \* clients Stop took out of the map and still has to close
    stops,              \* answered Stop calls
    keepAlive,          \* executions whose keepAlive goroutine runs
    snapshot,           \* clients the goroutine goes through in this tick
    drops

startLocals == <<targets, node, left, failCount, successCount>>
stopLocals == <<closing, stops>>
pings == <<keepAlive, snapshot>>
vars == <<pc, startLocals, conn, at, activeConnections, stopLocals, pings, drops>>

\* The connections slice of an execution: what its Start opened.
Connections(a) == {c \in Clients : c[1] = a /\ conn[c] # "none"}
\* Slices are gone through in the order in which the clients were opened.
Earliest(S) == {c \in S : \A d \in S : c[2] <= d[2]}
Live(c) == conn[c] \in {"connected", "dropped"}
Accepted(n) == Cardinality({c \in Clients : conn[c] = "connected" /\ at[c] = n}) < MaxClients

\* Mutants of Share: the remainder is lost, or given to one node too many; the
\* first node gets everything.
ShareNoRemainder(m, n) == NumConnections \div m
ShareOffByOne(m, n) == (NumConnections \div m) + (IF n <= (NumConnections % m) + 1 THEN 1 ELSE 0)
ShareFirstOnly(m, n) == IF n = 1 THEN NumConnections ELSE 0

\* NumConnections over m nodes: the first nodes get one more.
Share(m, n) == (NumConnections \div m) + (IF n <= NumConnections % m THEN 1 ELSE 0)

-----------------------------------------------------------------------------
Init ==
    /\ pc = [a \in Attacks |-> "new"]
    /\ targets = [a \in Attacks |-> 0]
    /\ node = [a \in Attacks |-> 1]
    /\ left = [a \in Attacks |-> 0]
    /\ failCount = [a \in Attacks |-> 0]
    /\ successCount = [a \in Attacks |-> 0]
    /\ conn = [c \in Clients |-> "none"]
    /\ at = [c \in Clients |-> 1]
    /\ activeConnections = {}
    /\ closing = [a \in Attacks |-> {}]
    /\ stops = [a \in Attacks |-> 0]
    /\ keepAlive = {}
    /\ snapshot = [a \in Attacks |-> {}]
    /\ drops = 0

\* Prepare answers: the target has a URL and can be reached.
Prepare(a) ==
    /\ pc[a] = "new"
    /\ pc' = [pc EXCEPT ![a] = "prepared"]
    /\ UNCHANGED <<startLocals, conn, at, activeConnections, stopLocals, pings, drops>>

\* Start: ping the target, then one node or the masters of its cluster.  An
\* error here comes before anything is opened or filed.
Start(a) ==
    /\ pc[a] = "prepared"
    /\ \/ /\ pc' = [pc EXCEPT ![a] = "failed"]
          /\ UNCHANGED startLocals
       \/ \E m \in Nodes :
            /\ targets' = [targets EXCEPT ![a] = m]
            /\ node' = [node EXCEPT ![a] = 1]
            /\ left' = [left EXCEPT ![a] = Share(m, 1)]
            /\ pc' = [pc EXCEPT ![a] = "opening"]
            /\ UNCHANGED <<failCount, successCount>>
    /\ UNCHANGED <<conn, at, activeConnections, stopLocals, pings, drops>>

\* The next connection is opened and answers a ping.
OpenSucceeds(a) ==
    /\ Accepted(node[a])
    /\ LET c == <<a, successCount[a] + 1>>
       IN /\ conn' = [conn EXCEPT ![c] = "connected"]
          /\ at' = [at EXCEPT ![c] = node[a]]
    /\ successCount' = [successCount EXCEPT ![a] = @ + 1]
    /\ left' = [left EXCEPT ![a] = @ - 1]
    /\ UNCHANGED failCount

\* It is not, or does not: after more than FailLimit failures a failing ping makes
\* Start leave this node, if it has opened a connection at all.
OpenFails(a) ==
    /\ ~Accepted(node[a]) \/ MayFail
    /\ failCount' = [failCount EXCEPT ![a] = @ + 1]
    /\ \E pinged \in {TRUE, ~MayFail} :
         left' = [left EXCEPT ![a] =
                    IF pinged /\ failCount[a] + 1 > FailLimit /\ successCount[a] > 0
                    THEN 0 ELSE @ - 1]
    /\ UNCHANGED <<conn, at, successCount>>

Open(a) ==
    /\ pc[a] = "opening"
    /\ left[a] > 0
    /\ OpenSucceeds(a) \/ OpenFails(a)
    /\ UNCHANGED <<pc, targets, node, activeConnections, stopLocals, pings, drops>>

NextTarget(a) ==
    /\ pc[a] = "opening"
    /\ left[a] = 0
    /\ node[a] < targets[a]
    /\ node' = [node EXCEPT ![a] = @ + 1]
    /\ left' = [left EXCEPT ![a] = Share(targets[a], node[a] + 1)]
    /\ UNCHANGED <<pc, targets, failCount, successCount, conn, at, activeConnections,
                   stopLocals, pings, drops>>

\* Mutant of Register: a Start that stays below its number of connections
\* answers with an error before it files them.
RegisterComplete(a) ==
    /\ pc[a] = "opening"
    /\ left[a] = 0
    /\ node[a] = targets[a]
    /\ IF successCount[a] < NumConnections
       THEN /\ pc' = [pc EXCEPT ![a] = "failed"]
            /\ UNCHANGED <<activeConnections, keepAlive>>
       ELSE /\ pc' = [pc EXCEPT ![a] = "running"]
            /\ activeConnections' = activeConnections \cup {a}
            /\ keepAlive' = keepAlive \cup {a}
    /\ UNCHANGED <<startLocals, conn, at, stopLocals, snapshot, drops>>

\* The connections are filed, none opened or not; then Start answers, with an
\* error when none was opened, and else starts the goroutine.
Register(a) ==
    /\ pc[a] = "opening"
    /\ left[a] = 0
    /\ node[a] = targets[a]
    /\ activeConnections' = activeConnections \cup {a}
    /\ \/ /\ successCount[a] = 0
          /\ pc' = [pc EXCEPT ![a] = "failed"]
          /\ UNCHANGED keepAlive
       \/ /\ successCount[a] > 0
          /\ pc' = [pc EXCEPT ![a] = "running"]
          /\ keepAlive' = keepAlive \cup {a}
    /\ UNCHANGED <<startLocals, conn, at, stopLocals, snapshot, drops>>

-----------------------------------------------------------------------------
\* The entries Stop may pick: the key is a URL, a dash and a time, and it is
\* compared with the URL of the execution alone.
Candidates(a) == {b \in activeConnections : <<URLOf[a], URLOf[b]>> \in IsPrefix}

\* Mutants of Stop: the entry stays in the map; the comparison of the URL
\* with the keys never matches.
StopKeepsEntry(a) ==
    /\ pc[a] \in {"prepared", "failed", "running", "stopped"}
    /\ stops[a] < MaxStops
    /\ pc' = [pc EXCEPT ![a] = "closing"]
    /\ closing' = [closing EXCEPT ![a] = UNION {Connections(b) : b \in Candidates(a)}]
    /\ UNCHANGED <<startLocals, conn, at, activeConnections, stops, pings, drops>>
StopNoMatch(a) ==
    /\ pc[a] \in {"prepared", "failed", "running", "stopped"}
    /\ stops[a] < MaxStops
    /\ pc' = [pc EXCEPT ![a] = "closing"]
    /\ UNCHANGED <<startLocals, conn, at, activeConnections, closing, stops, pings, drops>>

\* The agent calls Stop, after a Start that worked or failed, without a Start, or
\* again.  The first match in map order is taken out of the map.
Stop(a) ==
    /\ pc[a] \in {"prepared", "failed", "running", "stopped"}
    /\ stops[a] < MaxStops
    /\ pc' = [pc EXCEPT ![a] = "closing"]
    /\ \/ /\ Candidates(a) = {}
          /\ UNCHANGED <<activeConnections, closing>>
       \/ \E b \in Candidates(a) :
            /\ activeConnections' = activeConnections \ {b}
            /\ closing' = [closing EXCEPT ![a] = Connections(b)]
    /\ UNCHANGED <<startLocals, conn, at, stops, pings, drops>>

\* One client is closed.  An error of Close is counted for the answer; the client
\* is closed all the same.
Close(a) ==
    /\ pc[a] = "closing"
    /\ \E c \in Earliest(closing[a]) :
        /\ conn' = [conn EXCEPT ![c] = "closed"]
        /\ closing' = [closing EXCEPT ![a] = @ \ {c}]
    /\ UNCHANGED <<pc, startLocals, at, activeConnections, stops, pings, drops>>

\* Stop answers, with an error when a Close failed: the agent may call it again.
StopReturn(a) ==
    /\ pc[a] = "closing"
    /\ closing[a] = {}
    /\ pc' = [pc EXCEPT ![a] = "stopped"]
    /\ stops' = [stops EXCEPT ![a] = @ + 1]
    /\ UNCHANGED <<startLocals, conn, at, activeConnections, closing, pings, drops>>

-----------------------------------------------------------------------------
\* A tick of keepAlive: read the slice under the mutex ...
KeepAliveTick(a) ==
    /\ a \in keepAlive
    /\ snapshot[a] = {}
    /\ a \in activeConnections
    /\ snapshot' = [snapshot EXCEPT ![a] = Connections(a)]
    /\ UNCHANGED <<pc, startLocals, conn, at, activeConnections, stopLocals, keepAlive, drops>>

\* Mutant of Pinged: a closed client dials again.
PingedAlways(c) == "connected"

\* What a ping makes of a client: a dropped connection is dialled again, a closed
\* client refuses (go-redis: ErrClosed).
Pinged(c) == IF conn[c] = "dropped" THEN "connected" ELSE conn[c]

\* ... and ping its clients outside of it.
KeepAlivePing(a) ==
    /\ \E c \in Earliest(snapshot[a]) :
        /\ \/ Accepted(at[c]) /\ conn' = [conn EXCEPT ![c] = Pinged(c)]
           \/ ~Accepted(at[c]) /\ UNCHANGED conn
        /\ snapshot' = [snapshot EXCEPT ![a] = @ \ {c}]
    /\ UNCHANGED <<pc, startLocals, at, activeConnections, stopLocals, keepAlive, drops>>

\* The goroutine looks at the clock between two ticks and ends after EndTime.
KeepAliveEnd(a) ==
    /\ a \in keepAlive
    /\ snapshot[a] = {}
    /\ keepAlive' = keepAlive \ {a}
    /\ UNCHANGED <<pc, startLocals, conn, at, activeConnections, stopLocals, snapshot, drops>>

\* The server drops a connection.
Drop(c) ==
    /\ drops < MaxDrops
    /\ conn[c] = "connected"
    /\ conn' = [conn EXCEPT ![c] = "dropped"]
    /\ drops' = drops + 1
    /\ UNCHANGED <<pc, startLocals, at, activeConnections, stopLocals, pings>>

StartStep(a) == Start(a) \/ Open(a) \/ NextTarget(a) \/ Register(a)
StopStep(a) == Close(a) \/ StopReturn(a)
KeepAlive(a) == KeepAliveTick(a) \/ KeepAlivePing(a) \/ KeepAliveEnd(a)

Next ==
    \/ \E a \in Attacks : Prepare(a) \/ StartStep(a) \/ Stop(a) \/ StopStep(a) \/ KeepAlive(a)
    \/ \E c \in Clients : Drop(c)

Spec == Init /\ [][Next]_vars

\* Handlers run to their end, and the agent calls Stop once the duration is over.
FairSpec ==
    /\ Spec
    /\ \A a \in Attacks : /\ WF_vars(pc[a] = "opening" /\ StartStep(a))
                          /\ WF_vars(StopStep(a))
                          /\ WF_vars(pc[a] # "stopped" /\ Stop(a))

-----------------------------------------------------------------------------
\* Every variable has its type; Start stays within its targets and opens no more
\* than it was asked for.
TypeOK ==
    /\ pc \in [Attacks -> {"new", "prepared", "opening", "running", "failed", "closing", "stopped"}]
    /\ targets \in [Attacks -> Nodes \cup {0}]
    /\ node \in [Attacks -> Nodes]
    /\ left \in [Attacks -> 0 .. NumConnections]
    /\ failCount \in [Attacks -> 0 .. NumConnections]
    /\ successCount \in [Attacks -> 0 .. NumConnections]
    /\ conn \in [Clients -> {"none", "connected", "dropped", "closed"}]
    /\ at \in [Clients -> Nodes]
    /\ activeConnections \subseteq Attacks
    /\ closing \in [Attacks -> SUBSET Clients]
    /\ stops \in [Attacks -> 0 .. MaxStops]
    /\ keepAlive \subseteq Attacks
    /\ snapshot \in [Attacks -> SUBSET Clients]
    /\ drops \in 0 .. MaxDrops

\* Who will close a client: the Start that opens it, until it files it, then the
\* map, then the Stop that took it out of the map.
Holders(c) ==
    {<<"start", a>> : a \in {b \in {c[1]} : pc[b] = "opening"}}
        \cup {<<"map", a>> : a \in activeConnections \cap {c[1]}}
        \cup {<<"stop", a>> : a \in {b \in Attacks : c \in closing[b]}}

\* Every client that is not closed has exactly one holder: none is forgotten, and
\* no two Stops close the same one.
OneHolder == \A c \in Clients : Live(c) => Cardinality(Holders(c)) = 1

\* Once every execution has been stopped no connection is left, nor an entry of
\* the map ("No connections should remain in global map after Stop",
\* extredis/stop_reliability_test.go).
NothingLeftAfterStop ==
    (\A a \in Attacks : pc[a] = "stopped") =>
        /\ activeConnections = {}
        /\ \A c \in Clients : ~Live(c)

Started(a) == pc[a] = "running"

\* An attack that runs and never gave up on a node has tried as often as it was
\* asked to, over however many masters the attempts were divided.
AllAttempted ==
    \A a \in Attacks : Started(a) /\ failCount[a] <= FailLimit =>
        successCount[a] + failCount[a] = NumConnections

\* Without failures no master gets two connections more than another.
Balanced ==
    \A a \in Attacks : Started(a) /\ failCount[a] = 0 =>
        \A m, n \in 1 .. targets[a] :
            Cardinality({c \in Connections(a) : at[c] = m})
                <= Cardinality({c \in Connections(a) : at[c] = n}) + 1

\* A ping of keepAlive that comes after Stop does not bring a connection back.
ClosedForGood ==
    [][\A c \in Clients : conn[c] = "closed" => conn'[c] = "closed"]_vars

\* The connections of an attack that runs are all closed in the end.
EventuallyClosed ==
    \A a \in Attacks : Started(a) ~> \A c \in Connections(a) : conn[c] = "closed"
=============================================================================
