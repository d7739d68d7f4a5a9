------------------------------ MODULE ClientPool ------------------------------
(***************************************************************************)
(* The pool of Redis clients every handler of the extension takes its      *)
(* client from (clients/clients.go).                                       *)
(*                                                                         *)
(* GetRedisClient runs in the goroutine of each HTTP request.  It looks in *)
(* a sync.Map, creates a client when it finds none and offers it to the    *)
(* map with LoadOrStore; of two goroutines that created one, the later     *)
(* closes its own and takes the other's.  CloseAllClients runs once, when  *)
(* main returns.                                                           *)
(***************************************************************************)
EXTENDS Integers

CONSTANTS
    Callers,      \* request goroutines
    Keys,         \* combinations of URL, password and database
    MaxClients,   \* bound: clients created in all
    None          \* no client

Clients == 1 .. MaxClients

ASSUME NoneAssumption == None \notin Clients
ASSUME MaxAssumption == MaxClients \in Nat

VARIABLES
    clientPool,   \* the client stored under each key, or None
    open,         \* clients that have been created and not closed
    created,      \* number of clients created
    pc,           \* where each caller is in GetRedisClient
    key,          \* the key it asked for
    client,       \* the client it created
    got,          \* the client it was given and uses
    closer,       \* where CloseAllClients is: idle, ranging, closing, deleting or done
    toVisit,      \* keys Range has not come to
    visited       \* the key it is at

callers == <<pc, key, client, got>>
shutdown == <<closer, toVisit, visited>>
vars == <<clientPool, open, created, callers, shutdown>>

Created(p) == pc[p] \in {"storing", "losing"}
Given(p) == pc[p] \in {"losing", "using"}

\* Every variable has its type; a caller has created a client from Create until it is
\* stored or closed, and has been given one from then until it returns.
TypeOK ==
    /\ clientPool \in [Keys -> Clients \cup {None}]
    /\ open \subseteq Clients
    /\ created \in 0 .. MaxClients
    /\ pc \in [Callers -> {"idle", "creating", "storing", "losing", "using"}]
    /\ key \in [Callers -> Keys]
    /\ client \in [Callers -> Clients \cup {None}]
    /\ got \in [Callers -> Clients \cup {None}]
    /\ closer \in {"idle", "ranging", "closing", "deleting", "done"}
    /\ toVisit \subseteq Keys
    /\ visited \in Keys
    /\ \A p \in Callers : /\ client[p] \in IF Created(p) THEN Clients ELSE {None}
                         /\ got[p] \in IF Given(p) THEN Clients ELSE {None}

Init ==
    /\ clientPool = [k \in Keys |-> None]
    /\ open = {}
    /\ created = 0
    /\ pc = [p \in Callers |-> "idle"]
    /\ key \in {[p \in Callers |-> k] : k \in Keys}
    /\ client = [p \in Callers |-> None]
    /\ got = [p \in Callers |-> None]
    /\ closer = "idle"
    /\ toVisit = {}
    /\ visited \in Keys

-----------------------------------------------------------------------------
\* Mutant of LoadHit: what Load returns is used though the key is not there.
LoadUnchecked(p, k) ==
    /\ pc[p] = "idle"
    /\ pc' = [pc EXCEPT ![p] = "using"]
    /\ key' = [key EXCEPT ![p] = k]
    /\ got' = [got EXCEPT ![p] = clientPool[k]]
    /\ UNCHANGED <<clientPool, open, created, client, shutdown>>

\* GetRedisClient: Load finds the client of the key ...
LoadHit(p, k) ==
    /\ pc[p] = "idle"
    /\ clientPool[k] # None
    /\ pc' = [pc EXCEPT ![p] = "using"]
    /\ key' = [key EXCEPT ![p] = k]
    /\ got' = [got EXCEPT ![p] = clientPool[k]]
    /\ UNCHANGED <<clientPool, open, created, client, shutdown>>

\* ... or none.
LoadMiss(p, k) ==
    /\ pc[p] = "idle"
    /\ clientPool[k] = None
    /\ pc' = [pc EXCEPT ![p] = "creating"]
    /\ key' = [key EXCEPT ![p] = k]
    /\ UNCHANGED <<clientPool, open, created, client, got, shutdown>>

\* CreateRedisClientFromURL refuses the URL.
CreateFails(p) ==
    /\ pc[p] = "creating"
    /\ pc' = [pc EXCEPT ![p] = "idle"]
    /\ UNCHANGED <<clientPool, open, created, key, client, got, shutdown>>

Create(p) ==
    /\ pc[p] = "creating"
    /\ created < MaxClients
    /\ created' = created + 1
    /\ open' = open \cup {created + 1}
    /\ client' = [client EXCEPT ![p] = created + 1]
    /\ pc' = [pc EXCEPT ![p] = "storing"]
    /\ UNCHANGED <<clientPool, key, got, shutdown>>

\* Mutants of LoadOrStore: Store, whatever the map holds by now; the caller that
\* comes second uses its own client all the same.
StoreAlways(p) ==
    /\ pc[p] = "storing"
    /\ clientPool' = [clientPool EXCEPT ![key[p]] = client[p]]
    /\ got' = [got EXCEPT ![p] = client[p]]
    /\ pc' = [pc EXCEPT ![p] = "using"]
    /\ client' = [client EXCEPT ![p] = None]
    /\ UNCHANGED <<open, created, key, shutdown>>
UseOwn(p) ==
    /\ pc[p] = "storing"
    /\ clientPool' = IF clientPool[key[p]] = None
                     THEN [clientPool EXCEPT ![key[p]] = client[p]] ELSE clientPool
    /\ got' = [got EXCEPT ![p] = client[p]]
    /\ client' = [client EXCEPT ![p] = None]
    /\ pc' = [pc EXCEPT ![p] = "using"]
    /\ UNCHANGED <<open, created, key, shutdown>>

\* LoadOrStore is one step of the map: the caller that comes second is given what
\* the first one stored.
LoadOrStore(p) ==
    /\ pc[p] = "storing"
    /\ \/ /\ clientPool[key[p]] = None
          /\ clientPool' = [clientPool EXCEPT ![key[p]] = client[p]]
          /\ got' = [got EXCEPT ![p] = client[p]]
          /\ client' = [client EXCEPT ![p] = None]
          /\ pc' = [pc EXCEPT ![p] = "using"]
       \/ /\ clientPool[key[p]] # None
          /\ got' = [got EXCEPT ![p] = clientPool[key[p]]]
          /\ pc' = [pc EXCEPT ![p] = "losing"]
          /\ UNCHANGED <<clientPool, client>>
    /\ UNCHANGED <<open, created, key, shutdown>>

\* Mutants of CloseOwn: the client of the map is closed; no client is closed.
CloseOther(p) ==
    /\ pc[p] = "losing"
    /\ open' = open \ {got[p]}
    /\ client' = [client EXCEPT ![p] = None]
    /\ pc' = [pc EXCEPT ![p] = "using"]
    /\ UNCHANGED <<clientPool, created, key, got, shutdown>>
CloseNothing(p) ==
    /\ pc[p] = "losing"
    /\ client' = [client EXCEPT ![p] = None]
    /\ pc' = [pc EXCEPT ![p] = "using"]
    /\ UNCHANGED <<clientPool, open, created, key, got, shutdown>>

\* The loser closes the client it created.
CloseOwn(p) ==
    /\ pc[p] = "losing"
    /\ open' = open \ {client[p]}
    /\ client' = [client EXCEPT ![p] = None]
    /\ pc' = [pc EXCEPT ![p] = "using"]
    /\ UNCHANGED <<clientPool, created, key, got, shutdown>>

\* The handler has sent its commands; it does not close the client.
Return(p) ==
    /\ pc[p] = "using"
    /\ pc' = [pc EXCEPT ![p] = "idle"]
    /\ got' = [got EXCEPT ![p] = None]
    /\ UNCHANGED <<clientPool, open, created, key, client, shutdown>>

-----------------------------------------------------------------------------
\* main returns.  Handlers may still be running.
CloseAllClients ==
    /\ closer = "idle"
    /\ closer' = "ranging"
    /\ toVisit' = Keys
    /\ UNCHANGED <<clientPool, open, created, callers, visited>>

\* Range comes to a key, in any order; one that is stored while it runs may be
\* met or not.
Visit(k) ==
    /\ closer = "ranging"
    /\ k \in toVisit
    /\ toVisit' = toVisit \ {k}
    /\ \/ /\ clientPool[k] = None
          /\ UNCHANGED <<closer, visited>>
       \/ /\ clientPool[k] # None
          /\ closer' = "closing"
          /\ visited' = k
    /\ UNCHANGED <<clientPool, open, created, callers>>

\* The client is closed, then its key deleted: in between it can still be loaded.
ClosePooled ==
    /\ closer = "closing"
    /\ open' = open \ {clientPool[visited]}
    /\ closer' = "deleting"
    /\ UNCHANGED <<clientPool, created, callers, toVisit, visited>>

Delete ==
    /\ closer = "deleting"
    /\ clientPool' = [clientPool EXCEPT ![visited] = None]
    /\ closer' = "ranging"
    /\ UNCHANGED <<open, created, callers, toVisit, visited>>

RangeEnds ==
    /\ closer = "ranging"
    /\ toVisit = {}
    /\ closer' = "done"
    /\ UNCHANGED <<clientPool, open, created, callers, toVisit, visited>>

-----------------------------------------------------------------------------
GetRedisClient(p) ==
    \/ \E k \in Keys : LoadHit(p, k) \/ LoadMiss(p, k)
    \/ CreateFails(p) \/ Create(p) \/ LoadOrStore(p) \/ CloseOwn(p)

Shutdown == CloseAllClients \/ (\E k \in Keys : Visit(k)) \/ ClosePooled \/ Delete \/ RangeEnds

Next == (\E p \in Callers : GetRedisClient(p) \/ Return(p)) \/ Shutdown

Spec == Init /\ [][Next]_vars

-----------------------------------------------------------------------------
\* Until the process shuts down, the client a caller uses is open: no other caller
\* closes it ("The returned client must NOT be closed - it is shared and
\* long-lived", clients/clients.go:43).
SharedStaysOpen ==
    closer = "idle" => \A p \in Callers : got[p] # None => got[p] \in open

\* Every open client is in the pool, or with the caller that created it and will
\* store or close it: none leaks, whoever wins a race and at shutdown too.
OpenAreHeld ==
    \A c \in open : \/ \E k \in Keys : clientPool[k] = c
                    \/ \E p \in Callers : pc[p] \in {"storing", "losing"} /\ client[p] = c

\* Until the process shuts down, callers that use the same key use one client.
OnePerKey ==
    closer = "idle" =>
        \A p, q \in Callers : got[p] # None /\ got[q] # None /\ key[p] = key[q] => got[p] = got[q]

\* GetRedisClient behaves like one atomic get-or-create, and each key has a client
\* of its own.
Registry == INSTANCE ClientRegistry WITH registered <- clientPool
AtomicGet == Registry!Spec
=============================================================================
