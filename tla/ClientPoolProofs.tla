--------------------------- MODULE ClientPoolProofs ---------------------------
(***************************************************************************)
(* What ClientPool promises for any number of callers, keys and clients.   *)
(***************************************************************************)
EXTENDS ClientPool, TLAPS

Known == 1 .. created

\* Clients are numbered as they are created.
Numbered ==
    /\ open \subseteq Known
    /\ \A k \in Keys : clientPool[k] # None => clientPool[k] \in Known
    /\ \A p \in Callers : client[p] # None => client[p] \in Known

\* A client that is still with its creator is nobody else's, and a client of the
\* pool is stored under one key.
Distinct ==
    /\ \A p \in Callers : client[p] # None =>
          /\ client[p] \in open
          /\ \A k \in Keys : clientPool[k] # client[p]
          /\ \A q \in Callers \ {p} : client[q] # client[p]
    /\ \A k \in Keys : clientPool[k] # None =>
          \A j \in Keys \ {k} : clientPool[j] # clientPool[k]

\* Before shutdown the pool holds open clients, and what a caller was given is the
\* pool's client of its key.
Shared ==
    closer = "idle" =>
        /\ \A k \in Keys : clientPool[k] # None => clientPool[k] \in open
        /\ \A p \in Callers : got[p] # None => got[p] = clientPool[key[p]]

\* The key Range is at has a client, which is closed before the key is deleted.
Visiting ==
    /\ closer \in {"closing", "deleting"} => clientPool[visited] # None
    /\ closer = "deleting" => clientPool[visited] \notin open

PoolInv == TypeOK /\ Numbered /\ Distinct /\ Shared /\ Visiting /\ OpenAreHeld

LEMMA InitInv == Init => PoolInv
  BY NoneAssumption, MaxAssumption
     DEF Init, PoolInv, TypeOK, Created, Given, Numbered, Distinct, Shared, Visiting, OpenAreHeld, Known

\* What TypeOK says of one caller.
LEMMA Locals ==
  ASSUME TypeOK, NEW p \in Callers
  PROVE  /\ key[p] \in Keys
         /\ clientPool[key[p]] \in Clients \cup {None}
         /\ client[p] \in IF Created(p) THEN Clients ELSE {None}
         /\ got[p] \in IF Given(p) THEN Clients ELSE {None}
  BY DEF TypeOK

LEMMA CallerType ==
  ASSUME PoolInv, NEW p \in Callers, GetRedisClient(p) \/ Return(p)
  PROVE  TypeOK'
<1> USE NoneAssumption, MaxAssumption DEF PoolInv, TypeOK, Created, Given, callers, shutdown
<1>1. ASSUME NEW k \in Keys, LoadHit(p, k) PROVE TypeOK'
  <2>1. clientPool[k] \in Clients \cup {None} /\ clientPool[k] # None
    BY <1>1 DEF LoadHit
  <2>2. got' \in [Callers -> Clients \cup {None}] /\ key' \in [Callers -> Keys]
    BY <1>1, <2>1 DEF LoadHit
  <2>3. pc' \in [Callers -> {"idle", "creating", "storing", "losing", "using"}]
    BY <1>1 DEF LoadHit
  <2>4. \A q \in Callers : /\ client'[q] \in IF Created(q)' THEN Clients ELSE {None}
                          /\ got'[q] \in IF Given(q)' THEN Clients ELSE {None}
    BY <1>1, <2>1 DEF LoadHit
  <2> QED
    BY <1>1, <2>2, <2>3, <2>4 DEF LoadHit
<1>2. ASSUME NEW k \in Keys, LoadMiss(p, k) PROVE TypeOK'
  BY <1>2 DEF LoadMiss
<1>3. CASE CreateFails(p)
  BY <1>3 DEF CreateFails
<1>4. CASE Create(p)
  <2>1. /\ created + 1 \in Clients
        /\ created + 1 # None
        /\ created' \in 0 .. MaxClients
    BY <1>4 DEF Create, Clients
  <2>2. client' \in [Callers -> Clients \cup {None}] /\ open' \subseteq Clients
    BY <1>4, <2>1 DEF Create
  <2>3. pc' \in [Callers -> {"idle", "creating", "storing", "losing", "using"}]
    BY <1>4 DEF Create
  <2>4. \A q \in Callers : /\ client'[q] \in IF Created(q)' THEN Clients ELSE {None}
                          /\ got'[q] \in IF Given(q)' THEN Clients ELSE {None}
    BY <1>4, <2>1 DEF Create
  <2> QED
    BY <1>4, <2>1, <2>2, <2>3, <2>4 DEF Create
<1>5. CASE LoadOrStore(p)
  <2>1. client[p] \in Clients /\ client[p] # None
    BY <1>5, Locals DEF LoadOrStore, Created
  <2>2. key[p] \in Keys /\ clientPool[key[p]] \in Clients \cup {None}
    BY Locals
  <2> QED
    BY <1>5, <2>1, <2>2 DEF LoadOrStore
<1>6. CASE CloseOwn(p)
  BY <1>6 DEF CloseOwn
<1>7. CASE Return(p)
  BY <1>7 DEF Return
<1> QED
  BY <1>1, <1>2, <1>3, <1>4, <1>5, <1>6, <1>7 DEF GetRedisClient

LEMMA CallerInv ==
  ASSUME PoolInv, NEW p \in Callers, GetRedisClient(p) \/ Return(p)
  PROVE  PoolInv'
<1>0. TypeOK'
  BY CallerType
<1> USE <1>0, NoneAssumption, MaxAssumption
    DEF PoolInv, TypeOK, Created, Given, callers, shutdown
<1> USE DEF Numbered, Distinct, Shared, Visiting, OpenAreHeld, Known
<1>1. ASSUME NEW k \in Keys, LoadHit(p, k) PROVE PoolInv'
  BY <1>1 DEF LoadHit
<1>2. ASSUME NEW k \in Keys, LoadMiss(p, k) PROVE PoolInv'
  BY <1>2 DEF LoadMiss
<1>3. CASE CreateFails(p)
  BY <1>3 DEF CreateFails
<1>4. CASE Create(p)
  <2>1. created + 1 \notin Known /\ Known \subseteq Known' /\ created + 1 \in Known'
    BY <1>4 DEF Create
  <2>2. Numbered'
    BY <1>4, <2>1 DEF Create
  <2>3. Distinct'
    BY <1>4, <2>1 DEF Create
  <2>4. Shared' /\ Visiting' /\ OpenAreHeld'
    BY <1>4, <2>1 DEF Create
  <2> QED
    BY <2>2, <2>3, <2>4
<1>5. CASE LoadOrStore(p)
  <2>1. client[p] \in Clients /\ client[p] # None /\ key[p] \in Keys
    BY <1>5, Locals DEF LoadOrStore, Created
  <2>2. Numbered' /\ Distinct'
    BY <1>5, <2>1 DEF LoadOrStore
  <2>3. Shared' /\ Visiting'
    BY <1>5, <2>1 DEF LoadOrStore
  <2>4. OpenAreHeld'
    BY <1>5, <2>1 DEF LoadOrStore
  <2> QED
    BY <2>2, <2>3, <2>4
<1>6. CASE CloseOwn(p)
  <2>1. client[p] \in open /\ client[p] # None
    BY <1>6 DEF CloseOwn
  <2>2. Numbered'
    <3>1. open' \subseteq open /\ Known' = Known /\ UNCHANGED clientPool
      BY <1>6 DEF CloseOwn
    <3>2. \A q \in Callers : client'[q] \in {client[q], None}
      BY <1>6 DEF CloseOwn
    <3> QED
      BY <3>1, <3>2
  <2>4. Distinct'
    BY <1>6, <2>1 DEF CloseOwn
  <2>3. Shared' /\ Visiting' /\ OpenAreHeld'
    BY <1>6, <2>1 DEF CloseOwn
  <2> QED
    BY <2>2, <2>3, <2>4
<1>7. CASE Return(p)
  BY <1>7 DEF Return
<1> QED
  BY <1>1, <1>2, <1>3, <1>4, <1>5, <1>6, <1>7 DEF GetRedisClient

LEMMA ShutdownInv ==
  ASSUME PoolInv, Shutdown
  PROVE  PoolInv'
<1> USE NoneAssumption, MaxAssumption DEF PoolInv, TypeOK, Created, Given, callers, shutdown
<1> USE DEF Numbered, Distinct, Shared, Visiting, OpenAreHeld, Known
<1>1. CASE CloseAllClients
  BY <1>1 DEF CloseAllClients
<1>2. ASSUME NEW k \in Keys, Visit(k) PROVE PoolInv'
  BY <1>2 DEF Visit
<1>3. CASE ClosePooled
  <2>1. TypeOK' /\ Numbered' /\ Shared' /\ Visiting' /\ OpenAreHeld'
    BY <1>3 DEF ClosePooled
  <2>2. Distinct'
    <3>1. \A p \in Callers : client[p] # None => client[p] \in open'
      BY <1>3 DEF ClosePooled
    <3> QED
      BY <1>3, <3>1 DEF ClosePooled
  <2> QED
    BY <2>1, <2>2
<1>4. CASE Delete
  BY <1>4 DEF Delete
<1>5. CASE RangeEnds
  BY <1>5 DEF RangeEnds
<1> QED
  BY <1>1, <1>2, <1>3, <1>4, <1>5 DEF Shutdown

LEMMA StutterInv == PoolInv /\ UNCHANGED vars => PoolInv'
  BY DEF PoolInv, TypeOK, Created, Given, Numbered, Distinct, Shared, Visiting,
         OpenAreHeld, Known,
         vars, callers, shutdown

LEMMA InvariantInv == Spec => []PoolInv
<1>1. PoolInv /\ [Next]_vars => PoolInv'
  BY CallerInv, ShutdownInv, StutterInv DEF Next
<1> QED
  BY InitInv, <1>1, PTL DEF Spec

-----------------------------------------------------------------------------
\* The variables keep their types, a caller's client and its answer being there
\* exactly where the code of GetRedisClient has them.
THEOREM PoolTypeCorrect == Spec => []TypeOK
  BY InvariantInv, PTL DEF PoolInv

\* No client is closed under a caller before the process shuts down: the client a
\* losing caller closes is never the shared one.
THEOREM NeverClosedUnderCaller == Spec => []SharedStaysOpen
<1>1. PoolInv => SharedStaysOpen
  BY DEF PoolInv, TypeOK, Shared, SharedStaysOpen
<1> QED
  BY InvariantInv, <1>1, PTL

\* No client leaks, neither by losing a race nor while CloseAllClients runs.
THEOREM NoClientLeaks == Spec => []OpenAreHeld
  BY InvariantInv, PTL DEF PoolInv

\* The callers of a key share one client before the process shuts down.
THEOREM OneClientPerKey == Spec => []OnePerKey
<1>1. PoolInv => OnePerKey
  BY DEF PoolInv, Shared, OnePerKey
<1> QED
  BY InvariantInv, <1>1, PTL

\* Load, create and LoadOrStore together are one atomic get-or-create.
THEOREM AtomicGetRefinement == Spec => AtomicGet
<1> USE DEF Registry!GetOrRegister, Registry!Return, Registry!Unregister, Registry!Next
<1>1. Init => Registry!Init
  BY DEF Init, Registry!Init
<1>2. PoolInv /\ [Next]_vars => [Registry!Next]_<<clientPool, got>>
  <2> SUFFICES ASSUME PoolInv, [Next]_vars
               PROVE  [Registry!Next]_<<clientPool, got>>
    OBVIOUS
  <2> USE DEF callers, shutdown
  <2>1. ASSUME NEW p \in Callers, NEW k \in Keys, LoadHit(p, k)
        PROVE  Registry!GetOrRegister(p, k)
    BY <2>1 DEF LoadHit, PoolInv, TypeOK
  <2>2. ASSUME NEW p \in Callers, LoadOrStore(p)
        PROVE  Registry!GetOrRegister(p, key[p]) /\ key[p] \in Keys
    <3>1. /\ key[p] \in Keys
          /\ client[p] \in Clients \ {clientPool[j] : j \in Keys}
      BY <2>2, Locals, NoneAssumption DEF LoadOrStore, PoolInv, Created, Distinct
    <3> QED
      BY <2>2, <3>1 DEF LoadOrStore, PoolInv, TypeOK
  <2>3. ASSUME NEW p \in Callers, Return(p)
        PROVE  Registry!Return(p)
    BY <2>3 DEF Return
  <2>4. CASE Delete
    BY <2>4 DEF Delete, PoolInv, TypeOK
  <2>5. ASSUME NEW p \in Callers, NEW k \in Keys, LoadMiss(p, k)
        PROVE  UNCHANGED <<clientPool, got>>
    BY <2>5 DEF LoadMiss
  <2>6. ASSUME NEW p \in Callers, CreateFails(p) \/ Create(p) \/ CloseOwn(p)
        PROVE  UNCHANGED <<clientPool, got>>
    BY <2>6 DEF CreateFails, Create, CloseOwn
  <2>7. ASSUME CloseAllClients \/ (\E k \in Keys : Visit(k)) \/ ClosePooled \/ RangeEnds
        PROVE  UNCHANGED <<clientPool, got>>
    BY <2>7 DEF CloseAllClients, Visit, ClosePooled, RangeEnds
  <2>8. CASE UNCHANGED vars
    BY <2>8 DEF vars
  <2> QED
    BY <2>1, <2>2, <2>3, <2>4, <2>5, <2>6, <2>7, <2>8 DEF Next, GetRedisClient, Shutdown
<1> QED
  BY InvariantInv, <1>1, <1>2, PTL DEF Spec, AtomicGet, Registry!Spec
=============================================================================
