------------------------- MODULE MaxmemoryLimitProofs -------------------------
(***************************************************************************)
(* Proofs about the maxmemory attack: for any nodes, faults, failovers and *)
(* number of Stops, a Start or a Stop that answers without an error is     *)
(* true on every master it listed.                                         *)
(***************************************************************************)
EXTENDS MaxmemoryLimit, FiniteSetTheorems, TLAPS

\* A node that Start is done with is limited, or among the errors.
Applied ==
    pc = "applying" =>
        \A n \in listed \ (todo \cup errors) :
            maxmemory[n] = "limit" /\ (PolicyApplied => policy[n] = "new")

\* A node that Stop is done with has what the state holds for it, or is among the
\* errors.
Given(n) ==
    /\ maxmemory[n] = Stored(Original(perNodeMaxmem, n, originalMaxmemory))
    /\ PolicyRestored => policy[n] = Original(perNodePolicy, n, originalPolicy)
Restored == pc = "restoring" => \A n \in listed \ (todo \cup errors) : Given(n)

\* The state never holds an original.
NothingSaved ==
    /\ originalMaxmemory = Empty
    /\ originalPolicy = Empty
    /\ perNodeMaxmem = NoOriginals
    /\ perNodePolicy = NoOriginals

MemInv == TypeOK /\ NothingSaved /\ Applied /\ Restored /\ StartedEverywhere /\ StopKeepsItsWord

\* The answer to CONFIG GET never has the two entries Start looks for.
LEMMA NeverKeeps == \A name, v : ~Keeps(ConfigGet(name, v))
<1> SUFFICES ASSUME NEW name, NEW v PROVE ~(Cardinality(DOMAIN ConfigGet(name, v)) >= 2)
  BY DEF Keeps
<1>1. DOMAIN ConfigGet(name, v) = {name}
  BY DEF ConfigGet
<1>2. Cardinality({name}) = 1
  BY FS_Singleton
<1> QED
  BY <1>1, <1>2

LEMMA ReadKeeps == ASSUME NEW n, Read(n) PROVE UNCHANGED saved
BY NeverKeeps DEF Read, saved

\* Without an original a node is given the empty string.
LEMMA NoOriginal ==
    \A n \in Nodes : \A v : Original(NoOriginals, n, v) = v
BY DEF Original, NoOriginals

LEMMA EmptyMaps == NoOriginals \in Originals(Memory) /\ NoOriginals \in Originals(Policy)
<1>1. \A V : NoOriginals \in [{} -> V]
  BY DEF NoOriginals
<1>2. {} \in SUBSET Nodes
  OBVIOUS
<1>3. \A V : [{} -> V] \in {[N -> V] : N \in SUBSET Nodes}
  BY <1>2
<1> QED
  BY <1>1, <1>3 DEF Originals

LEMMA InitMem == Init => MemInv
<1> SUFFICES ASSUME Init PROVE MemInv
  OBVIOUS
<1>1. faults \in 0 .. MaxFaults /\ failovers \in 0 .. MaxFailovers /\ stops \in 0 .. MaxStops
  BY BoundAssumption DEF Init
<1>2. /\ maxmemory \in [Nodes -> Memory] /\ policy \in [Nodes -> Policy]
      /\ masters \subseteq Nodes
      /\ perNodeMaxmem \in Originals(Memory) /\ perNodePolicy \in Originals(Policy)
  BY EmptyMaps DEF Init, Memory, Policy
<1>3. TypeOK
  BY <1>1, <1>2 DEF Init, TypeOK
<1> QED
  BY <1>3 DEF Init, MemInv, NothingSaved, Applied, Restored, StartedEverywhere, StopKeepsItsWord

\* What a call to a server costs, and what a node is set to, is of its type.
LEMMA FaultType == ASSUME TypeOK, Fault \/ NoFault PROVE faults' \in 0 .. MaxFaults
BY BoundAssumption DEF TypeOK, Fault, NoFault

LEMMA StoredType == Stored(Empty) \in Memory
BY DEF Stored, Memory

-----------------------------------------------------------------------------
\* Start comes to a node.
LEMMA ApplyKeeps ==
    ASSUME MemInv, NEW n \in Nodes, ApplyToNode(n)
    PROVE  MemInv'
<1>1. pc = "applying" /\ pc' = "applying" /\ n \in todo
  BY DEF ApplyToNode
<1>2. Original(NoOriginals, n, Empty) = Empty
  BY NoOriginal
<1>3. UNCHANGED saved
  BY ReadKeeps DEF ApplyToNode, ApplySucceeds, ApplyFails, saved
<1>4. /\ maxmemory' \in [Nodes -> Memory]
      /\ policy' \in [Nodes -> Policy]
      /\ \A m \in Nodes \ {n} : maxmemory'[m] = maxmemory[m] /\ policy'[m] = policy[m]
      /\ errors' \in {errors, errors \cup {n}}
  <2>1. CASE ApplySucceeds(n)
    BY <2>1 DEF ApplySucceeds, MemInv, TypeOK, Memory, Policy
  <2>2. CASE ApplyFails(n)
    <3>1. perNodeMaxmem' = NoOriginals
      BY <1>3 DEF saved, MemInv, NothingSaved
    <3>2. \E m \in Memory : maxmemory' \in {maxmemory, [maxmemory EXCEPT ![n] = m]}
      BY <2>2, <3>1, <1>2, StoredType DEF ApplyFails, config, Memory
    <3>3. policy' \in {policy, [policy EXCEPT ![n] = "new"]}
      BY <2>2 DEF ApplyFails, config
    <3>4. errors' = errors \cup {n}
      BY <2>2 DEF ApplyFails
    <3> QED
      BY <3>2, <3>3, <3>4 DEF MemInv, TypeOK, Policy
  <2> QED
    BY <2>1, <2>2 DEF ApplyToNode
<1>5. TypeOK'
  <2>1. faults' \in 0 .. MaxFaults
    BY FaultType DEF ApplyToNode, ApplySucceeds, ApplyFails, MemInv
  <2> QED
    BY <1>1, <1>3, <1>4, <2>1 DEF ApplyToNode, MemInv, TypeOK, saved
<1>6. n \in errors' \/ (maxmemory'[n] = "limit" /\ (PolicyApplied' => policy'[n] = "new"))
  BY DEF ApplyToNode, ApplySucceeds, ApplyFails, MemInv, TypeOK, PolicyApplied
<1>7. Applied'
  BY <1>1, <1>4, <1>6 DEF ApplyToNode, MemInv, TypeOK, Applied, PolicyApplied
<1> QED
  BY <1>1, <1>3, <1>5, <1>7
     DEF MemInv, NothingSaved, saved, Restored, StartedEverywhere, StopKeepsItsWord

\* Stop comes to a node.
LEMMA RestoreKeeps ==
    ASSUME MemInv, NEW n \in Nodes, RestoreNode(n)
    PROVE  MemInv'
<1>1. pc = "restoring" /\ pc' = "restoring" /\ n \in todo
  BY DEF RestoreNode
<1>2. UNCHANGED saved /\ UNCHANGED <<listed, newPolicy>>
  BY DEF RestoreNode, state, saved
<1>3. /\ Original(perNodeMaxmem, n, originalMaxmemory) = Empty
      /\ Original(perNodePolicy, n, originalPolicy) = Empty
  BY NoOriginal DEF MemInv, NothingSaved
<1>4. PICK memoryFails, policyFails \in BOOLEAN :
        /\ IF PolicyRestored THEN policyFails ELSE ~policyFails
        /\ maxmemory' \in IF memoryFails THEN {maxmemory, [maxmemory EXCEPT ![n] = Stored(Empty)]}
                          ELSE {[maxmemory EXCEPT ![n] = Stored(Empty)]}
        /\ policy' = policy
        /\ Fault \/ NoFault
        /\ errors' = RestoreErrors(n, memoryFails, policyFails)
  BY <1>3 DEF RestoreNode
<1>5. /\ maxmemory' \in [Nodes -> Memory]
      /\ \A m \in Nodes \ {n} : maxmemory'[m] = maxmemory[m]
      /\ errors' \in {errors, errors \cup {n}}
  BY <1>4, StoredType DEF RestoreErrors, MemInv, TypeOK
<1>6. TypeOK'
  <2>1. faults' \in 0 .. MaxFaults
    BY <1>4, FaultType DEF MemInv
  <2> QED
    BY <1>1, <1>2, <1>4, <1>5, <2>1 DEF RestoreNode, state, MemInv, TypeOK, saved
<1>7. n \in errors' \/ Given(n)'
  <2>1. CASE memoryFails \/ policyFails
    BY <1>4, <2>1 DEF RestoreErrors
  <2>2. CASE ~memoryFails /\ ~policyFails
    <3>1. ~PolicyRestored /\ ~PolicyRestored'
      BY <1>2, <1>4, <2>2 DEF PolicyRestored
    <3>2. maxmemory'[n] = Stored(Empty)
      BY <1>4, <2>2 DEF MemInv, TypeOK
    <3>3. Original(perNodeMaxmem, n, originalMaxmemory)' = Empty
      BY <1>2, <1>3 DEF saved, Original
    <3> QED
      BY <3>1, <3>2, <3>3 DEF Given
  <2> QED
    BY <2>1, <2>2
<1>8. Restored'
  <2> SUFFICES ASSUME NEW m \in listed' \ (todo' \cup errors') PROVE Given(m)'
    BY DEF Restored
  <2>1. CASE m = n
    BY <1>7, <2>1
  <2>2. CASE m # n
    <3>1. m \in Nodes /\ m \in listed \ (todo \cup errors)
      BY <1>2, <1>5, <2>2 DEF RestoreNode, MemInv, TypeOK
    <3>2. Given(m)
      BY <1>1, <3>1 DEF MemInv, Restored
    <3> QED
      BY <1>2, <1>4, <1>5, <2>2, <3>1, <3>2 DEF Given, Original, PolicyRestored, saved
  <2> QED
    BY <2>1, <2>2
<1> QED
  BY <1>1, <1>2, <1>6, <1>8
     DEF MemInv, NothingSaved, saved, Applied, StartedEverywhere, StopKeepsItsWord

-----------------------------------------------------------------------------
LEMMA MastersType == ASSUME TypeOK, NEW l \in GetMasterNodes PROVE l \subseteq Nodes
BY InstanceAssumption DEF TypeOK, GetMasterNodes

\* Every step keeps the invariant.
LEMMA NextMem == MemInv /\ [Next]_vars => MemInv'
<1> SUFFICES ASSUME MemInv, [Next]_vars PROVE MemInv'
  OBVIOUS
<1> USE DEF MemInv
<1>1. CASE Prepare
  BY <1>1 DEF Prepare, saved, config, bounds, TypeOK, NothingSaved, Applied, Restored,
              StartedEverywhere, StopKeepsItsWord
<1>2. CASE StartBegin
  <2>1. listed' \subseteq Nodes /\ todo' \subseteq listed' /\ pc' \in {"applying", "failed"}
    BY <1>2, MastersType DEF StartBegin, TypeOK
  <2>2. faults' \in 0 .. MaxFaults
    BY <1>2, FaultType DEF StartBegin
  <2>3. TypeOK'
    BY <1>2, <2>1, <2>2 DEF StartBegin, TypeOK, state, saved, config
  <2>4. Applied'
    BY <1>2 DEF StartBegin, Applied
  <2> QED
    BY <1>2, <2>1, <2>3, <2>4
       DEF StartBegin, state, saved, NothingSaved, Restored, StartedEverywhere, StopKeepsItsWord
<1>3. CASE StartReturn
  <2>1. NothingSaved'
    BY <1>3 DEF StartReturn, saved, NothingSaved
  <2>2. TypeOK'
    BY <1>3, <2>1, EmptyMaps DEF StartReturn, TypeOK, NothingSaved, config, bounds
  <2>3. StartedEverywhere'
    BY <1>3 DEF StartReturn, StartedEverywhere, Applied, PolicyApplied, config
  <2> QED
    BY <1>3, <2>1, <2>2, <2>3 DEF StartReturn, Applied, Restored, StopKeepsItsWord
<1>4. CASE StopBegin
  <2>1. /\ listed' \subseteq Nodes /\ todo' = listed'
        /\ pc' \in {"restoring", "stopFailed"}
    BY <1>4, MastersType DEF StopBegin, TypeOK
  <2>2. faults' \in 0 .. MaxFaults
    BY <1>4, FaultType DEF StopBegin
  <2>3. stops' \in 0 .. MaxStops
    BY <1>4, BoundAssumption DEF StopBegin, TypeOK
  <2>4. TypeOK'
    BY <1>4, <2>1, <2>2, <2>3 DEF StopBegin, TypeOK, state, saved, config
  <2> QED
    BY <1>4, <2>1, <2>4
       DEF StopBegin, state, saved, NothingSaved, Applied, Restored, StartedEverywhere,
           StopKeepsItsWord
<1>5. CASE StopReturn
  <2>1. UNCHANGED <<saved, listed, config, newPolicy>> /\ pc' \in {"stopped", "stopFailed"}
    BY <1>5 DEF StopReturn, state, saved, config
  <2>2. TypeOK'
    BY <1>5, <2>1 DEF StopReturn, TypeOK, state, saved, config, bounds
  <2>3. StopKeepsItsWord'
    BY <1>5, <2>1 DEF StopReturn, StopKeepsItsWord, Restored, Given, Original, PolicyRestored,
                      config, saved
  <2> QED
    BY <2>1, <2>2, <2>3 DEF NothingSaved, saved, Applied, Restored, StartedEverywhere
<1>6. CASE Restart
  <2>1. NothingSaved' /\ pc' \in {"failed", "stopFailed"}
    BY <1>6 DEF Restart, saved, NothingSaved
  <2>2. faults' \in 0 .. MaxFaults
    BY <1>6, FaultType DEF Restart
  <2>3. TypeOK'
    BY <1>6, <2>1, <2>2, EmptyMaps DEF Restart, TypeOK, NothingSaved, config
  <2> QED
    BY <2>1, <2>3 DEF Applied, Restored, StartedEverywhere, StopKeepsItsWord
<1>7. CASE Failover
  <2>1. TypeOK'
    BY <1>7, BoundAssumption DEF Failover, TypeOK, state, saved, config
  <2> QED
    BY <1>7, <2>1
       DEF Failover, state, saved, config, NothingSaved, Applied, Restored, Given, Original,
           PolicyApplied, PolicyRestored, StartedEverywhere, StopKeepsItsWord
<1>8. CASE \E n \in Nodes : ApplyToNode(n) \/ RestoreNode(n)
  BY <1>8, ApplyKeeps, RestoreKeeps
<1>9. CASE UNCHANGED vars
  BY <1>9
     DEF vars, state, saved, config, bounds, TypeOK, NothingSaved, Applied, Restored, Given,
         Original, PolicyApplied, PolicyRestored, StartedEverywhere, StopKeepsItsWord
<1> QED
  BY <1>1, <1>2, <1>3, <1>4, <1>5, <1>6, <1>7, <1>8, <1>9 DEF Next

\* Every reachable state is well typed.
THEOREM MemTypeCorrect == Spec => []TypeOK
<1>1. MemInv => TypeOK
  BY DEF MemInv
<1> QED
  BY <1>1, InitMem, NextMem, PTL DEF Spec

\* A Start that answers without an error has limited every master it listed.
THEOREM StartReachesAll == Spec => []StartedEverywhere
<1>1. MemInv => StartedEverywhere
  BY DEF MemInv
<1> QED
  BY <1>1, InitMem, NextMem, PTL DEF Spec

\* A Stop that answers without an error has set on every master what the state holds.
THEOREM StopReachesAll == Spec => []StopKeepsItsWord
<1>1. MemInv => StopKeepsItsWord
  BY DEF MemInv
<1> QED
  BY <1>1, InitMem, NextMem, PTL DEF Spec

\* The state never holds an original: with the condition at
\* extredis/attack_maxmemory_limit.go:189 as it is, no execution can keep one.
THEOREM NoOriginalEver == Spec => []NothingSaved
<1>1. MemInv => NothingSaved
  BY DEF MemInv
<1> QED
  BY <1>1, InitMem, NextMem, PTL DEF Spec

-----------------------------------------------------------------------------
\* What follows for the servers: none that lost its original limit or policy gets it back,
\* from no Stop, retry or later handler; and a Stop that reports success has taken the limit
\* of its masters away altogether, and was for an attack that kept the policy.
NeverBack ==
    \A n \in Nodes : /\ maxmemory[n] # "orig" => maxmemory'[n] # "orig"
                     /\ policy[n] # "orig" => policy'[n] # "orig"
SuccessMeansUnlimited ==
    pc = "stopped" => \A n \in listed : newPolicy = "keep" /\ maxmemory[n] = "none"

LEMMA NodesLose == MemInv /\ [Next]_vars => NeverBack
<1> SUFFICES ASSUME MemInv, Next PROVE NeverBack
  BY DEF NeverBack, vars, config
<1>1. ASSUME config' = config PROVE NeverBack
  BY <1>1 DEF NeverBack, config
<1>2. ASSUME NEW n \in Nodes, ApplyToNode(n) PROVE NeverBack
  <2>1. perNodeMaxmem' = NoOriginals
    BY <1>2, ReadKeeps DEF ApplyToNode, ApplySucceeds, ApplyFails, saved, MemInv, NothingSaved
  <2>2. Stored(Original(perNodeMaxmem', n, Empty)) = "none"
    BY <2>1, NoOriginal DEF Stored
  <2>3. \E m \in {"limit", "none"} : maxmemory' \in {maxmemory, [maxmemory EXCEPT ![n] = m]}
    BY <1>2, <2>2 DEF ApplyToNode, ApplySucceeds, ApplyFails, config
  <2>4. policy' \in {policy, [policy EXCEPT ![n] = "new"]}
    BY <1>2 DEF ApplyToNode, ApplySucceeds, ApplyFails, config, MemInv, TypeOK
  <2> QED
    BY <2>3, <2>4 DEF NeverBack, MemInv, TypeOK
<1>3. ASSUME NEW n \in Nodes, RestoreNode(n) PROVE NeverBack
  <2>1. /\ Original(perNodeMaxmem, n, originalMaxmemory) = Empty
        /\ Original(perNodePolicy, n, originalPolicy) = Empty
    BY NoOriginal DEF MemInv, NothingSaved
  <2>2. maxmemory' \in {maxmemory, [maxmemory EXCEPT ![n] = "none"]} /\ policy' = policy
    BY <1>3, <2>1 DEF RestoreNode, Stored
  <2> QED
    BY <2>2 DEF NeverBack, MemInv, TypeOK
<1> QED
  BY <1>1, <1>2, <1>3
     DEF Next, Prepare, StartBegin, StartReturn, StopBegin, StopReturn, Restart, Failover

LEMMA StopUnlimits == MemInv => SuccessMeansUnlimited
<1> SUFFICES ASSUME MemInv, pc = "stopped", NEW n \in listed
             PROVE  newPolicy = "keep" /\ maxmemory[n] = "none"
  BY DEF SuccessMeansUnlimited
<1>1. /\ Original(perNodeMaxmem, n, originalMaxmemory) = Empty
      /\ Original(perNodePolicy, n, originalPolicy) = Empty
      /\ n \in Nodes
  BY NoOriginal DEF MemInv, NothingSaved, TypeOK
<1>2. /\ maxmemory[n] = Stored(Empty)
      /\ PolicyRestored => policy[n] = Empty
  BY <1>1 DEF MemInv, StopKeepsItsWord
<1>3. policy[n] # Empty
  BY <1>1 DEF MemInv, TypeOK, Policy, Empty
<1> QED
  BY <1>2, <1>3 DEF PolicyRestored, Stored

THEOREM OriginalsStayLost == Spec => [][NeverBack]_vars /\ []SuccessMeansUnlimited
<1>1. MemInv /\ [Next]_vars => [NeverBack]_vars
  BY NodesLose
<1> QED
  BY <1>1, StopUnlimits, InitMem, NextMem, PTL DEF Spec
=============================================================================
