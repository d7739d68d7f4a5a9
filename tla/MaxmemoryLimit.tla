---------------------------- MODULE MaxmemoryLimit ----------------------------
(***************************************************************************)
(* The maxmemory attack (extredis/attack_maxmemory_limit.go) on one        *)
(* instance or on the masters of a cluster, which it goes through with     *)
(* ForEachMaster (clients/clients.go).                                     *)
(*                                                                         *)
(* Start reads maxmemory and maxmemory-policy of each node to put them     *)
(* back, and sets new ones; Stop lists the masters anew and sets what the  *)
(* state holds for their addresses.  Errors of single nodes are collected: *)
(* the other nodes are gone through all the same.                          *)
(***************************************************************************)
EXTENDS Integers, FiniteSets

CONSTANTS
    Nodes,         \* addresses of the servers of a cluster
    Instance,      \* the one an attack outside of a cluster is on
    MaxFaults,     \* bound: calls to a server that fail
    MaxFailovers,  \* bound: changes of the masters
    MaxStops       \* bound: Stop calls

ASSUME InstanceAssumption == Instance \in Nodes
ASSUME BoundAssumption == MaxFaults \in Nat /\ MaxFailovers \in Nat /\ MaxStops \in Nat

Empty == ""                                 \* what a Go string holds at first
Memory == {"orig", "limit", "none"}         \* maxmemory: as before, state.NewMaxmemory, 0
Policy == {"orig", "new"}
Originals(V) == UNION {[N -> V] : N \in SUBSET Nodes}   \* maps from addresses
NoOriginals == [n \in {} |-> Empty]

VARIABLES
    pc,                 \* where the attack is
    cluster,            \* state.ClusterMode
    newPolicy,          \* state.NewPolicy: keep, new or not given
    originalMaxmemory, originalPolicy,   \* state.OriginalMaxmemory, OriginalPolicy
    perNodeMaxmem, perNodePolicy,        \* state.PerNodeOrigMaxmem, PerNodeOrigPolicy
    listed,             \* masters ForEachMaster goes through
    todo,               \* those it has not come to
    errors,             \* errs of Start, restoreErrors of Stop
    maxmemory, policy,  \* configuration of each server
    masters, faults, failovers, stops

saved == <<originalMaxmemory, originalPolicy, perNodeMaxmem, perNodePolicy>>
state == <<cluster, newPolicy, saved>>
config == <<maxmemory, policy>>
bounds == <<masters, faults, failovers, stops>>
vars == <<pc, state, listed, todo, errors, config, bounds>>

Init ==
    /\ pc = "new"
    /\ cluster = FALSE
    /\ newPolicy = Empty
    /\ originalMaxmemory = Empty
    /\ originalPolicy = Empty
    /\ perNodeMaxmem = NoOriginals
    /\ perNodePolicy = NoOriginals
    /\ listed = {}
    /\ todo = {}
    /\ errors = {}
    /\ maxmemory = [n \in Nodes |-> "orig"]
    /\ policy = [n \in Nodes |-> "orig"]
    /\ masters \in SUBSET Nodes \ {{}}
    /\ Instance \in masters
    /\ faults = 0
    /\ failovers = 0
    /\ stops = 0

\* Prepare stores the request and asks the instance for its mode; it fails before
\* anything happened when the instance does not answer.
Prepare ==
    /\ pc = "new"
    /\ pc' = "prepared"
    /\ cluster' \in BOOLEAN
    /\ newPolicy' \in {"keep", "new", Empty}
    /\ UNCHANGED <<saved, listed, todo, errors, config, bounds>>

\* GetMasterNodes: the masters of CLUSTER NODES, less those that are flagged as failing or
\* whose flags merely contain the word (fail?, nofailover).  It asks for the mode again,
\* and takes a server that does not tell it for a standalone one.
GetMasterNodes == {{Instance}} \cup (IF cluster THEN SUBSET masters ELSE {})

Fault == faults < MaxFaults /\ faults' = faults + 1
NoFault == UNCHANGED faults

\* Mutant of StartBegin: replicas are gone through as well.
StartBeginAllNodes ==
    /\ pc = "prepared"
    /\ NoFault
    /\ pc' = "applying"
    /\ listed' \in GetMasterNodes
    /\ todo' = Nodes
    /\ errors' = {}
    /\ UNCHANGED <<state, config, masters, failovers, stops>>

\* Start lists the nodes it goes through, or fails to.
StartBegin ==
    /\ pc = "prepared"
    /\ \/ /\ Fault
          /\ pc' = "failed"
          /\ UNCHANGED <<listed, todo>>
       \/ /\ NoFault
          /\ pc' = "applying"
          /\ listed' \in GetMasterNodes
          /\ todo' = listed'
    /\ errors' = {}
    /\ UNCHANGED <<state, config, masters, failovers, stops>>

\* CONFIG GET answers the parameters that match the name, which is one; go-redis
\* makes a map of name and value of it.
ConfigGet(name, value) == [p \in {name} |-> value]

\* Start keeps an original when the answer has two entries at least.
Keeps(answer) == Cardinality(DOMAIN answer) >= 2

\* The state when a node's configuration has been read.
Read(n) ==
    LET mem == ConfigGet("maxmemory", maxmemory[n])
        pol == ConfigGet("maxmemory-policy", policy[n])
        With(f, v) == [m \in DOMAIN f \cup {n} |-> IF m = n THEN v ELSE f[m]]
    IN /\ IF Keeps(mem)
          THEN /\ perNodeMaxmem' = With(perNodeMaxmem, mem["maxmemory"])
               /\ originalMaxmemory' = IF originalMaxmemory = Empty
                                       THEN mem["maxmemory"] ELSE originalMaxmemory
          ELSE UNCHANGED <<perNodeMaxmem, originalMaxmemory>>
       /\ IF Keeps(pol)
          THEN /\ perNodePolicy' = With(perNodePolicy, pol["maxmemory-policy"])
               /\ originalPolicy' = IF originalPolicy = Empty
                                    THEN pol["maxmemory-policy"] ELSE originalPolicy
          ELSE UNCHANGED <<perNodePolicy, originalPolicy>>

\* The value CONFIG SET maxmemory stores.  It refuses the empty string or reads it
\* as 0, depending on the C library the server is linked with.
Stored(v) == IF v = Empty THEN "none" ELSE v

\* A map's value for a node, or else the given one.
Original(perNode, n, original) == IF n \in DOMAIN perNode THEN perNode[n] ELSE original

\* Start leaves the policy alone when none is given; Stop does only when it is kept.
PolicyApplied == newPolicy \notin {"keep", Empty}
PolicyRestored == newPolicy # "keep"

\* Mutant of ApplyFails: applyToNode ignores the error.
ApplyFailsQuietly(n) ==
    /\ Fault
    /\ UNCHANGED <<saved, config, errors>>

\* applyToNode fails: at the ping or at CONFIG GET of maxmemory, later with
\* maxmemory set or not, or at the policy, when the limit is undone with the saved
\* value of the node.  The call that fails may still have had its effect.
ApplyFails(n) ==
    /\ Fault
    /\ errors' = errors \cup {n}
    /\ \/ UNCHANGED <<saved, config>>
       \/ /\ Read(n)
          /\ maxmemory' \in {maxmemory, [maxmemory EXCEPT ![n] = "limit"]}
          /\ UNCHANGED policy
       \/ /\ PolicyApplied
          /\ Read(n)
          /\ \E m \in {"limit", Stored(Original(perNodeMaxmem', n, Empty))} :
               maxmemory' = [maxmemory EXCEPT ![n] = m]
          /\ policy' \in {policy, [policy EXCEPT ![n] = "new"]}

ApplySucceeds(n) ==
    /\ NoFault
    /\ Read(n)
    /\ maxmemory' = [maxmemory EXCEPT ![n] = "limit"]
    /\ policy' = [policy EXCEPT ![n] = IF PolicyApplied THEN "new" ELSE @]
    /\ UNCHANGED errors

\* ForEachMaster comes to a node.
ApplyToNode(n) ==
    /\ pc = "applying"
    /\ n \in todo
    /\ todo' = todo \ {n}
    /\ ApplySucceeds(n) \/ ApplyFails(n)
    /\ UNCHANGED <<pc, cluster, newPolicy, listed, masters, failovers, stops>>

\* Start answers, with an error when there was one on any node: then the agent keeps
\* the state of Prepare.
StartReturn ==
    /\ pc = "applying"
    /\ todo = {}
    /\ \/ /\ errors = {}
          /\ pc' = "active"
          /\ UNCHANGED saved
       \/ /\ errors # {}
          /\ pc' = "failed"
          /\ originalMaxmemory' = Empty
          /\ originalPolicy' = Empty
          /\ perNodeMaxmem' = NoOriginals
          /\ perNodePolicy' = NoOriginals
    /\ UNCHANGED <<cluster, newPolicy, listed, todo, errors, config, bounds>>

-----------------------------------------------------------------------------
\* The agent calls Stop, again when it failed.  The error of a listing that fails is
\* dropped in a cluster, as all errors of ForEachMaster are; outside of one it is
\* the answer.
StopBegin ==
    /\ pc \in {"prepared", "failed", "active", "stopFailed"}
    /\ stops < MaxStops
    /\ stops' = stops + 1
    /\ errors' = {}
    /\ \/ /\ NoFault
          /\ pc' = "restoring"
          /\ listed' \in GetMasterNodes
       \/ /\ Fault
          /\ pc' = IF cluster THEN "restoring" ELSE "stopFailed"
          /\ listed' = {}
    /\ todo' = listed'
    /\ UNCHANGED <<state, config, masters, failovers>>

\* Mutant of RestoreErrors: the last setting decides.
LastRefused(n, memoryFails, policyFails) ==
    IF policyFails THEN errors \cup {n} ELSE errors \ {n}

\* restoreErrors after a node.
RestoreErrors(n, memoryFails, policyFails) ==
    IF memoryFails \/ policyFails THEN errors \cup {n} ELSE errors

\* restoreNode sets what was saved for the address, or else for the first node.
\* Redis refuses the empty string as a policy and may refuse it as maxmemory; a call
\* that fails for another reason may still have had its effect.
RestoreNode(n) ==
    /\ pc = "restoring"
    /\ n \in todo
    /\ todo' = todo \ {n}
    /\ LET origMaxmem == Original(perNodeMaxmem, n, originalMaxmemory)
           origPolicy == Original(perNodePolicy, n, originalPolicy)
           restored == [maxmemory EXCEPT ![n] = Stored(origMaxmem)]
       IN \E memoryFails, policyFails \in BOOLEAN :
            /\ IF PolicyRestored THEN origPolicy = Empty => policyFails ELSE ~policyFails
            /\ maxmemory' \in IF memoryFails THEN {maxmemory, restored} ELSE {restored}
            /\ policy' = IF policyFails \/ ~PolicyRestored THEN policy
                         ELSE [policy EXCEPT ![n] = origPolicy]
            /\ IF \/ memoryFails /\ (origMaxmem # Empty \/ maxmemory' # maxmemory)
                  \/ policyFails /\ origPolicy # Empty
               THEN Fault ELSE NoFault
            /\ errors' = RestoreErrors(n, memoryFails, policyFails)
    /\ UNCHANGED <<pc, state, listed, masters, failovers, stops>>

StopReturn ==
    /\ pc = "restoring"
    /\ todo = {}
    /\ pc' = IF errors = {} THEN "stopped" ELSE "stopFailed"
    /\ UNCHANGED <<state, listed, todo, errors, config, bounds>>

-----------------------------------------------------------------------------
\* The extension is restarted while it answers Start, when the agent keeps the state
\* of Prepare, or Stop.
Restart ==
    /\ Fault
    /\ todo' = {}
    /\ \/ /\ pc = "applying"
          /\ pc' = "failed"
          /\ originalMaxmemory' = Empty
          /\ originalPolicy' = Empty
          /\ perNodeMaxmem' = NoOriginals
          /\ perNodePolicy' = NoOriginals
       \/ /\ pc = "restoring"
          /\ pc' = "stopFailed"
          /\ UNCHANGED saved
    /\ UNCHANGED <<cluster, newPolicy, listed, errors, config, masters, failovers, stops>>

\* Replicas take over from masters.
Failover ==
    /\ failovers < MaxFailovers
    /\ failovers' = failovers + 1
    /\ masters' \in SUBSET Nodes \ {{}, masters}
    /\ UNCHANGED <<pc, state, listed, todo, errors, config, faults, stops>>

Next ==
    \/ Prepare \/ StartBegin \/ StartReturn \/ StopBegin \/ StopReturn \/ Restart \/ Failover
    \/ \E n \in Nodes : ApplyToNode(n) \/ RestoreNode(n)

Spec == Init /\ [][Next]_vars

-----------------------------------------------------------------------------
\* Every variable has its type; the nodes still to come to are listed ones.
TypeOK ==
    /\ pc \in {"new", "prepared", "applying", "active", "failed", "restoring", "stopped",
              "stopFailed"}
    /\ cluster \in BOOLEAN
    /\ newPolicy \in {Empty, "keep", "new"}
    /\ originalMaxmemory \in Memory \cup {Empty}
    /\ originalPolicy \in Policy \cup {Empty}
    /\ perNodeMaxmem \in Originals(Memory)
    /\ perNodePolicy \in Originals(Policy)
    /\ listed \subseteq Nodes
    /\ todo \subseteq listed
    /\ errors \subseteq Nodes
    /\ maxmemory \in [Nodes -> Memory]
    /\ policy \in [Nodes -> Policy]
    /\ masters \subseteq Nodes
    /\ faults \in 0 .. MaxFaults
    /\ failovers \in 0 .. MaxFailovers
    /\ stops \in 0 .. MaxStops

\* An attack that reports its start has limited every master it listed, and set the
\* policy there: no node's error is lost on the way through ForEachMaster.
StartedEverywhere ==
    pc = "active" =>
        \A n \in listed : maxmemory[n] = "limit" /\ (PolicyApplied => policy[n] = "new")

\* A Stop that answers without an error has given each master it reached the values
\* of its state, in both settings.
StopKeepsItsWord ==
    pc = "stopped" =>
        \A n \in listed :
            /\ maxmemory[n] = Stored(Original(perNodeMaxmem, n, originalMaxmemory))
            /\ PolicyRestored => policy[n] = Original(perNodePolicy, n, originalPolicy)

\* An attack that runs holds the settings each master had before ("Save original config
\* per node", extredis/attack_maxmemory_limit.go:184): Stop has no other source.
OriginalsSaved ==
    pc = "active" =>
        \A n \in listed : n \in DOMAIN perNodeMaxmem /\ n \in DOMAIN perNodePolicy
=============================================================================
