-------------------------- MODULE CacheExpirationMC --------------------------
(***************************************************************************)
(* Small instances of CacheExpiration for TLC.                             *)
(***************************************************************************)
EXTENDS CacheExpiration, TLC

CONSTANTS k1, k2, k3, v1, v2, a1, a2

TwoKeys == {k1, k2}
ThreeKeys == {k1, k2, k3}
MCValues == {v1, v2}
OneAttack == {a1}
TwoAttacks == {a1, a2}
MCSize == v1 :> 1 @@ v2 :> 2

\* Two keys without expiry, one that expires.
MixedEntries == k1 :> [val |-> v1, ttl |-> -1] @@ k2 :> [val |-> v2, ttl |-> 1]
             @@ k3 :> [val |-> v1, ttl |-> -1]

\* Values of different sizes, and no expiry.
LastingEntries == k1 :> [val |-> v1, ttl |-> -1] @@ k2 :> [val |-> v2, ttl |-> -1]

\* A scan finds one key, the other one twice, or both.
AnyList == {<<k2>>, <<k1, k1>>, <<k1, k2>>}
AnyLists == [a \in Attacks |-> AnyList]

\* Non-overlapping patterns: each execution has keys of its own.
DisjointLists == a1 :> {<<k1, k2>>, <<k1, k1>>} @@ a2 :> {<<k3>>}

\* Every execution matches the same key.
SameLists == [a \in Attacks |-> {<<k1>>}]

\* Interchangeable executions.
AttackSymmetry == Permutations(Attacks)
=============================================================================
