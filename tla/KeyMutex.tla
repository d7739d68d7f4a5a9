------------------------------ MODULE KeyMutex ------------------------------
(***************************************************************************)
(* What lockKeys and unlockKeys promise the cache expiration attacks       *)
(* (extredis/attack_cache_expiration.go): a client gets all the keys it    *)
(* asks for in one step or none, gets none that another client holds, and  *)
(* gives all of them back in one step.  A client that holds keys asks for  *)
(* no others.                                                              *)
(***************************************************************************)
CONSTANTS Clients, Keys

VARIABLE holding     \* the keys each client holds

Init == holding = [c \in Clients |-> {}]

\* No other client holds one of the keys.
Free(c, keys) == \A d \in Clients \ {c} : holding[d] \cap keys = {}

\* lockKeys, when it answers without an error.
Acquire(c, keys) ==
    /\ holding[c] = {}
    /\ Free(c, keys)
    /\ holding' = [holding EXCEPT ![c] = keys]

\* unlockKeys of what the client holds.
Release(c) ==
    /\ holding[c] # {}
    /\ holding' = [holding EXCEPT ![c] = {}]

Next ==
    \E c \in Clients :
        \/ \E keys \in SUBSET Keys : Acquire(c, keys)
        \/ Release(c)

Spec == Init /\ [][Next]_holding
=============================================================================
