---------------------------- MODULE ClientRegistry ----------------------------
(***************************************************************************)
(* What clients/clients.go promises its callers: asking for a client is    *)
(* one step, which answers the client registered for the key, registering  *)
(* a new one first where there is none.                                    *)
(***************************************************************************)
CONSTANTS Callers, Keys, Clients, None

VARIABLES
    registered,   \* the client of each key, None while it has none
    got           \* the client each caller was given last

Init ==
    /\ registered = [k \in Keys |-> None]
    /\ got = [p \in Callers |-> None]

\* A caller is given the registered client, an unregistered one being registered
\* when the key has none.
GetOrRegister(p, k) ==
    /\ \/ /\ registered[k] # None
          /\ UNCHANGED registered
       \/ /\ registered[k] = None
          /\ \E c \in Clients \ {registered[j] : j \in Keys} :
               registered' = [registered EXCEPT ![k] = c]
    /\ got' = [got EXCEPT ![p] = registered'[k]]

Return(p) == got' = [got EXCEPT ![p] = None] /\ UNCHANGED registered

\* The process shuts down.
Unregister(k) == registered' = [registered EXCEPT ![k] = None] /\ UNCHANGED got

Next ==
    \/ \E p \in Callers : Return(p) \/ \E k \in Keys : GetOrRegister(p, k)
    \/ \E k \in Keys : Unregister(k)

Spec == Init /\ [][Next]_<<registered, got>>
=============================================================================
