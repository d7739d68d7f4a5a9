----------------------------- MODULE ClientPause -----------------------------
(***************************************************************************)
(* The client pause attack (extredis/attack_client_pause.go).  Start sends *)
(* CLIENT PAUSE to one instance or, with ForEachMaster (clients/clients.go),*)
(* to the masters of a cluster; Stop lists the masters anew and sends      *)
(* CLIENT UNPAUSE.  A server has one pause for all who asked for one.      *)
(*                                                                         *)
(* The time a pause lasts is computed once, before the first server is     *)
(* called, and every call takes time: pauses on later servers end later.   *)
(***************************************************************************)
EXTENDS Clock, ClusterNodes, FiniteSets

CONSTANTS
    Pauses,          \* executions of the attack
    Requests,        \* per execution: the durations, in seconds, and modes it may ask for,
                     \* and whether its URL is that of a cluster's endpoint
    CallTimeout,     \* bound: seconds the calls for one server take
    MaxPauseStops    \* bound: Stop calls per execution

ASSUME PauseAssumption == /\ IsFiniteSet(Nodes)
                          /\ Requests \in [Pauses -> SUBSET
                                [duration : Nat, mode : {"ALL", "WRITE"}, cluster : BOOLEAN]]
                          /\ CallTimeout \in Nat
                          /\ MaxPauseStops \in Nat

VARIABLES
    pause,        \* per execution: where it is, its ClientPauseState, its loop
    pausedUntil,  \* per server: when its pause ends
    pausedAll     \* the servers told to pause every command, not only writes

pauseVars == <<pause, pausedUntil, pausedAll>>
servers == <<pausedUntil, pausedAll>>

At == {"new", "prepared", "listing", "pausing", "running", "failed", "resuming", "stopped", "stopFailed"}

NewPause == [at |-> "new", mode |-> "ALL", cluster |-> FALSE, endTime |-> 0, length |-> 0,
             listed |-> {}, todo |-> {}, errors |-> {}, since |-> 0, stops |-> 0]

PauseInit ==
    /\ pause = [e \in Pauses |-> NewPause]
    /\ pausedUntil = [n \in Nodes |-> 0]
    /\ pausedAll = {}

Paused(n) == now < pausedUntil[n]

\* A server that pauses every command answers none, PING and INFO included.
Responds(n) == ~(Paused(n) /\ n \in pausedAll)

\* What is left of the attack's duration (pauseDurationMs, in seconds).
Remaining(e) == pause[e].endTime - now

\* Prepare pings the server; a mode that is neither is ALL.  A cluster is not seen when
\* Redis does not tell of it, and not asked for when the URL is of no endpoint.
PausePrepare(e) ==
    /\ pause[e].at = "new"
    /\ Responds(Endpoint)
    /\ \E request \in Requests[e], cluster \in BOOLEAN :
         /\ cluster => request.cluster
         /\ pause' = [pause EXCEPT ![e] = [NewPause EXCEPT !.at = "prepared",
                        !.mode = request.mode, !.cluster = cluster,
                        !.endTime = now + request.duration]]
    /\ UNCHANGED <<now, servers>>

\* The servers ForEachMaster goes through.  GetMasterNodes asks the endpoint for its
\* mode again, and takes one that does not answer for a standalone server.
Listings(e) ==
    {{Endpoint}} \cup (IF pause[e].cluster /\ Responds(Endpoint) THEN MasterLists ELSE {})

\* Mutant of PauseStart: the pause lasts the whole duration from Start on.
PauseStartWholeDuration(e) ==
    /\ pause[e].at = "prepared"
    /\ pause' = [pause EXCEPT ![e] = [@ EXCEPT !.at = "listing", !.length = pause[e].endTime,
                                               !.since = now]]
    /\ UNCHANGED <<now, servers>>

\* Start computes the length of the pause, or fails before it has called anyone.
PauseStart(e) ==
    /\ pause[e].at = "prepared"
    /\ \/ pause' = [pause EXCEPT ![e].at = "failed"]
       \/ /\ Remaining(e) > 0
          /\ pause' = [pause EXCEPT ![e] = [@ EXCEPT !.at = "listing", !.length = Remaining(e),
                                                     !.since = now]]
    /\ UNCHANGED <<now, servers>>

\* The handler is over, and its variables with it.
Answered(e, at) ==
    pause' = [pause EXCEPT ![e] = [@ EXCEPT !.at = at, !.length = 0, !.todo = {},
                                   !.errors = {}, !.since = 0]]

\* Then it lists the servers of a cluster, which may fail; a single server it has by name.
PauseListed(e) ==
    /\ pause[e].at = "listing"
    /\ \/ Answered(e, "failed")
       \/ \E listed \in Listings(e) :
            pause' = [pause EXCEPT ![e] = [@ EXCEPT !.at = "pausing", !.listed = listed,
                                                    !.todo = listed, !.since = now]]
    /\ UNCHANGED <<now, servers>>

\* CLIENT PAUSE: neither the end nor the mode of a pause that holds is lowered.
PauseServer(n, mode, until) ==
    /\ pausedUntil' = [pausedUntil EXCEPT ![n] = IF @ > until THEN @ ELSE until]
    /\ pausedAll' = IF mode = "ALL" THEN pausedAll \cup {n}
                    ELSE IF Paused(n) THEN pausedAll ELSE pausedAll \ {n}

\* CLIENT UNPAUSE ends the pause, whoever asked for it.
UnpauseServer(n) ==
    /\ pausedUntil' = [pausedUntil EXCEPT ![n] = 0]
    /\ pausedAll' = pausedAll \ {n}

\* ForEachMaster goes on to the next server, and remembers one that failed.
Visited(e, n, failed) ==
    pause' = [pause EXCEPT ![e] = [@ EXCEPT !.todo = pause[e].todo \ {n}, !.since = now,
                                            !.errors = pause[e].errors \cup failed]]

\* pauseNode: ping the server and pause it.  A call that fails may have had its effect.
PauseNode(e, n) ==
    /\ pause[e].at = "pausing"
    /\ n \in pause[e].todo
    /\ \/ /\ Responds(n)
          /\ \E failed \in SUBSET {n} : Visited(e, n, failed)
          /\ PauseServer(n, pause[e].mode, now + pause[e].length)
       \/ /\ Visited(e, n, {n})
          /\ UNCHANGED servers
    /\ UNCHANGED now

\* Mutant of PauseReturn: Start reports the servers it reached.
PauseReturnPartial(e) ==
    /\ pause[e].at = "pausing"
    /\ pause[e].todo = {}
    /\ Answered(e, "running")
    /\ UNCHANGED <<now, servers>>

\* Start answers, with an error when there was one at any server.
PauseReturn(e) ==
    /\ pause[e].at = "pausing"
    /\ pause[e].todo = {}
    /\ Answered(e, IF pause[e].errors = {} THEN "running" ELSE "failed")
    /\ UNCHANGED <<now, servers>>

-----------------------------------------------------------------------------
\* The agent calls Stop, for an attack that never started too, and again when it
\* failed.  The servers are listed anew, which may fail.
PauseStop(e) ==
    /\ pause[e].at \in {"prepared", "running", "failed", "stopFailed"}
    /\ pause[e].stops < MaxPauseStops
    /\ \/ pause' = [pause EXCEPT ![e] = [@ EXCEPT !.at = "stopFailed", !.stops = pause[e].stops + 1]]
       \/ \E listed \in Listings(e) :
            pause' = [pause EXCEPT ![e] = [@ EXCEPT !.at = "resuming", !.stops = pause[e].stops + 1,
                           !.listed = listed, !.todo = listed, !.since = now]]
    /\ UNCHANGED <<now, servers>>

\* unpauseNode.  A server that pauses every command answers UNPAUSE or not, depending
\* on its version; a call that fails may have had its effect.
UnpauseNode(e, n) ==
    /\ pause[e].at = "resuming"
    /\ n \in pause[e].todo
    /\ \/ \E failed \in SUBSET {n} : Visited(e, n, failed) /\ UnpauseServer(n)
       \/ Visited(e, n, {n}) /\ UNCHANGED servers
    /\ UNCHANGED now

\* Mutant of UnpauseReturn: errors of single servers are not told.
UnpauseReturnAlways(e) ==
    /\ pause[e].at = "resuming"
    /\ pause[e].todo = {}
    /\ Answered(e, "stopped")
    /\ UNCHANGED <<now, servers>>

\* Stop answers.
UnpauseReturn(e) ==
    /\ pause[e].at = "resuming"
    /\ pause[e].todo = {}
    /\ Answered(e, IF pause[e].errors = {} THEN "stopped" ELSE "stopFailed")
    /\ UNCHANGED <<now, servers>>

\* The extension is restarted in the middle of Start or of Stop: no answer.
PauseInterrupted(e) ==
    /\ \/ pause[e].at \in {"listing", "pausing"} /\ Answered(e, "failed")
       \/ pause[e].at = "resuming" /\ Answered(e, "stopFailed")
    /\ UNCHANGED <<now, servers>>

PauseReturns(e) == PauseReturn(e) \/ UnpauseReturn(e) \/ PauseInterrupted(e)

\* A pause that has expired is gone.
Expire ==
    /\ pausedUntil' = [n \in Nodes |-> IF pausedUntil[n] <= now' THEN 0 ELSE pausedUntil[n]]
    /\ pausedAll' = {n \in pausedAll : pausedUntil[n] > now'}

\* No call outlasts its timeout; a single server is listed without one.
InTime == \A e \in Pauses :
    pause[e].at \in {"listing", "pausing", "resuming"} =>
        /\ now < pause[e].since + CallTimeout
        /\ pause[e].at = "listing" => pause[e].cluster

PauseNext ==
    \/ \E e \in Pauses :
         \/ PausePrepare(e) \/ PauseStart(e) \/ PauseListed(e) \/ PauseStop(e) \/ PauseReturns(e)
         \/ \E n \in Nodes : PauseNode(e, n) \/ UnpauseNode(e, n)
    \/ Passes /\ InTime /\ Expire /\ UNCHANGED pause

PauseSpec == now = 0 /\ PauseInit /\ [][PauseNext]_<<now, pauseVars>>

-----------------------------------------------------------------------------
Execution == [at : At, mode : {"ALL", "WRITE"}, cluster : BOOLEAN, endTime : Nat,
              length : Nat, listed : SUBSET Nodes, todo : SUBSET Nodes,
              errors : SUBSET Nodes, since : Nat, stops : 0 .. MaxPauseStops]

\* Every variable has its type; the servers to come to are listed, the errors are of
\* listed servers that were come to, and only a handler at work has any.
PauseTypeOK ==
    /\ now \in Nat
    /\ pause \in [Pauses -> Execution]
    /\ \A e \in Pauses :
         /\ pause[e].todo \subseteq pause[e].listed
         /\ pause[e].errors \subseteq pause[e].listed \ pause[e].todo
         /\ pause[e].at \notin {"pausing", "resuming"} =>
                pause[e].todo = {} /\ pause[e].errors = {}
    /\ pausedUntil \in [Nodes -> Nat]
    /\ pausedAll \subseteq Nodes

\* Until its end time an attack that runs has every server it listed paused, in its
\* mode, whatever other attacks asked the server for; the Stop of another one is the
\* exception, since CLIENT UNPAUSE does not tell pauses apart.
PausedUntilEnd ==
    \A e \in Pauses :
        \/ pause[e].at # "running" \/ now >= pause[e].endTime
        \/ \E x \in Pauses \ {e} : pause[x].stops > 0
        \/ \A n \in pause[e].listed : /\ pausedUntil[n] >= pause[e].endTime
                                      /\ pause[e].mode = "ALL" => n \in pausedAll

\* "Auto-reverts after timeout" (README.md:83), Stop or no Stop: a server's pause ends
\* by the end time of an attack, but for the time Start took to come to the server: one
\* call's for a single server; for a cluster one to list the servers, and one for each.
PausesExpire ==
    \A n \in Nodes :
        pausedUntil[n] > 0 =>
            \E e \in Pauses :
                pausedUntil[n] <= pause[e].endTime +
                    CallTimeout * (IF pause[e].cluster THEN Cardinality(Nodes) + 1 ELSE 1)

\* When every attack that was prepared has been stopped with success, only a server that
\* one of the Stops did not list is still paused, whatever failed before.
NothingLeftPaused ==
    \A n \in Nodes :
        pausedUntil[n] > 0 =>
            \E e \in Pauses : /\ pause[e].at \notin {"new", "prepared"}
                              /\ pause[e].at = "stopped" => n \notin pause[e].listed
=============================================================================
