-------------------------- MODULE ClientPauseProofs --------------------------
(***************************************************************************)
(* Proofs about the client pause attack: for any servers, executions,      *)
(* durations, failing calls and restarts a pause lasts as long as it was   *)
(* asked for, expires, and is ended by Stop.                               *)
(***************************************************************************)
EXTENDS ClientPause, FiniteSetTheorems, TLAPS

-----------------------------------------------------------------------------
\* What each action does to the record of its execution.

Others(e) == \A x \in Pauses \ {e} : pause'[x] = pause[x]

LEMMA Updated ==
    ASSUME NEW e \in Pauses, NEW r \in Execution, pause \in [Pauses -> Execution],
           pause' = [pause EXCEPT ![e] = r]
    PROVE  pause' \in [Pauses -> Execution] /\ Others(e) /\ pause'[e] = r
BY DEF Others

\* Prepare fills the record of a new execution.
LEMMA PrepareEffect ==
    ASSUME PauseTypeOK, NEW e \in Pauses, PausePrepare(e)
    PROVE  /\ pause' \in [Pauses -> Execution] /\ Others(e)
           /\ pause[e].at = "new" /\ pause'[e].at = "prepared"
           /\ pause'[e].todo = {} /\ pause'[e].errors = {}
           /\ pause'[e].endTime >= now
           /\ UNCHANGED <<now, pausedUntil, pausedAll>>
<1>1. PICK request \in Requests[e], cluster \in BOOLEAN :
         pause' = [pause EXCEPT ![e] = [NewPause EXCEPT !.at = "prepared",
                        !.mode = request.mode, !.cluster = cluster,
                        !.endTime = now + request.duration]]
  BY DEF PausePrepare
<1>2. request.duration \in Nat /\ request.mode \in {"ALL", "WRITE"}
  BY PauseAssumption
<1>3. now \in Nat /\ now + request.duration \in Nat /\ now + request.duration >= now
  BY <1>2 DEF PauseTypeOK
<1> DEFINE r == [NewPause EXCEPT !.at = "prepared", !.mode = request.mode, !.cluster = cluster,
                                 !.endTime = now + request.duration]
<1>4. r \in Execution
  <2>1. 0 \in 0 .. MaxPauseStops
    BY PauseAssumption
  <2>2. NewPause \in Execution
    BY <2>1 DEF NewPause, Execution, At
  <2>3. cluster \in {TRUE, FALSE}
    OBVIOUS
  <2>4. CASE cluster = TRUE
    BY <1>2, <1>3, <2>2, <2>4 DEF Execution, At
  <2>5. CASE cluster = FALSE
    BY <1>2, <1>3, <2>2, <2>5 DEF Execution, At
  <2> QED
    BY <2>3, <2>4, <2>5
<1>5. r.at = "prepared" /\ r.todo = {} /\ r.errors = {} /\ r.endTime >= now
  BY <1>3 DEF NewPause
<1>6. pause[e].at = "new" /\ UNCHANGED <<now, pausedUntil, pausedAll>>
  BY DEF PausePrepare, servers
<1>7. pause' = [pause EXCEPT ![e] = r]
  BY <1>1
<1> HIDE DEF r
<1> QED
  BY <1>4, <1>5, <1>6, <1>7, Updated DEF PauseTypeOK

\* Servers are listed from the known ones.
LEMMA ListingsType == \A e \in Pauses : Listings(e) \subseteq SUBSET Nodes
BY NodesAssumption, ViewsAssumption DEF Listings, MasterLists, Masters, ParsedNodes

\* Start computes the length, or fails.
LEMMA StartEffect ==
    ASSUME PauseTypeOK, NEW e \in Pauses, PauseStart(e)
    PROVE  /\ pause' \in [Pauses -> Execution] /\ Others(e)
           /\ pause[e].at = "prepared"
           /\ pause'[e].endTime = pause[e].endTime /\ pause'[e].mode = pause[e].mode
           /\ pause'[e].cluster = pause[e].cluster
           /\ pause'[e].stops = pause[e].stops /\ pause'[e].errors = pause[e].errors
           /\ \/ /\ pause'[e].at = "failed"
                 /\ pause'[e].todo = pause[e].todo /\ pause'[e].listed = pause[e].listed
              \/ /\ pause'[e].at = "listing"
                 /\ pause'[e].todo = pause[e].todo /\ pause'[e].listed = pause[e].listed
                 /\ pause'[e].length = pause[e].endTime - now /\ pause'[e].since = now
           /\ UNCHANGED <<now, pausedUntil, pausedAll>>
<1>1. pause[e].at = "prepared" /\ UNCHANGED <<now, pausedUntil, pausedAll>>
  BY DEF PauseStart, servers
<1>2. pause \in [Pauses -> Execution] /\ now \in Nat
  BY DEF PauseTypeOK
<1>3. CASE pause' = [pause EXCEPT ![e].at = "failed"]
  <2> DEFINE r == [pause[e] EXCEPT !.at = "failed"]
  <2>1. /\ r \in Execution
        /\ r.at = "failed" /\ r.endTime = pause[e].endTime /\ r.mode = pause[e].mode
        /\ r.cluster = pause[e].cluster
        /\ r.stops = pause[e].stops /\ r.errors = pause[e].errors
        /\ r.todo = pause[e].todo /\ r.listed = pause[e].listed
    BY <1>2 DEF Execution, At
  <2>2. pause' = [pause EXCEPT ![e] = r]
    BY <1>2, <1>3
  <2> HIDE DEF r
  <2> QED
    BY <1>1, <1>2, <2>1, <2>2, Updated
<1>4. CASE /\ Remaining(e) > 0
           /\ pause' = [pause EXCEPT ![e] = [@ EXCEPT !.at = "listing", !.length = Remaining(e),
                                                      !.since = now]]
  <2>1. Remaining(e) \in Nat /\ Remaining(e) = pause[e].endTime - now
    BY <1>2, <1>4 DEF Remaining, Execution
  <2> DEFINE r == [pause[e] EXCEPT !.at = "listing", !.length = Remaining(e), !.since = now]
  <2>2. /\ r \in Execution
        /\ r.at = "listing" /\ r.endTime = pause[e].endTime /\ r.mode = pause[e].mode
        /\ r.cluster = pause[e].cluster
        /\ r.stops = pause[e].stops /\ r.errors = pause[e].errors
        /\ r.todo = pause[e].todo /\ r.listed = pause[e].listed
        /\ r.length = pause[e].endTime - now /\ r.since = now
    BY <1>2, <2>1 DEF Execution, At
  <2>3. pause' = [pause EXCEPT ![e] = r]
    BY <1>4
  <2> HIDE DEF r
  <2> QED
    BY <1>1, <1>2, <2>2, <2>3, Updated
<1> QED
  BY <1>3, <1>4 DEF PauseStart

\* An answer clears what the handler worked with.
LEMMA AnsweredEffect ==
    ASSUME PauseTypeOK, NEW e \in Pauses, NEW at \in At, Answered(e, at)
    PROVE  /\ pause' \in [Pauses -> Execution] /\ Others(e)
           /\ pause'[e].endTime = pause[e].endTime /\ pause'[e].mode = pause[e].mode
           /\ pause'[e].cluster = pause[e].cluster
           /\ pause'[e].stops = pause[e].stops /\ pause'[e].listed = pause[e].listed
           /\ pause'[e].todo = {} /\ pause'[e].errors = {} /\ pause'[e].at = at
<1>1. pause \in [Pauses -> Execution]
  BY DEF PauseTypeOK
<1> DEFINE r == [pause[e] EXCEPT !.at = at, !.length = 0, !.todo = {}, !.errors = {}, !.since = 0]
<1>2. /\ r \in Execution
      /\ r.endTime = pause[e].endTime /\ r.mode = pause[e].mode
      /\ r.cluster = pause[e].cluster
      /\ r.stops = pause[e].stops /\ r.listed = pause[e].listed
      /\ r.todo = {} /\ r.errors = {} /\ r.at = at
  BY <1>1 DEF Execution
<1>3. pause' = [pause EXCEPT ![e] = r]
  BY DEF Answered
<1> HIDE DEF r
<1> QED
  BY <1>1, <1>2, <1>3, Updated

\* Start lists servers, or fails.
LEMMA ListedEffect ==
    ASSUME PauseTypeOK, NEW e \in Pauses, PauseListed(e)
    PROVE  /\ pause' \in [Pauses -> Execution] /\ Others(e)
           /\ pause[e].at = "listing"
           /\ pause'[e].endTime = pause[e].endTime /\ pause'[e].mode = pause[e].mode
           /\ pause'[e].cluster = pause[e].cluster
           /\ pause'[e].stops = pause[e].stops
           /\ \/ /\ pause'[e].at = "failed"
                 /\ pause'[e].todo = {} /\ pause'[e].errors = {}
                 /\ pause'[e].listed = pause[e].listed
              \/ /\ pause'[e].at = "pausing" /\ pause'[e].todo = pause'[e].listed
                 /\ pause'[e].errors = pause[e].errors
                 /\ pause'[e].length = pause[e].length /\ pause'[e].since = now
                 /\ ~pause[e].cluster => pause'[e].listed = {Endpoint}
           /\ UNCHANGED <<now, pausedUntil, pausedAll>>
<1>1. pause[e].at = "listing" /\ UNCHANGED <<now, pausedUntil, pausedAll>>
  BY DEF PauseListed, servers
<1>2. pause \in [Pauses -> Execution] /\ now \in Nat /\ "failed" \in At
  BY DEF PauseTypeOK, At
<1>3. CASE Answered(e, "failed")
  BY <1>1, <1>2, <1>3, AnsweredEffect
<1>4. CASE \E listed \in Listings(e) :
            pause' = [pause EXCEPT ![e] = [@ EXCEPT !.at = "pausing", !.listed = listed,
                                                    !.todo = listed, !.since = now]]
  <2>1. PICK listed \in Listings(e) :
            pause' = [pause EXCEPT ![e] = [pause[e] EXCEPT !.at = "pausing", !.listed = listed,
                                                           !.todo = listed, !.since = now]]
    BY <1>4
  <2>2. listed \in SUBSET Nodes /\ (~pause[e].cluster => listed = {Endpoint})
    BY ListingsType DEF Listings
  <2> DEFINE r == [pause[e] EXCEPT !.at = "pausing", !.listed = listed, !.todo = listed,
                                   !.since = now]
  <2>3. /\ r \in Execution
        /\ r.at = "pausing" /\ r.endTime = pause[e].endTime /\ r.mode = pause[e].mode
        /\ r.cluster = pause[e].cluster
        /\ r.stops = pause[e].stops /\ r.errors = pause[e].errors
        /\ r.todo = listed /\ r.listed = listed
        /\ r.length = pause[e].length /\ r.since = now
    BY <1>2, <2>2 DEF Execution, At
  <2>4. pause' = [pause EXCEPT ![e] = r]
    BY <2>1
  <2> HIDE DEF r
  <2> QED
    BY <1>1, <1>2, <2>2, <2>3, <2>4, Updated
<1> QED
  BY <1>3, <1>4 DEF PauseListed

\* Stop lists servers, or fails.
LEMMA StopEffect ==
    ASSUME PauseTypeOK, NEW e \in Pauses, PauseStop(e)
    PROVE  /\ pause' \in [Pauses -> Execution] /\ Others(e)
           /\ pause[e].at \in {"prepared", "running", "failed", "stopFailed"}
           /\ pause'[e].endTime = pause[e].endTime
           /\ pause'[e].cluster = pause[e].cluster
           /\ pause'[e].stops = pause[e].stops + 1 /\ pause'[e].errors = pause[e].errors
           /\ \/ /\ pause'[e].at = "stopFailed"
                 /\ pause'[e].todo = pause[e].todo /\ pause'[e].listed = pause[e].listed
              \/ pause'[e].at = "resuming" /\ pause'[e].todo = pause'[e].listed
           /\ UNCHANGED <<now, pausedUntil, pausedAll>>
<1>1. /\ pause[e].at \in {"prepared", "running", "failed", "stopFailed"}
      /\ pause[e].stops < MaxPauseStops
      /\ UNCHANGED <<now, pausedUntil, pausedAll>>
  BY DEF PauseStop, servers
<1>2. pause \in [Pauses -> Execution] /\ now \in Nat
  BY DEF PauseTypeOK
<1>3. pause[e].stops + 1 \in 0 .. MaxPauseStops
  BY <1>1, <1>2, PauseAssumption DEF Execution
<1>4. CASE pause' = [pause EXCEPT ![e] = [@ EXCEPT !.at = "stopFailed", !.stops = pause[e].stops + 1]]
  <2> DEFINE r == [pause[e] EXCEPT !.at = "stopFailed", !.stops = pause[e].stops + 1]
  <2>1. /\ r \in Execution
        /\ r.at = "stopFailed" /\ r.endTime = pause[e].endTime
        /\ r.cluster = pause[e].cluster
        /\ r.stops = pause[e].stops + 1 /\ r.errors = pause[e].errors
        /\ r.todo = pause[e].todo /\ r.listed = pause[e].listed
    BY <1>2, <1>3 DEF Execution, At
  <2>2. pause' = [pause EXCEPT ![e] = r]
    BY <1>2, <1>4
  <2> HIDE DEF r
  <2> QED
    BY <1>1, <1>2, <2>1, <2>2, Updated
<1>5. CASE \E listed \in Listings(e) :
            pause' = [pause EXCEPT ![e] = [@ EXCEPT !.at = "resuming", !.stops = pause[e].stops + 1,
                           !.listed = listed, !.todo = listed, !.since = now]]
  <2>1. PICK listed \in Listings(e) :
            pause' = [pause EXCEPT ![e] = [pause[e] EXCEPT !.at = "resuming",
                           !.stops = pause[e].stops + 1,
                           !.listed = listed, !.todo = listed, !.since = now]]
    BY <1>5
  <2>2. listed \in SUBSET Nodes
    BY ListingsType
  <2> DEFINE r == [pause[e] EXCEPT !.at = "resuming", !.stops = pause[e].stops + 1,
                                   !.listed = listed, !.todo = listed, !.since = now]
  <2>3. /\ r \in Execution
        /\ r.at = "resuming" /\ r.endTime = pause[e].endTime
        /\ r.cluster = pause[e].cluster
        /\ r.stops = pause[e].stops + 1 /\ r.errors = pause[e].errors
        /\ r.todo = listed /\ r.listed = listed
    BY <1>2, <1>3, <2>2 DEF Execution, At
  <2>4. pause' = [pause EXCEPT ![e] = r]
    BY <2>1
  <2> HIDE DEF r
  <2> QED
    BY <1>1, <1>2, <2>3, <2>4, Updated
<1> QED
  BY <1>4, <1>5 DEF PauseStop

\* A visit takes a server off the list, and may add it to the errors.
LEMMA VisitEffect ==
    ASSUME PauseTypeOK, NEW e \in Pauses, NEW n \in pause[e].todo, NEW failed \in SUBSET {n},
           Visited(e, n, failed)
    PROVE  /\ pause' \in [Pauses -> Execution] /\ Others(e)
           /\ pause'[e].at = pause[e].at /\ pause'[e].mode = pause[e].mode
           /\ pause'[e].endTime = pause[e].endTime /\ pause'[e].stops = pause[e].stops
           /\ pause'[e].cluster = pause[e].cluster
           /\ pause'[e].length = pause[e].length /\ pause'[e].listed = pause[e].listed
           /\ pause'[e].todo = pause[e].todo \ {n} /\ pause'[e].since = now
           /\ pause'[e].errors = pause[e].errors \cup failed
<1>1. pause \in [Pauses -> Execution] /\ now \in Nat /\ n \in Nodes
  BY DEF PauseTypeOK, Execution
<1>2. pause[e].errors \cup failed \in SUBSET Nodes /\ pause[e].todo \ {n} \in SUBSET Nodes
  BY <1>1 DEF Execution
<1> DEFINE r == [pause[e] EXCEPT !.todo = pause[e].todo \ {n}, !.since = now,
                                 !.errors = pause[e].errors \cup failed]
<1>3. /\ r \in Execution
      /\ r.at = pause[e].at /\ r.mode = pause[e].mode
      /\ r.endTime = pause[e].endTime /\ r.stops = pause[e].stops
      /\ r.cluster = pause[e].cluster
      /\ r.length = pause[e].length /\ r.listed = pause[e].listed
      /\ r.todo = pause[e].todo \ {n} /\ r.since = now
      /\ r.errors = pause[e].errors \cup failed
  BY <1>1, <1>2 DEF Execution
<1>4. pause' = [pause EXCEPT ![e] = r]
  BY DEF Visited
<1> HIDE DEF r
<1> QED
  BY <1>1, <1>3, <1>4, Updated

\* A handler answers, or is cut off by a restart.
LEMMA AnswerEffect ==
    ASSUME PauseTypeOK, NEW e \in Pauses, PauseReturns(e)
    PROVE  /\ pause' \in [Pauses -> Execution] /\ Others(e)
           /\ pause'[e].endTime = pause[e].endTime /\ pause'[e].mode = pause[e].mode
           /\ pause'[e].cluster = pause[e].cluster
           /\ pause'[e].stops = pause[e].stops /\ pause'[e].listed = pause[e].listed
           /\ pause'[e].todo = {} /\ pause'[e].errors = {}
           /\ \/ pause[e].at \in {"listing", "pausing"} /\ pause'[e].at = "failed"
              \/ /\ pause[e].at = "pausing" /\ pause'[e].at = "running"
                 /\ pause[e].todo = {} /\ pause[e].errors = {}
              \/ pause[e].at = "resuming" /\ pause'[e].at = "stopFailed"
              \/ /\ pause[e].at = "resuming" /\ pause'[e].at = "stopped"
                 /\ pause[e].todo = {} /\ pause[e].errors = {}
           /\ UNCHANGED <<now, pausedUntil, pausedAll>>
<1>1. CASE PauseReturn(e)
  BY AnsweredEffect, <1>1 DEF PauseReturn, At, servers
<1>2. CASE UnpauseReturn(e)
  BY AnsweredEffect, <1>2 DEF UnpauseReturn, At, servers
<1>3. CASE PauseInterrupted(e)
  BY AnsweredEffect, <1>3 DEF PauseInterrupted, At, servers
<1> QED
  BY <1>1, <1>2, <1>3 DEF PauseReturns

-----------------------------------------------------------------------------
\* Every server list and every list of errors stays one of servers that were listed.
LEMMA InitType == PauseInit /\ now = 0 => PauseTypeOK
<1> SUFFICES ASSUME PauseInit, now = 0 PROVE PauseTypeOK
  OBVIOUS
<1>1. 0 \in 0 .. MaxPauseStops
  BY PauseAssumption
<1>2. NewPause \in Execution
  BY <1>1 DEF NewPause, Execution, At
<1>3. NewPause.todo = {} /\ NewPause.errors = {}
  BY DEF NewPause
<1>4. pause \in [Pauses -> Execution] /\ \A e \in Pauses : pause[e] = NewPause
  BY <1>2 DEF PauseInit
<1> QED
  BY <1>3, <1>4 DEF PauseInit, PauseTypeOK

\* The part of the type that speaks of the lists of one execution.
Lists(p) == /\ p.todo \subseteq p.listed
            /\ p.errors \subseteq p.listed \ p.todo
            /\ p.at \notin {"pausing", "resuming"} => p.todo = {} /\ p.errors = {}

LEMMA ListsStep ==
    ASSUME PauseTypeOK, NEW e \in Pauses, pause' \in [Pauses -> Execution], Others(e),
           Lists(pause'[e]), now' \in Nat, pausedUntil' \in [Nodes -> Nat],
           pausedAll' \subseteq Nodes
    PROVE  PauseTypeOK'
BY DEF PauseTypeOK, Others, Lists

LEMMA ServersType ==
    ASSUME PauseTypeOK, NEW n \in Nodes
    PROVE  /\ \A mode \in {"ALL", "WRITE"}, until \in Nat :
                PauseServer(n, mode, until) =>
                    pausedUntil' \in [Nodes -> Nat] /\ pausedAll' \subseteq Nodes
           /\ UnpauseServer(n) => pausedUntil' \in [Nodes -> Nat] /\ pausedAll' \subseteq Nodes
BY DEF PauseTypeOK, PauseServer, UnpauseServer

LEMMA PauseNodeType ==
    ASSUME PauseTypeOK, NEW e \in Pauses, NEW n \in Nodes, PauseNode(e, n) \/ UnpauseNode(e, n)
    PROVE  PauseTypeOK'
<1>1. /\ n \in pause[e].todo /\ pause[e].at \in {"pausing", "resuming"} /\ now' = now
      /\ \E failed \in SUBSET {n} : Visited(e, n, failed)
  BY DEF PauseNode, UnpauseNode
<1>2. PICK failed \in SUBSET {n} : Visited(e, n, failed)
  BY <1>1
<1>3. /\ pause' \in [Pauses -> Execution] /\ Others(e)
      /\ pause'[e].at = pause[e].at /\ pause'[e].listed = pause[e].listed
      /\ pause'[e].todo = pause[e].todo \ {n}
      /\ pause'[e].errors = pause[e].errors \cup failed
  BY <1>1, <1>2, VisitEffect
<1>4. pause[e] \in Execution /\ now \in Nat
  BY DEF PauseTypeOK
<1>5. pause[e].mode \in {"ALL", "WRITE"} /\ now + pause[e].length \in Nat
  BY <1>4 DEF Execution
<1>6. pausedUntil' \in [Nodes -> Nat] /\ pausedAll' \subseteq Nodes
  BY <1>5, ServersType DEF PauseNode, UnpauseNode, servers, PauseTypeOK
<1>7. Lists(pause'[e])
  BY <1>1, <1>3 DEF Lists, PauseTypeOK
<1> QED
  BY <1>1, <1>3, <1>4, <1>6, <1>7, ListsStep

LEMMA ExpireType ==
    ASSUME PauseTypeOK, Passes, Expire, UNCHANGED pause
    PROVE  PauseTypeOK'
<1>1. now' \in Nat
  BY DEF PauseTypeOK, Passes
<1>2. pausedUntil' \in [Nodes -> Nat] /\ pausedAll' \subseteq Nodes
  BY DEF PauseTypeOK, Expire
<1> QED
  BY <1>1, <1>2 DEF PauseTypeOK

LEMMA PauseTypeStep == PauseTypeOK /\ [PauseNext]_<<now, pauseVars>> => PauseTypeOK'
<1> SUFFICES ASSUME PauseTypeOK, [PauseNext]_<<now, pauseVars>> PROVE PauseTypeOK'
  OBVIOUS
<1> USE DEF Lists
<1>1. ASSUME NEW e \in Pauses, PausePrepare(e) PROVE PauseTypeOK'
  BY <1>1, PrepareEffect, ListsStep DEF PauseTypeOK
<1>2. ASSUME NEW e \in Pauses, PauseStart(e) PROVE PauseTypeOK'
  <2>1. pause[e].errors = {} /\ pause[e].todo = {}
    BY <1>2, StartEffect DEF PauseTypeOK
  <2> QED
    BY <1>2, <2>1, StartEffect, ListsStep DEF PauseTypeOK
<1>l. ASSUME NEW e \in Pauses, PauseListed(e) PROVE PauseTypeOK'
  <2>1. pause[e].errors = {}
    BY <1>l, ListedEffect DEF PauseTypeOK
  <2> QED
    BY <1>l, <2>1, ListedEffect, ListsStep DEF PauseTypeOK
<1>3. ASSUME NEW e \in Pauses, PauseStop(e) PROVE PauseTypeOK'
  <2>1. pause[e].errors = {} /\ pause[e].todo = {}
    BY <1>3, StopEffect DEF PauseTypeOK
  <2> QED
    BY <1>3, <2>1, StopEffect, ListsStep DEF PauseTypeOK
<1>4. ASSUME NEW e \in Pauses, PauseReturns(e) PROVE PauseTypeOK'
  BY <1>4, AnswerEffect, ListsStep DEF PauseTypeOK
<1>5. CASE Passes /\ Expire /\ UNCHANGED pause
  BY <1>5, ExpireType
<1>6. CASE UNCHANGED <<now, pauseVars>>
  BY <1>6 DEF PauseTypeOK, pauseVars
<1> QED
  BY <1>1, <1>2, <1>l, <1>3, <1>4, <1>5, <1>6, PauseNodeType DEF PauseNext

\* Every reachable state of the client pause attack is well typed, for any servers,
\* executions, durations and failing calls.
THEOREM PauseTypeCorrect == PauseSpec => []PauseTypeOK
<1>1. now = 0 /\ PauseInit => PauseTypeOK
  BY InitType
<1> QED
  BY <1>1, PauseTypeStep, PTL DEF PauseSpec

-----------------------------------------------------------------------------
\* NothingLeftPaused.  Each paused server has an execution that may have paused it, or
\* paused it again, since its own Stop last came to it with success.
NotResumed(p, n) ==
    /\ p.at \notin {"new", "prepared"}
    /\ p.at = "resuming" => n \notin (p.listed \ p.todo) \ p.errors
    /\ p.at = "stopped" => n \notin p.listed

ResumeInv == \A n \in Nodes : pausedUntil[n] > 0 => \E e \in Pauses : NotResumed(pause[e], n)

\* When an action of e leaves the servers alone, only e has to be looked at.
LEMMA ResumeStep ==
    ASSUME PauseTypeOK, ResumeInv, NEW e \in Pauses, Others(e), UNCHANGED pausedUntil,
           \A n \in Nodes : NotResumed(pause[e], n) => NotResumed(pause'[e], n)
    PROVE  ResumeInv'
<1> SUFFICES ASSUME NEW n \in Nodes, pausedUntil[n] > 0
             PROVE  \E x \in Pauses : NotResumed(pause'[x], n)
  BY DEF ResumeInv
<1>1. PICK x \in Pauses : NotResumed(pause[x], n)
  BY DEF ResumeInv
<1>2. NotResumed(pause'[x], n)
  BY <1>1 DEF Others
<1> QED
  BY <1>2

LEMMA ResumeNode ==
    ASSUME PauseTypeOK, ResumeInv, NEW e \in Pauses, NEW n \in Nodes,
           PauseNode(e, n) \/ UnpauseNode(e, n)
    PROVE  ResumeInv'
<1>1. PICK failed \in SUBSET {n} : Visited(e, n, failed)
  BY DEF PauseNode, UnpauseNode
<1>2. n \in pause[e].todo /\ pause[e].at \in {"pausing", "resuming"}
  BY DEF PauseNode, UnpauseNode
<1>3. /\ Others(e)
      /\ pause'[e].at = pause[e].at /\ pause'[e].listed = pause[e].listed
      /\ pause'[e].todo = pause[e].todo \ {n}
      /\ pause'[e].errors = pause[e].errors \cup failed
  BY <1>1, <1>2, VisitEffect
<1>4. ASSUME NEW m \in Nodes \ {n}, pausedUntil'[m] > 0
      PROVE  \E x \in Pauses : NotResumed(pause'[x], m)
  <2>1. pausedUntil'[m] = pausedUntil[m]
    BY DEF PauseNode, UnpauseNode, PauseServer, UnpauseServer, servers, PauseTypeOK
  <2>2. PICK x \in Pauses : NotResumed(pause[x], m)
    BY <1>4, <2>1 DEF ResumeInv
  <2>3. NotResumed(pause'[x], m)
    BY <1>3, <2>2 DEF NotResumed, Others
  <2> QED
    BY <2>3
<1>5. ASSUME pausedUntil'[n] > 0 PROVE \E x \in Pauses : NotResumed(pause'[x], n)
  <2>1. CASE pause[e].at = "pausing"
    BY <1>3, <2>1 DEF NotResumed
  <2>2. CASE pause[e].at = "resuming" /\ UNCHANGED pausedUntil /\ Visited(e, n, {n})
    <3>1. n \in pause'[e].errors
      BY <1>2, <2>2, VisitEffect
    <3>2. NotResumed(pause'[e], n)
      BY <1>3, <2>2, <3>1 DEF NotResumed
    <3> QED
      BY <3>2
  <2>3. CASE pause[e].at = "resuming" /\ UnpauseServer(n)
    BY <1>5, <2>3 DEF UnpauseServer, PauseTypeOK
  <2> QED
    BY <1>2, <2>1, <2>2, <2>3 DEF PauseNode, UnpauseNode, servers
<1> QED
  BY <1>4, <1>5 DEF ResumeInv

LEMMA ResumeInductive == PauseTypeOK /\ ResumeInv /\ [PauseNext]_<<now, pauseVars>> => ResumeInv'
<1> SUFFICES ASSUME PauseTypeOK, ResumeInv, [PauseNext]_<<now, pauseVars>> PROVE ResumeInv'
  OBVIOUS
<1>1. ASSUME NEW e \in Pauses, PausePrepare(e) PROVE ResumeInv'
  BY <1>1, PrepareEffect, ResumeStep DEF NotResumed
<1>2. ASSUME NEW e \in Pauses, PauseStart(e) PROVE ResumeInv'
  BY <1>2, StartEffect, ResumeStep DEF NotResumed
<1>l. ASSUME NEW e \in Pauses, PauseListed(e) PROVE ResumeInv'
  BY <1>l, ListedEffect, ResumeStep DEF NotResumed
<1>3. ASSUME NEW e \in Pauses, PauseStop(e) PROVE ResumeInv'
  <2>1. \A n \in Nodes : NotResumed(pause'[e], n)
    BY <1>3, StopEffect DEF NotResumed
  <2> QED
    BY <1>3, <2>1, StopEffect, ResumeStep
<1>4. ASSUME NEW e \in Pauses, PauseReturns(e) PROVE ResumeInv'
  <2>1. \A n \in Nodes : NotResumed(pause[e], n) => NotResumed(pause'[e], n)
    BY <1>4, AnswerEffect DEF NotResumed
  <2> QED
    BY <1>4, <2>1, AnswerEffect, ResumeStep
<1>5. CASE Passes /\ Expire /\ UNCHANGED pause
  BY <1>5 DEF Expire, ResumeInv, PauseTypeOK
<1>6. CASE UNCHANGED <<now, pauseVars>>
  BY <1>6 DEF ResumeInv, pauseVars
<1> QED
  BY <1>1, <1>2, <1>l, <1>3, <1>4, <1>5, <1>6, ResumeNode DEF PauseNext

\* When every attack that was prepared has been stopped with success, only a server that
\* one of the Stops did not list is still paused, for any number of attacks, servers and
\* failing calls.
THEOREM StopLeavesNothing == PauseSpec => []NothingLeftPaused
<1>1. now = 0 /\ PauseInit => PauseTypeOK /\ ResumeInv
  BY InitType DEF PauseInit, ResumeInv
<1>2. ResumeInv => NothingLeftPaused
  BY DEF ResumeInv, NothingLeftPaused, NotResumed
<1> QED
  BY <1>1, <1>2, PauseTypeStep, ResumeInductive, PTL DEF PauseSpec

-----------------------------------------------------------------------------
\* PausedUntilEnd.  As long as no Stop was called, an execution holds every server that it
\* came to without an error, from the visit on.
SomeStopped == \E x \in Pauses : pause[x].stops > 0
Holds(p, n, until, all) == until[n] >= p.endTime /\ (p.mode = "ALL" => n \in all)
HoldsAll(p, until, all) == \A n \in (p.listed \ p.todo) \ p.errors : Holds(p, n, until, all)

\* What is so of one execution, by itself.
Started(p) ==
    /\ p.at \in {"new", "prepared", "listing", "pausing", "running"} => p.stops = 0
    /\ p.at = "resuming" => p.stops > 0
    /\ p.at \in {"listing", "pausing"} => now + p.length >= p.endTime

Kept(p) ==
    p.at \in {"pausing", "running"} =>
        now >= p.endTime \/ SomeStopped \/ HoldsAll(p, pausedUntil, pausedAll)

HoldInv == \A e \in Pauses : Started(pause[e]) /\ Kept(pause[e])

LEMMA StoppedStays ==
    ASSUME NEW e \in Pauses, Others(e), SomeStopped,
           pause[e].stops > 0 => pause'[e].stops > 0
    PROVE  SomeStopped'
BY DEF SomeStopped, Others

\* When an action of e leaves clock and servers alone, only e has to be looked at.
LEMMA HoldStep ==
    ASSUME PauseTypeOK, HoldInv, NEW e \in Pauses, Others(e), UNCHANGED <<now, servers>>,
           pause[e].stops > 0 => pause'[e].stops > 0,
           Started(pause'[e]), Kept(pause[e])' \/ SomeStopped'
    PROVE  HoldInv'
<1>1. now' = now /\ pausedUntil' = pausedUntil /\ pausedAll' = pausedAll
  BY DEF servers
<1>2. ASSUME NEW x \in Pauses PROVE Started(pause[x])'
  BY <1>1, <1>2 DEF HoldInv, Started, Others
<1>3. ASSUME NEW x \in Pauses \ {e} PROVE Kept(pause[x])'
  <2>1. pause'[x] = pause[x] /\ Kept(pause[x])
    BY <1>3 DEF Others, HoldInv
  <2>2. SomeStopped => SomeStopped'
    BY StoppedStays
  <2> QED
    BY <1>1, <2>1, <2>2 DEF Kept
<1>4. Kept(pause[e])'
  BY DEF Kept
<1> QED
  BY <1>2, <1>3, <1>4 DEF HoldInv

\* CLIENT PAUSE keeps every pause that holds, and the server then holds the new one.
LEMMA ServerHolds ==
    ASSUME PauseTypeOK, NEW n \in Nodes, NEW mode \in {"ALL", "WRITE"}, NEW until \in Nat,
           PauseServer(n, mode, until)
    PROVE  /\ pausedUntil'[n] >= until
           /\ mode = "ALL" => n \in pausedAll'
           /\ \A m \in Nodes, p \in Execution :
                p.endTime > now /\ Holds(p, m, pausedUntil, pausedAll)
                    => Holds(p, m, pausedUntil', pausedAll')
<1>1. pausedUntil \in [Nodes -> Nat] /\ now \in Nat
  BY DEF PauseTypeOK
<1>2. pausedUntil'[n] >= until /\ \A m \in Nodes : pausedUntil'[m] >= pausedUntil[m]
  BY <1>1 DEF PauseServer
<1>3. mode = "ALL" => n \in pausedAll'
  BY DEF PauseServer
<1>4. ASSUME NEW m \in Nodes, NEW p \in Execution, p.endTime > now,
             Holds(p, m, pausedUntil, pausedAll)
      PROVE  Holds(p, m, pausedUntil', pausedAll')
  <2>1. p.endTime \in Nat /\ pausedUntil[m] \in Nat /\ pausedUntil'[m] \in Nat
    BY <1>1 DEF Execution, PauseServer
  <2>2. pausedUntil'[m] >= p.endTime
    BY <1>2, <1>4, <2>1 DEF Holds
  <2>3. Paused(m)
    BY <1>1, <1>4, <2>1 DEF Holds, Paused
  <2>4. m \in pausedAll => m \in pausedAll'
    BY <2>3 DEF PauseServer
  <2> QED
    BY <1>4, <2>2, <2>4 DEF Holds
<1> QED
  BY <1>2, <1>3, <1>4

LEMMA HoldPauseNode ==
    ASSUME PauseTypeOK, HoldInv, NEW e \in Pauses, NEW n \in Nodes, PauseNode(e, n)
    PROVE  HoldInv'
<1>1. PICK failed \in SUBSET {n} :
        /\ Visited(e, n, failed)
        /\ \/ PauseServer(n, pause[e].mode, now + pause[e].length)
           \/ failed = {n} /\ UNCHANGED servers
  BY DEF PauseNode
<1>2. n \in pause[e].todo /\ pause[e].at = "pausing" /\ now' = now
  BY DEF PauseNode
<1>3. /\ Others(e)
      /\ pause'[e].at = pause[e].at /\ pause'[e].mode = pause[e].mode
      /\ pause'[e].endTime = pause[e].endTime /\ pause'[e].stops = pause[e].stops
      /\ pause'[e].length = pause[e].length /\ pause'[e].listed = pause[e].listed
      /\ pause'[e].todo = pause[e].todo \ {n}
      /\ pause'[e].errors = pause[e].errors \cup failed
  BY <1>1, <1>2, VisitEffect
<1>4. /\ pause[e] \in Execution /\ now \in Nat /\ pause[e].endTime \in Nat
      /\ pause[e].mode \in {"ALL", "WRITE"} /\ now + pause[e].length \in Nat
  BY DEF PauseTypeOK, Execution
<1>5. ASSUME NEW x \in Pauses PROVE Started(pause[x])'
  BY <1>2, <1>3 DEF HoldInv, Started, Others
<1>6. SomeStopped => SomeStopped'
  BY <1>3, StoppedStays
<1>7. ASSUME NEW p \in Execution, NEW m \in Nodes, p.endTime > now,
             Holds(p, m, pausedUntil, pausedAll)
      PROVE  Holds(p, m, pausedUntil', pausedAll')
  <2>1. CASE UNCHANGED servers
    BY <1>7, <2>1 DEF servers
  <2> QED
    BY <1>1, <1>4, <1>7, <2>1, ServerHolds
<1>8. ASSUME NEW x \in Pauses \ {e} PROVE Kept(pause[x])'
  <2>1. pause'[x] = pause[x] /\ Kept(pause[x])
    BY <1>3, <1>8 DEF Others, HoldInv
  <2>2. pause[x] \in Execution /\ pause[x].listed \subseteq Nodes /\ pause[x].endTime \in Nat
    BY DEF PauseTypeOK, Execution
  <2>3. pause[x].endTime > now /\ HoldsAll(pause[x], pausedUntil, pausedAll)
            => HoldsAll(pause[x], pausedUntil', pausedAll')
    BY <1>7, <2>2 DEF HoldsAll
  <2> QED
    BY <1>2, <1>4, <1>6, <2>1, <2>2, <2>3 DEF Kept
<1>9. Kept(pause[e])'
  <2>1. CASE now >= pause[e].endTime \/ SomeStopped
    BY <1>2, <1>3, <1>6, <2>1 DEF Kept
  <2>2. CASE pause[e].endTime > now /\ HoldsAll(pause[e], pausedUntil, pausedAll)
    <3> SUFFICES ASSUME NEW m \in (pause'[e].listed \ pause'[e].todo) \ pause'[e].errors
                 PROVE  Holds(pause'[e], m, pausedUntil', pausedAll')
      BY DEF Kept, HoldsAll
    <3>1. m \in Nodes
      BY <1>3, <1>4 DEF Execution
    <3>2. Holds(pause[e], m, pausedUntil', pausedAll')
      <4>1. CASE m # n
        <5>1. m \in (pause[e].listed \ pause[e].todo) \ pause[e].errors
          BY <1>3, <4>1
        <5> QED
          BY <1>4, <1>7, <2>2, <3>1, <5>1 DEF HoldsAll
      <4>2. CASE m = n
        <5>1. failed # {n}
          BY <1>3, <4>2
        <5>2. /\ pausedUntil'[n] >= now + pause[e].length
              /\ pause[e].mode = "ALL" => n \in pausedAll'
          BY <1>1, <1>4, <5>1, ServerHolds
        <5>3. now + pause[e].length >= pause[e].endTime
          BY <1>2 DEF HoldInv, Started
        <5>4. pausedUntil'[n] \in Nat
          BY <1>1, <1>4, <5>1, ServersType DEF PauseTypeOK
        <5> QED
          BY <1>4, <4>2, <5>2, <5>3, <5>4 DEF Holds
      <4> QED
        BY <4>1, <4>2
    <3> QED
      BY <1>3, <3>2 DEF Holds
  <2> QED
    BY <1>2, <1>4, <2>1, <2>2 DEF HoldInv, Kept
<1> QED
  BY <1>5, <1>8, <1>9 DEF HoldInv

\* An execution whose Stop visits a server has been stopped.
LEMMA HoldUnpauseNode ==
    ASSUME PauseTypeOK, HoldInv, NEW e \in Pauses, NEW n \in Nodes, UnpauseNode(e, n)
    PROVE  HoldInv'
<1>1. PICK failed \in SUBSET {n} : Visited(e, n, failed)
  BY DEF UnpauseNode
<1>2. n \in pause[e].todo /\ pause[e].at = "resuming" /\ now' = now
  BY DEF UnpauseNode
<1>3. /\ Others(e)
      /\ pause'[e].at = pause[e].at /\ pause'[e].stops = pause[e].stops
      /\ pause'[e].endTime = pause[e].endTime /\ pause'[e].length = pause[e].length
  BY <1>1, <1>2, VisitEffect
<1>4. SomeStopped'
  BY <1>2, <1>3 DEF SomeStopped, HoldInv, Started
<1>5. ASSUME NEW x \in Pauses PROVE Started(pause[x])'
  BY <1>2, <1>3 DEF HoldInv, Started, Others
<1> QED
  BY <1>4, <1>5 DEF HoldInv, Kept

\* A pause that expires ends at an end time that has passed.
LEMMA HoldTick ==
    ASSUME PauseTypeOK, HoldInv, Passes, Expire, UNCHANGED pause
    PROVE  HoldInv'
<1>1. now \in Nat /\ now' = now + 1 /\ pausedUntil \in [Nodes -> Nat]
  BY DEF PauseTypeOK, Passes
<1>2. SomeStopped <=> SomeStopped'
  BY DEF SomeStopped
<1>3. ASSUME NEW x \in Pauses PROVE Started(pause[x])' /\ Kept(pause[x])'
  <2>1. /\ pause[x] \in Execution /\ pause[x].listed \subseteq Nodes
        /\ pause[x].endTime \in Nat /\ pause[x].length \in Nat
    BY DEF PauseTypeOK, Execution
  <2>2. Started(pause[x]) /\ Kept(pause[x])
    BY DEF HoldInv
  <2>3. ASSUME NEW m \in Nodes, pause[x].endTime > now', Holds(pause[x], m, pausedUntil, pausedAll)
        PROVE  Holds(pause[x], m, pausedUntil', pausedAll')
    <3>1. pausedUntil[m] > now'
      BY <1>1, <2>1, <2>3 DEF Holds
    <3> QED
      BY <1>1, <2>3, <3>1 DEF Holds, Expire
  <2>4. pause[x].endTime > now' /\ HoldsAll(pause[x], pausedUntil, pausedAll)
            => HoldsAll(pause[x], pausedUntil', pausedAll')
    BY <2>1, <2>3 DEF HoldsAll
  <2>5. Started(pause[x])'
    BY <1>1, <2>1, <2>2 DEF Started
  <2>6. Kept(pause[x])'
    BY <1>1, <1>2, <2>1, <2>2, <2>4 DEF Kept
  <2> QED
    BY <2>5, <2>6
<1> QED
  BY <1>3 DEF HoldInv

LEMMA HoldInductive == PauseTypeOK /\ HoldInv /\ [PauseNext]_<<now, pauseVars>> => HoldInv'
<1> SUFFICES ASSUME PauseTypeOK, HoldInv, [PauseNext]_<<now, pauseVars>> PROVE HoldInv'
  OBVIOUS
<1> USE DEF servers
<1>1. ASSUME NEW e \in Pauses, PausePrepare(e) PROVE HoldInv'
  <2>1. pause'[e].stops = 0
    BY <1>1 DEF PausePrepare, NewPause, PauseTypeOK
  <2>2. pause[e].stops = 0
    BY <1>1 DEF PausePrepare, HoldInv, Started
  <2>3. Started(pause'[e]) /\ Kept(pause[e])'
    BY <1>1, <2>1, PrepareEffect DEF Started, Kept
  <2> QED
    BY <1>1, <2>2, <2>3, PrepareEffect, HoldStep
<1>2. ASSUME NEW e \in Pauses, PauseStart(e) PROVE HoldInv'
  <2>1. pause[e].stops = 0 /\ pause'[e].stops = 0
    BY <1>2, StartEffect DEF HoldInv, Started
  <2>2. Started(pause'[e])
    <3>1. now \in Nat /\ pause[e].endTime \in Nat
      BY DEF PauseTypeOK, Execution
    <3> QED
      BY <1>2, <2>1, <3>1, StartEffect DEF Started
  <2>3. Kept(pause[e])'
    BY <1>2, StartEffect DEF Kept, HoldsAll
  <2> QED
    BY <1>2, <2>1, <2>2, <2>3, StartEffect, HoldStep
<1>l. ASSUME NEW e \in Pauses, PauseListed(e) PROVE HoldInv'
  <2>1. pause[e].stops = 0 /\ pause'[e].stops = 0
    BY <1>l, ListedEffect DEF HoldInv, Started
  <2>2. now + pause[e].length >= pause[e].endTime
    BY <1>l, ListedEffect DEF HoldInv, Started
  <2>3. Started(pause'[e])
    BY <1>l, <2>1, <2>2, ListedEffect DEF Started
  <2>4. Kept(pause[e])'
    BY <1>l, ListedEffect DEF Kept, HoldsAll
  <2> QED
    BY <1>l, <2>1, <2>3, <2>4, ListedEffect, HoldStep
<1>3. ASSUME NEW e \in Pauses, PauseStop(e) PROVE HoldInv'
  <2>1. pause[e].stops \in Nat
    BY PauseAssumption DEF PauseTypeOK, Execution
  <2>2. Started(pause'[e]) /\ Kept(pause[e])'
    BY <1>3, <2>1, StopEffect DEF Started, Kept
  <2> QED
    BY <1>3, <2>1, <2>2, StopEffect, HoldStep
<1>4. ASSUME NEW e \in Pauses, PauseReturns(e) PROVE HoldInv'
  <2>1. Started(pause[e]) /\ Kept(pause[e])
    BY DEF HoldInv
  <2>2. Started(pause'[e])
    BY <1>4, <2>1, AnswerEffect DEF Started
  <2>3. CASE pause'[e].at = "running"
    <3>1. pause[e].at = "pausing" /\ pause[e].errors = {} /\ pause[e].todo = {}
      BY <1>4, <2>3, AnswerEffect
    <3>2. HoldsAll(pause[e], pausedUntil, pausedAll)
             => HoldsAll(pause'[e], pausedUntil', pausedAll')
      BY <1>4, <3>1, AnswerEffect DEF HoldsAll, Holds
    <3>3. SomeStopped => SomeStopped'
      BY <1>4, AnswerEffect, StoppedStays
    <3> QED
      BY <1>4, <2>1, <2>2, <3>1, <3>2, <3>3, AnswerEffect, HoldStep DEF Kept
  <2>4. CASE pause'[e].at # "running"
    BY <1>4, <2>2, <2>4, AnswerEffect, HoldStep DEF Kept
  <2> QED
    BY <2>3, <2>4
<1>5. CASE Passes /\ Expire /\ UNCHANGED pause
  BY <1>5, HoldTick
<1>6. CASE UNCHANGED <<now, pauseVars>>
  BY <1>6 DEF HoldInv, Started, Kept, SomeStopped, HoldsAll, Holds, pauseVars
<1> QED
  BY <1>1, <1>2, <1>l, <1>3, <1>4, <1>5, <1>6, HoldPauseNode, HoldUnpauseNode DEF PauseNext

\* Until its end time a running attack has every server it listed paused, in its mode,
\* unless another attack was stopped: for any servers, attacks, durations and errors.
THEOREM PausesHold == PauseSpec => []PausedUntilEnd
<1>1. now = 0 /\ PauseInit => PauseTypeOK /\ HoldInv
  BY InitType DEF PauseInit, NewPause, HoldInv, Started, Kept
<1>2. PauseTypeOK /\ HoldInv => PausedUntilEnd
  <2> SUFFICES ASSUME PauseTypeOK, HoldInv, NEW e \in Pauses, pause[e].at = "running",
                      ~(now >= pause[e].endTime),
                      ~ \E x \in Pauses \ {e} : pause[x].stops > 0,
                      NEW n \in pause[e].listed
               PROVE  /\ pausedUntil[n] >= pause[e].endTime
                      /\ pause[e].mode = "ALL" => n \in pausedAll
    BY DEF PausedUntilEnd
  <2>1. pause[e].stops = 0 /\ Kept(pause[e])
    BY DEF HoldInv, Started
  <2>2. ~SomeStopped
    BY <2>1 DEF SomeStopped
  <2>3. pause[e].todo = {} /\ pause[e].errors = {}
    BY DEF PauseTypeOK
  <2> QED
    BY <2>1, <2>2, <2>3 DEF Kept, HoldsAll, Holds
<1> QED
  BY <1>1, <1>2, PauseTypeStep, HoldInductive, PTL DEF PauseSpec

-----------------------------------------------------------------------------
\* PausesExpire.  A pause ends by the end time of its execution, but for the time that the
\* listing and the calls for the servers before it took: each adds at most CallTimeout.  A
\* single server is called at once.
Late(S) == CallTimeout * (Cardinality(S) + 1)

LEMMA LateFacts ==
    ASSUME NEW S \in SUBSET Nodes
    PROVE  /\ Late(S) \in Nat /\ Late({}) = CallTimeout /\ Late(S) <= Late(Nodes)
           /\ \A n \in Nodes \ S : Late(S \cup {n}) = Late(S) + CallTimeout
<1>1. IsFiniteSet(Nodes) /\ IsFiniteSet(S) /\ Cardinality(S) <= Cardinality(Nodes)
  BY PauseAssumption, FS_Subset
<1>2. Cardinality(S) \in Nat /\ Cardinality(Nodes) \in Nat /\ Cardinality({}) = 0
  BY <1>1, FS_CardinalityType, FS_EmptySet
<1>3. CallTimeout \in Nat
  BY PauseAssumption
<1>4. \A a, b, c \in Nat : a * b \in Nat /\ a * (b + c) = a * b + a * c
  OBVIOUS
<1>5. PICK d \in Nat : Cardinality(Nodes) = Cardinality(S) + d
  <2>1. Cardinality(Nodes) - Cardinality(S) \in Nat
    BY <1>1, <1>2
  <2> QED
    BY <1>2, <2>1
<1>6. Late(S) \in Nat /\ Late({}) = CallTimeout /\ Late(S) <= Late(Nodes)
  <2>0. Cardinality(S) + 1 \in Nat /\ Cardinality(Nodes) + 1 = (Cardinality(S) + 1) + d
    BY <1>2, <1>5
  <2>1. CallTimeout * (Cardinality(Nodes) + 1) = CallTimeout * (Cardinality(S) + 1) + CallTimeout * d
    BY <1>3, <1>4, <1>5, <2>0
  <2>2. CallTimeout * (Cardinality(S) + 1) \in Nat /\ CallTimeout * d \in Nat
    BY <1>3, <1>4, <1>5, <2>0
  <2>3. CallTimeout * (Cardinality({}) + 1) = CallTimeout
    BY <1>2, <1>3
  <2> QED
    BY <1>2, <2>1, <2>2, <2>3 DEF Late
<1>7. ASSUME NEW n \in Nodes \ S PROVE Late(S \cup {n}) = Late(S) + CallTimeout
  <2>1. Cardinality(S \cup {n}) = Cardinality(S) + 1
    BY <1>1, <1>7, FS_AddElement
  <2>2. /\ Cardinality(S) + 1 \in Nat
        /\ CallTimeout * ((Cardinality(S) + 1) + 1) = CallTimeout * (Cardinality(S) + 1) + CallTimeout * 1
    BY <1>2, <1>3, <1>4
  <2>3. CallTimeout * 1 = CallTimeout
    BY <1>3
  <2> QED
    BY <2>1, <2>2, <2>3 DEF Late
<1> QED
  BY <1>6, <1>7

InTimeSoFar(p) ==
    /\ p.at = "new" => p.endTime = 0 /\ ~p.cluster
    /\ p.at = "listing" => /\ p.since + p.length <= p.endTime
                           /\ now <= p.since + CallTimeout
                           /\ ~p.cluster => now <= p.since
    /\ p.at = "pausing" => /\ p.since + p.length <= p.endTime + Late(p.listed \ p.todo)
                           /\ now <= p.since + CallTimeout
                           /\ ~p.cluster => /\ p.listed \subseteq {Endpoint}
                                            /\ p.todo # {} => p.since + p.length <= p.endTime

LastEnd(p) == p.endTime + (IF p.cluster THEN Late(Nodes) ELSE CallTimeout)
Due(until, p) == until <= LastEnd(p)

LEMMA LastEndFacts ==
    ASSUME NEW p, p.endTime \in Nat
    PROVE  LastEnd(p) \in Nat /\ LastEnd(p) >= p.endTime + CallTimeout
<1>1. Late(Nodes) \in Nat /\ CallTimeout \in Nat /\ CallTimeout <= Late(Nodes)
  BY PauseAssumption, LateFacts
<1>2. CASE p.cluster
  BY <1>1, <1>2 DEF LastEnd
<1>3. CASE ~p.cluster
  BY <1>1, <1>3 DEF LastEnd
<1> QED
  BY <1>2, <1>3

\* The last end depends on what Prepare fixes only.
LEMMA SameLastEnd ==
    ASSUME PauseTypeOK, NEW e \in Pauses,
           pause'[e].endTime = pause[e].endTime, pause'[e].cluster = pause[e].cluster
    PROVE  LastEnd(pause'[e]) >= LastEnd(pause[e])
<1>1. pause[e].endTime \in Nat
  BY DEF PauseTypeOK, Execution
<1>2. LastEnd(pause[e]) \in Nat
  BY <1>1, LastEndFacts
<1>3. LastEnd(pause'[e]) = LastEnd(pause[e])
  BY DEF LastEnd
<1> QED
  BY <1>2, <1>3

ExpireInv ==
    /\ \A e \in Pauses : InTimeSoFar(pause[e])
    /\ \A n \in Nodes : pausedUntil[n] > 0 => \E e \in Pauses : Due(pausedUntil[n], pause[e])

\* The last end of an execution does not go back.
LEMMA ExpireStep ==
    ASSUME PauseTypeOK, ExpireInv, NEW e \in Pauses, Others(e), UNCHANGED now,
           pause' \in [Pauses -> Execution],
           LastEnd(pause'[e]) >= LastEnd(pause[e]), InTimeSoFar(pause'[e]),
           NEW n \in Nodes, \A m \in Nodes \ {n} : pausedUntil'[m] = pausedUntil[m],
           \/ pausedUntil'[n] = pausedUntil[n] \/ pausedUntil'[n] = 0
           \/ Due(pausedUntil'[n], pause'[e])
    PROVE  ExpireInv'
<1>1. ASSUME NEW x \in Pauses PROVE InTimeSoFar(pause[x])'
  BY <1>1 DEF ExpireInv, InTimeSoFar, Others
<1>2. ASSUME NEW m \in Nodes, pausedUntil'[m] > 0
      PROVE  \E x \in Pauses : Due(pausedUntil'[m], pause'[x])
  <2>1. CASE pausedUntil'[m] = pausedUntil[m]
    <3>1. PICK x \in Pauses : Due(pausedUntil[m], pause[x])
      BY <1>2, <2>1 DEF ExpireInv
    <3>2. pausedUntil[m] \in Nat /\ LastEnd(pause[x]) \in Nat /\ LastEnd(pause'[x]) \in Nat
      <4>1. pausedUntil[m] \in Nat /\ pause[x].endTime \in Nat /\ pause'[x].endTime \in Nat
        BY DEF PauseTypeOK, Execution
      <4> QED
        BY <4>1, LastEndFacts
    <3>3. LastEnd(pause'[x]) >= LastEnd(pause[x])
      BY <3>2 DEF Others
    <3> QED
      BY <2>1, <3>1, <3>2, <3>3 DEF Due
  <2>2. CASE pausedUntil'[m] # pausedUntil[m]
    BY <1>2, <2>2
  <2> QED
    BY <2>1, <2>2
<1> QED
  BY <1>1, <1>2 DEF ExpireInv

\* The next server is paused CallTimeout later, at most, than the one before.
LEMMA ExpirePauseNode ==
    ASSUME PauseTypeOK, ExpireInv, NEW e \in Pauses, NEW n \in Nodes, PauseNode(e, n)
    PROVE  ExpireInv'
<1>1. PICK failed \in SUBSET {n} :
        /\ Visited(e, n, failed)
        /\ PauseServer(n, pause[e].mode, now + pause[e].length) \/ UNCHANGED servers
  BY DEF PauseNode
<1>2. n \in pause[e].todo /\ pause[e].at = "pausing" /\ now' = now
  BY DEF PauseNode
<1>3. /\ pause' \in [Pauses -> Execution] /\ Others(e)
      /\ pause'[e].at = pause[e].at /\ pause'[e].endTime = pause[e].endTime
      /\ pause'[e].cluster = pause[e].cluster
      /\ pause'[e].length = pause[e].length /\ pause'[e].listed = pause[e].listed
      /\ pause'[e].todo = pause[e].todo \ {n} /\ pause'[e].since = now
  BY <1>1, <1>2, VisitEffect
<1>4. /\ pause[e].listed \subseteq Nodes /\ pause[e].todo \subseteq pause[e].listed
      /\ pause[e].endTime \in Nat /\ pause[e].length \in Nat /\ pause[e].since \in Nat
      /\ now \in Nat /\ CallTimeout \in Nat /\ pausedUntil \in [Nodes -> Nat]
  BY PauseAssumption DEF PauseTypeOK, Execution
<1> DEFINE S == pause[e].listed \ pause[e].todo
           T == pause'[e].listed \ pause'[e].todo
<1>5. /\ Late(S) \in Nat /\ Late(T) = Late(S) + CallTimeout /\ Late(T) <= Late(Nodes)
      /\ Late(Nodes) \in Nat
  <2>1. T = S \cup {n} /\ n \notin S /\ S \subseteq Nodes /\ T \subseteq Nodes
    BY <1>2, <1>3, <1>4
  <2> HIDE DEF S, T
  <2> QED
    BY <2>1, LateFacts
<1>6. pause[e].since + pause[e].length <= pause[e].endTime + Late(S)
      /\ now <= pause[e].since + CallTimeout
  BY <1>2 DEF ExpireInv, InTimeSoFar
<1> HIDE DEF S
<1>7. now + pause[e].length <= pause[e].endTime + Late(T)
  <2> HIDE DEF T
  <2> QED
    BY <1>4, <1>5, <1>6
<1>a. ~pause[e].cluster =>
        /\ pause[e].listed \subseteq {Endpoint}
        /\ pause[e].since + pause[e].length <= pause[e].endTime
  BY <1>2 DEF ExpireInv, InTimeSoFar
<1>8. InTimeSoFar(pause'[e])
  <2>1. ~pause[e].cluster => pause'[e].todo = {} /\ pause'[e].listed \subseteq {Endpoint}
    BY <1>2, <1>3, <1>4, <1>a
  <2> QED
    BY <1>2, <1>3, <1>4, <1>7, <2>1 DEF InTimeSoFar
<1>9. /\ \A m \in Nodes \ {n} : pausedUntil'[m] = pausedUntil[m]
      /\ pausedUntil'[n] \in {pausedUntil[n], now + pause[e].length}
  BY <1>1, <1>4 DEF PauseServer, servers
<1>10. Due(now + pause[e].length, pause'[e])
  <2> HIDE DEF T
  <2>1. CASE pause[e].cluster
    BY <1>3, <1>4, <1>5, <1>7, <2>1 DEF Due, LastEnd
  <2>2. CASE ~pause[e].cluster
    <3>1. now + pause[e].length <= pause[e].endTime + CallTimeout
      BY <1>4, <1>6, <1>a, <2>2
    <3> QED
      BY <1>3, <2>2, <3>1 DEF Due, LastEnd
  <2> QED
    BY <2>1, <2>2
<1>11. LastEnd(pause'[e]) >= LastEnd(pause[e])
  BY <1>3, SameLastEnd
<1> QED
  BY <1>2, <1>3, <1>8, <1>9, <1>10, <1>11, ExpireStep

LEMMA ExpireUnpauseNode ==
    ASSUME PauseTypeOK, ExpireInv, NEW e \in Pauses, NEW n \in Nodes, UnpauseNode(e, n)
    PROVE  ExpireInv'
<1>1. PICK failed \in SUBSET {n} : Visited(e, n, failed)
  BY DEF UnpauseNode
<1>2. n \in pause[e].todo /\ pause[e].at = "resuming" /\ now' = now
  BY DEF UnpauseNode
<1>3. /\ pause' \in [Pauses -> Execution] /\ Others(e)
      /\ pause'[e].at = "resuming" /\ pause'[e].endTime = pause[e].endTime
      /\ pause'[e].cluster = pause[e].cluster
  BY <1>1, <1>2, VisitEffect
<1>5. /\ \A m \in Nodes \ {n} : pausedUntil'[m] = pausedUntil[m]
      /\ pausedUntil'[n] \in {pausedUntil[n], 0}
  BY DEF UnpauseNode, UnpauseServer, servers, PauseTypeOK
<1>6. InTimeSoFar(pause'[e])
  BY <1>3 DEF InTimeSoFar
<1>7. LastEnd(pause'[e]) >= LastEnd(pause[e])
  BY <1>3, SameLastEnd
<1> QED
  BY <1>2, <1>3, <1>5, <1>6, <1>7, ExpireStep

\* A call that is under way keeps the clock from passing its timeout.
LEMMA ExpireTick ==
    ASSUME PauseTypeOK, ExpireInv, Passes, InTime, Expire, UNCHANGED pause
    PROVE  ExpireInv'
<1>1. ASSUME NEW x \in Pauses PROVE InTimeSoFar(pause[x])'
  <2>1. now \in Nat /\ pause[x].since \in Nat /\ CallTimeout \in Nat /\ now' = now + 1
    BY PauseAssumption DEF PauseTypeOK, Execution, Passes
  <2>2. /\ pause[x].at \in {"listing", "pausing"} => now < pause[x].since + CallTimeout
        /\ pause[x].at = "listing" => pause[x].cluster
    BY DEF InTime
  <2>3. pause[x].at \in {"listing", "pausing"} => now' <= pause[x].since + CallTimeout
    BY <2>1, <2>2
  <2> QED
    BY <2>2, <2>3 DEF ExpireInv, InTimeSoFar
<1>2. ASSUME NEW n \in Nodes, pausedUntil'[n] > 0 PROVE pausedUntil'[n] = pausedUntil[n]
  BY <1>2 DEF Expire
<1> QED
  BY <1>1, <1>2 DEF ExpireInv

LEMMA ExpireInductive ==
    PauseTypeOK /\ ExpireInv /\ [PauseNext]_<<now, pauseVars>> => ExpireInv'
<1> SUFFICES ASSUME PauseTypeOK, ExpireInv, [PauseNext]_<<now, pauseVars>> PROVE ExpireInv'
  OBVIOUS
<1>0. /\ now \in Nat /\ CallTimeout \in Nat /\ Late({}) = CallTimeout /\ Endpoint \in Nodes
      /\ \A e \in Pauses : pause[e].endTime \in Nat /\ InTimeSoFar(pause[e])
  BY PauseAssumption, NodesAssumption, LateFacts DEF PauseTypeOK, Execution, ExpireInv
<1>1. ASSUME NEW e \in Pauses, PausePrepare(e) PROVE ExpireInv'
  <2>1. pause[e].endTime = 0 /\ pause'[e].endTime \in Nat
    BY <1>0, <1>1, PrepareEffect DEF InTimeSoFar, Execution
  <2>2. InTimeSoFar(pause'[e])
    BY <1>1, PrepareEffect DEF InTimeSoFar
  <2>3. LastEnd(pause'[e]) >= LastEnd(pause[e])
    <3>1. LastEnd(pause[e]) = CallTimeout
      <4>1. ~pause[e].cluster
        BY <1>0, <1>1, PrepareEffect DEF InTimeSoFar
      <4>2. LastEnd(pause[e]) = pause[e].endTime + CallTimeout
        BY <4>1 DEF LastEnd
      <4> QED
        BY <1>0, <2>1, <4>2
    <3>2. LastEnd(pause'[e]) \in Nat /\ LastEnd(pause'[e]) >= pause'[e].endTime + CallTimeout
      BY <2>1, LastEndFacts
    <3> QED
      BY <1>0, <2>1, <3>1, <3>2
  <2> QED
    BY <1>0, <1>1, <2>2, <2>3, PrepareEffect, ExpireStep
<1>2. ASSUME NEW e \in Pauses, PauseStart(e) PROVE ExpireInv'
  <2>1. CASE pause'[e].at = "listing"
    <3>1. /\ pause'[e].length = pause[e].endTime - now /\ pause'[e].since = now
          /\ pause'[e].endTime = pause[e].endTime
      BY <1>2, <2>1, StartEffect
    <3>2. pause'[e].since + pause'[e].length <= pause'[e].endTime
      BY <1>0, <3>1
    <3>3. now <= pause'[e].since + CallTimeout /\ now <= pause'[e].since
      BY <1>0, <3>1
    <3>4. InTimeSoFar(pause'[e])
      BY <2>1, <3>2, <3>3 DEF InTimeSoFar
    <3> QED
      BY <1>0, <1>2, <3>4, StartEffect, SameLastEnd, ExpireStep
  <2>2. CASE pause'[e].at = "failed"
    <3>1. InTimeSoFar(pause'[e])
      BY <2>2 DEF InTimeSoFar
    <3> QED
      BY <1>0, <1>2, <3>1, StartEffect, SameLastEnd, ExpireStep
  <2> QED
    BY <1>2, <2>1, <2>2, StartEffect
<1>l. ASSUME NEW e \in Pauses, PauseListed(e) PROVE ExpireInv'
  <2>1. CASE pause'[e].at = "pausing"
    <3>1. /\ pause'[e].listed \ pause'[e].todo = {}
          /\ pause'[e].length = pause[e].length /\ pause'[e].since = now
          /\ pause'[e].endTime = pause[e].endTime
      BY <1>l, <2>1, ListedEffect
    <3>2. Late(pause'[e].listed \ pause'[e].todo) = CallTimeout
      BY <1>0, <3>1
    <3>3. pause[e].since + pause[e].length <= pause[e].endTime /\ now <= pause[e].since + CallTimeout
      BY <1>0, <1>l, ListedEffect DEF InTimeSoFar
    <3>4. pause[e].since \in Nat /\ pause[e].length \in Nat
      BY DEF PauseTypeOK, Execution
    <3>5. now + pause[e].length <= pause[e].endTime + CallTimeout /\ now <= now + CallTimeout
      BY <1>0, <3>3, <3>4
    <3>6. ~pause'[e].cluster =>
            /\ pause'[e].listed \subseteq {Endpoint}
            /\ pause'[e].since + pause'[e].length <= pause'[e].endTime
      <4>1. ASSUME ~pause[e].cluster PROVE now <= pause[e].since /\ pause'[e].listed = {Endpoint}
        BY <1>0, <1>l, <2>1, <4>1, ListedEffect DEF InTimeSoFar
      <4>2. ASSUME ~pause[e].cluster PROVE now + pause[e].length <= pause[e].endTime
        BY <1>0, <3>3, <3>4, <4>1, <4>2
      <4> QED
        BY <1>l, <3>1, <4>1, <4>2, ListedEffect
    <3>7. InTimeSoFar(pause'[e])
      BY <2>1, <3>1, <3>2, <3>5, <3>6 DEF InTimeSoFar
    <3> QED
      BY <1>0, <1>l, <3>7, ListedEffect, SameLastEnd, ExpireStep
  <2>2. CASE pause'[e].at = "failed"
    <3>1. InTimeSoFar(pause'[e])
      BY <2>2 DEF InTimeSoFar
    <3> QED
      BY <1>0, <1>l, <3>1, ListedEffect, SameLastEnd, ExpireStep
  <2> QED
    BY <1>l, <2>1, <2>2, ListedEffect
<1>3. ASSUME NEW e \in Pauses, PauseStop(e) PROVE ExpireInv'
  <2>1. InTimeSoFar(pause'[e])
    BY <1>3, StopEffect DEF InTimeSoFar
  <2> QED
    BY <1>0, <1>3, <2>1, StopEffect, SameLastEnd, ExpireStep
<1>4. ASSUME NEW e \in Pauses, PauseReturns(e) PROVE ExpireInv'
  <2>1. InTimeSoFar(pause'[e])
    BY <1>4, AnswerEffect DEF InTimeSoFar
  <2> QED
    BY <1>0, <1>4, <2>1, AnswerEffect, SameLastEnd, ExpireStep
<1>5. CASE Passes /\ InTime /\ Expire /\ UNCHANGED pause
  BY <1>5, ExpireTick
<1>6. CASE UNCHANGED <<now, pauseVars>>
  BY <1>6 DEF ExpireInv, InTimeSoFar, pauseVars
<1> QED
  BY <1>1, <1>2, <1>l, <1>3, <1>4, <1>5, <1>6, ExpirePauseNode, ExpireUnpauseNode DEF PauseNext

\* Stop or no Stop, a pause ends by the end time of an attack, but for the time Start took
\* to come to the server: for any servers, durations, timeouts and failing calls.
THEOREM PausesEnd == PauseSpec => []PausesExpire
<1>1. now = 0 /\ PauseInit => PauseTypeOK /\ ExpireInv
  BY InitType DEF PauseInit, NewPause, ExpireInv, InTimeSoFar
<1>2. ExpireInv => PausesExpire
  <2>1. CallTimeout * 1 = CallTimeout
    BY PauseAssumption
  <2>2. ASSUME NEW p
        PROVE  LastEnd(p) = p.endTime + CallTimeout *
                                (IF p.cluster THEN Cardinality(Nodes) + 1 ELSE 1)
    BY <2>1 DEF LastEnd, Late
  <2> QED
    BY <2>2 DEF ExpireInv, PausesExpire, Due
<1> QED
  BY <1>1, <1>2, PauseTypeStep, ExpireInductive, PTL DEF PauseSpec
=============================================================================
