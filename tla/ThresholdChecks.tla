--------------------------- MODULE ThresholdChecks ---------------------------
(***************************************************************************)
(* The four checks (extredis/check_memory.go, check_connections.go,        *)
(* check_replication.go, check_latency.go).                                *)
(*                                                                         *)
(* A check has no goroutine: the agent calls Status again and again and    *)
(* carries the state from one call to the next, until an answer holds an   *)
(* error, which fails the check, or says that it is completed.  A value    *)
(* over its threshold is remembered and fails the check at its end.        *)
(*                                                                         *)
(* A Status asks Redis and waits: an answer may come late, and still count.*)
(* Whether it is the last one is decided before it asks.                   *)
(***************************************************************************)
EXTENDS Clock

CONSTANTS
    Kinds,        \* the checks to look at: memory, connections, replication, latency
    MaxPercent,   \* state.MaxMemoryPercent, state.MaxConnectionsPct; 0 disables it
    MaxValue,     \* MaxMemoryBytes, MaxConnections, MaxLagSeconds, MaxLatencyMs; 0
                  \* disables the first two
    RequireLinkUp,
    Values,       \* values Redis may report, -1 among them
    Capacities,   \* maxmemory and maxclients it may report; 0 for no limit, or not told
    Duration,     \* seconds from Prepare to EndTime
    PollInterval, \* seconds from a Status to the next one, at most (CallInterval)
    StatusTimeout \* seconds a Status waits for Redis, at most

ASSUME ThresholdAssumption == MaxPercent \in Nat /\ MaxValue \in Nat /\ RequireLinkUp \in BOOLEAN
ASSUME ReportAssumption == Values \subseteq Int /\ Capacities \subseteq Nat
ASSUME DurationAssumption == Duration \in 0 .. MaxTime
ASSUME PollingAssumption == PollInterval \in Nat /\ StatusTimeout \in Nat

VARIABLES
    kind,               \* which check runs
    endTime,            \* state.EndTime
    thresholdExceeded,  \* state.ThresholdExceeded
    linkDownDetected,   \* state.LinkDownDetected
    pc,                 \* new, prepared, running, polling while Status waits, passed
                        \* or failed
    polledAt,           \* when Status was called, or the last one answered
    completed,          \* completed, of the Status that waits
    over,               \* history: a Status has read a value over its threshold
    callFailed,         \* history: a call to Redis has failed, a latency ping apart
    answered            \* history: the last Status got an answer from Redis

state == <<kind, endTime, thresholdExceeded, linkDownDetected>>
call == <<polledAt, completed>>
history == <<over, callFailed, answered>>
vars == <<now, state, pc, call, history>>

Init ==
    /\ kind \in Kinds
    /\ now = 0
    /\ endTime = 0
    /\ thresholdExceeded = FALSE
    /\ linkDownDetected = FALSE
    /\ pc = "new"
    /\ polledAt = 0
    /\ completed = FALSE
    /\ over = FALSE
    /\ callFailed = FALSE
    /\ answered = FALSE

\* Prepare: the duration starts to run.  MaxTime bounds the model: the end lies
\* within the clock.
Prepare ==
    /\ pc = "new"
    /\ now + Duration <= MaxTime
    /\ pc' = "prepared"
    /\ endTime' = now + Duration
    /\ thresholdExceeded' = FALSE
    /\ linkDownDetected' = FALSE
    /\ UNCHANGED <<kind, now, call, history>>

\* Start pings Redis and fails the check when there is no answer.
Start ==
    /\ pc = "prepared"
    /\ \/ /\ pc' = "running"
          /\ UNCHANGED callFailed
       \/ /\ pc' = "failed"
          /\ callFailed' = TRUE
    /\ polledAt' = now
    /\ UNCHANGED <<now, state, completed, over, answered>>

-----------------------------------------------------------------------------
\* A value and what it is measured against, over a percentage or over the absolute
\* threshold.  Without a capacity the percentage is not looked at.
UsageExceeds(value, capacity) ==
    \/ MaxPercent > 0 /\ capacity > 0 /\ value * 100 > MaxPercent * capacity
    \/ MaxValue > 0 /\ value > MaxValue

\* Only a replica has a lag and a link.  While the link is down Redis reports a lag
\* of -1, which is over no threshold.
LinkDown(replica, linkUp) == replica /\ RequireLinkUp /\ ~linkUp
ReplicationExceeds(replica, linkUp, lag) ==
    LinkDown(replica, linkUp) \/ (replica /\ lag > MaxValue)

\* The agent calls Status, which looks at the clock and asks Redis.
StatusCalled ==
    /\ pc = "running"
    /\ pc' = "polling"
    /\ polledAt' = now
    /\ completed' = (now >= endTime)
    /\ UNCHANGED <<now, state, history>>

\* Status answers the agent, after an answer of Redis or without one.
Returns(at, withAnswer) ==
    /\ pc = "polling"
    /\ pc' = at
    /\ polledAt' = now
    /\ completed' = FALSE
    /\ answered' = withAnswer
    /\ UNCHANGED <<kind, now, endTime>>

\* Mutants of Outcome: what was exceeded earlier is forgotten; the check fails at once.
OutcomeNowOnly(exceeds) ==
    IF ~completed THEN "running" ELSE IF exceeds THEN "failed" ELSE "passed"
OutcomeAtOnce(exceeds) ==
    IF thresholdExceeded \/ exceeds THEN "failed" ELSE IF completed THEN "passed" ELSE "running"

\* Where the check is after a Status that has read a value.
Outcome(exceeds) ==
    IF ~completed THEN "running" ELSE IF thresholdExceeded \/ exceeds THEN "failed" ELSE "passed"

\* Redis has answered: the value is held against the threshold, and remembered.
Observe(exceeds) ==
    /\ Returns(Outcome(exceeds), TRUE)
    /\ thresholdExceeded' = (thresholdExceeded \/ exceeds)
    /\ over' = (over \/ exceeds)
    /\ UNCHANGED callFailed

\* Status of the memory and of the connection check.
UsageStatus ==
    /\ kind \in {"memory", "connections"}
    /\ \E value \in Values, capacity \in Capacities :
         value >= 0 /\ Observe(UsageExceeds(value, capacity))
    /\ UNCHANGED linkDownDetected

\* Mutant of ReplicationStatus: a link that is down is noted, not held against.
ReplicationStatusLagOnly ==
    /\ kind = "replication"
    /\ \E replica, linkUp \in BOOLEAN, lag \in Values :
         /\ (lag = -1) <=> ~linkUp
         /\ Observe(replica /\ lag > MaxValue)
         /\ linkDownDetected' = (linkDownDetected \/ LinkDown(replica, linkUp))

\* Status of the replication check; the role may change from one call to the next.
ReplicationStatus ==
    /\ kind = "replication"
    /\ \E replica, linkUp \in BOOLEAN, lag \in Values :
         /\ (lag = -1) <=> ~linkUp
         /\ Observe(ReplicationExceeds(replica, linkUp, lag))
         /\ linkDownDetected' = (linkDownDetected \/ LinkDown(replica, linkUp))

\* Status of the latency check, when the ping is answered ...
LatencyStatus ==
    /\ kind = "latency"
    /\ \E latency \in Values : latency >= 0 /\ Observe(latency > MaxValue)
    /\ UNCHANGED linkDownDetected

\* Mutant of PingFails: the answer to a failing ping never completes the check.
PingFailsForever ==
    /\ kind = "latency"
    /\ Returns("running", FALSE)
    /\ UNCHANGED <<thresholdExceeded, linkDownDetected, over, callFailed>>

\* ... and when it is not: a warning, whatever was exceeded before.
PingFails ==
    /\ kind = "latency"
    /\ Returns(IF completed THEN "passed" ELSE "running", FALSE)
    /\ UNCHANGED <<thresholdExceeded, linkDownDetected, over, callFailed>>

\* Mutant of CallFails: it is a warning, as a failing ping is to the latency check.
CallFailsWarning ==
    /\ Returns(Outcome(FALSE), FALSE)
    /\ callFailed' = TRUE
    /\ UNCHANGED <<thresholdExceeded, linkDownDetected, over>>

\* There is no client, or INFO fails: the answer holds an error.
CallFails ==
    /\ Returns("failed", FALSE)
    /\ callFailed' = TRUE
    /\ UNCHANGED <<thresholdExceeded, linkDownDetected, over>>

StatusReturns == UsageStatus \/ ReplicationStatus \/ LatencyStatus \/ PingFails \/ CallFails

\* The agent does not wait longer than its interval, nor a Status than its timeout.
CheckInTime ==
    /\ pc = "running" => now < polledAt + PollInterval
    /\ pc = "polling" => now < polledAt + StatusTimeout

Tick == Passes /\ CheckInTime /\ UNCHANGED <<state, pc, call, history>>

Next == Prepare \/ Start \/ StatusCalled \/ StatusReturns \/ Tick

\* The agent goes on calling Status, which answers, and time passes.
Spec == Init /\ [][Next]_vars /\ WF_vars(StatusCalled) /\ WF_vars(StatusReturns) /\ WF_vars(Tick)

-----------------------------------------------------------------------------
\* Every variable has its type; a link found down has exceeded the threshold; only a Status
\* that was called at the end time or later is the last one.
TypeOK ==
    /\ kind \in Kinds
    /\ now \in 0 .. MaxTime
    /\ endTime \in 0 .. MaxTime
    /\ thresholdExceeded \in BOOLEAN
    /\ linkDownDetected \in BOOLEAN
    /\ linkDownDetected => thresholdExceeded
    /\ pc \in {"new", "prepared", "running", "polling", "passed", "failed"}
    /\ polledAt \in 0 .. now
    /\ completed \in BOOLEAN
    /\ completed => pc = "polling" /\ polledAt >= endTime
    /\ over \in BOOLEAN /\ callFailed \in BOOLEAN /\ answered \in BOOLEAN

\* A check that passes has never read a value over its threshold, however long ago and
\* whatever it read since; the latency check is an exception when the ping that
\* completes it fails.
PassedMeansBelow == pc = "passed" /\ (answered \/ kind # "latency") => ~over

\* A check fails for a reason: a call that failed, or at its end a value that was over
\* the threshold.  Until then a value over the threshold is a warning.
FailedMeansReason == pc = "failed" => callFailed \/ (over /\ now >= endTime)

\* A check that runs ends, whether Redis answers or not.
CheckEnds == pc \in {"running", "polling"} ~> pc \in {"passed", "failed"}
=============================================================================
