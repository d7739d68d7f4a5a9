---------------------------- MODULE SentinelStop ----------------------------
(***************************************************************************)
(* The sentinel stop attack (extredis/attack_sentinel_stop.go): DEBUG      *)
(* SLEEP makes a server answer nobody for a while.  There is no Stop; the  *)
(* server wakes up by itself.                                              *)
(*                                                                         *)
(* DEBUG SLEEP answers after the sleep.  The client gives a call up after  *)
(* its read timeout (clients/clients.go), and go-redis sends the command   *)
(* again: on a connection it has pooled, where the command waits for its   *)
(* turn, or on a new one, once the server has answered the greeting.       *)
(***************************************************************************)
EXTENDS Clock

CONSTANTS
    RedisMode,       \* what the server says it is: sentinel, standalone or cluster
    SleepDurations,  \* seconds an attack may be asked for
    ReadTimeout,     \* seconds the client waits for an answer
    MaxRetries,      \* times go-redis sends a command again
    CallsMayFail     \* may a call fail for another reason than a sleeping server?

ASSUME SleepAssumption == /\ RedisMode \in {"sentinel", "standalone", "cluster"}
                          /\ SleepDurations \subseteq Nat
                          /\ ReadTimeout \in Nat
                          /\ MaxRetries \in Nat
                          /\ CallsMayFail \in BOOLEAN

VARIABLES
    sleepAt,       \* where the attack is
    sleepEnd,      \* state.EndTime
    sleepSeconds,  \* what Start asks for
    attempts,      \* how often go-redis has tried to send DEBUG SLEEP
    since,         \* when it began to wait: for the greeting, or for the answer
    answerAt,      \* when the server answers the command sent last
    asleepUntil    \* when it has finished all sleeps it was sent

sleepVars == <<sleepAt, sleepEnd, sleepSeconds, attempts, since, answerAt, asleepUntil>>

SleepInit ==
    /\ sleepAt = "new"
    /\ sleepEnd = 0
    /\ sleepSeconds = 0
    /\ attempts = 0
    /\ since = 0
    /\ answerAt = 0
    /\ asleepUntil = 0

Asleep == now < asleepUntil

\* Prepare pings the server and fixes the end.
SleepPrepare ==
    /\ sleepAt = "new"
    /\ sleepAt' = "prepared"
    /\ \E duration \in SleepDurations : sleepEnd' = now + duration
    /\ UNCHANGED <<now, sleepSeconds, attempts, since, answerAt, asleepUntil>>

\* What is left of the attack's duration.
SleepLength == sleepEnd - now

\* A node of a cluster is refused, unless it does not tell its mode.
Refuses == RedisMode = "cluster"

\* Start is answered with an error before it sends DEBUG SLEEP.
SleepRefused ==
    /\ sleepAt = "prepared"
    /\ CallsMayFail \/ Refuses \/ SleepLength <= 0
    /\ sleepAt' = "failed"
    /\ UNCHANGED <<now, sleepEnd, sleepSeconds, attempts, since, answerAt, asleepUntil>>

\* The server has the command: it sleeps after the sleeps it was sent before.
Deliver(seconds) ==
    /\ answerAt' = (IF Asleep THEN asleepUntil ELSE now) + seconds
    /\ asleepUntil' = answerAt'

\* Start: ping, INFO, and DEBUG SLEEP on the connection that was just used.
SleepStart ==
    /\ sleepAt = "prepared"
    /\ ~Asleep
    /\ CallsMayFail \/ ~Refuses
    /\ SleepLength > 0
    /\ sleepAt' = "waiting"
    /\ sleepSeconds' = SleepLength
    /\ attempts' = 1
    /\ since' = now
    /\ Deliver(SleepLength)
    /\ UNCHANGED <<now, sleepEnd>>

\* The command is sent again.  While the server sleeps this takes a pooled connection.
SleepResend ==
    /\ sleepAt = "retrying"
    /\ sleepAt' = "waiting"
    /\ since' = now
    /\ Deliver(sleepSeconds)
    /\ UNCHANGED <<now, sleepEnd, sleepSeconds, attempts>>

\* Mutant of SleepAnswered: the client waits for the answer as long as it takes.
SleepAnsweredLate ==
    /\ sleepAt = "waiting"
    /\ now + ReadTimeout >= answerAt
    /\ sleepAt' = "slept"
    /\ UNCHANGED <<now, sleepEnd, sleepSeconds, attempts, since, answerAt, asleepUntil>>

\* The answer is there in time: Start reports success.
SleepAnswered ==
    /\ sleepAt = "waiting"
    /\ now >= answerAt
    /\ sleepAt' = "slept"
    /\ UNCHANGED <<now, sleepEnd, sleepSeconds, attempts, since, answerAt, asleepUntil>>

\* An attempt is over: its time is, or the connection is lost.  After the last one
\* Start is answered with an error, whether the server sleeps or not.
SleepTimesOut ==
    /\ sleepAt \in {"waiting", "retrying"}
    /\ CallsMayFail \/ (Asleep /\ now >= since + ReadTimeout)
    /\ IF attempts <= MaxRetries
       THEN sleepAt' = "retrying" /\ attempts' = attempts + 1 /\ since' = now
       ELSE sleepAt' = "failed" /\ UNCHANGED <<attempts, since>>
    /\ UNCHANGED <<now, sleepEnd, sleepSeconds, answerAt, asleepUntil>>

\* Status completes the attack when the server answers a ping, or the end is reached.
SleepStatus ==
    /\ sleepAt = "slept"
    /\ ~Asleep \/ now >= sleepEnd
    /\ sleepAt' = "completed"
    /\ UNCHANGED <<now, sleepEnd, sleepSeconds, attempts, since, answerAt, asleepUntil>>

\* No attempt outlasts its timeout.
SleepInTime == sleepAt \in {"waiting", "retrying"} => now < since + ReadTimeout

SleepHandler ==
    \/ SleepRefused \/ SleepStart \/ SleepResend \/ SleepAnswered \/ SleepTimesOut

SleepNext ==
    \/ SleepPrepare \/ SleepHandler \/ SleepStatus
    \/ Passes /\ SleepInTime /\ UNCHANGED sleepVars

SleepSpec == now = 0 /\ SleepInit /\ [][SleepNext]_<<now, sleepVars>>

-----------------------------------------------------------------------------
\* Every variable has its type.
SleepTypeOK ==
    /\ now \in Nat
    /\ sleepAt \in {"new", "prepared", "waiting", "retrying", "slept", "failed", "completed"}
    /\ sleepEnd \in Nat
    /\ sleepSeconds \in Nat
    /\ attempts \in 0 .. MaxRetries + 1
    /\ since \in Nat
    /\ answerAt \in Nat
    /\ asleepUntil \in Nat

\* Start can report success for sleeps no longer than the client's read timeout only
\* (clients/clients.go:129): a longer one is an error, though the server sleeps.
ShortSleepsOnly == sleepAt \in {"slept", "completed"} => sleepSeconds <= ReadTimeout

\* "Auto-recovers after the sleep duration" (README.md:113), "The Sentinel automatically
\* recovers after this duration" (attack_sentinel_stop.go:65): from the attack's end on the
\* server is not asleep any more.  A command that go-redis sends again breaks it.
RecoversAfterDuration == sleepAt # "new" /\ now >= sleepEnd => ~Asleep
=============================================================================
