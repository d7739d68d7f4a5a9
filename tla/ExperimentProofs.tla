-------------------------- MODULE ExperimentProofs --------------------------
(***************************************************************************)
(* Proofs about the sentinel stop attack, and about the attacks, the check *)
(* and the searches side by side: what is proved of each by itself holds   *)
(* when they share servers, for any servers, durations and failing calls.  *)
(***************************************************************************)
EXTENDS Experiment, ClientPauseProofs, ThresholdChecksProofs, DiscoveryProofs

-----------------------------------------------------------------------------
\* The sentinel stop attack.  The command sent in attempt k was sent 2 * ReadTimeout after
\* the one before, at most, and adds its seconds to the time the server sleeps.
Elapsed(k) == k * (2 * ReadTimeout)
Overslept(k) == k * (sleepSeconds + 2 * ReadTimeout)
Begun == sleepEnd - sleepSeconds

\* However often the command was sent, the server sleeps on for a bounded time.
OversleepBounded ==
    asleepUntil > 0 =>
        asleepUntil <= sleepEnd + (attempts - 1) * (sleepSeconds + 2 * ReadTimeout)

SleepUntimed ==
    sleepAt \in {"new", "prepared"} \/ attempts = 0 => asleepUntil = 0 /\ attempts = 0

SleepWaiting ==
    sleepAt = "waiting" =>
        /\ attempts >= 1
        /\ since <= Begun + Elapsed(attempts - 1)
        /\ now <= since + ReadTimeout
        /\ answerAt >= since + sleepSeconds

SleepRetrying ==
    sleepAt = "retrying" =>
        /\ attempts >= 2
        /\ since + ReadTimeout <= Begun + Elapsed(attempts - 1)
        /\ now <= since + ReadTimeout
        /\ asleepUntil <= sleepEnd + Overslept(attempts - 2)

SleepInv ==
    /\ SleepTypeOK /\ SleepUntimed /\ SleepWaiting /\ SleepRetrying
    /\ ShortSleepsOnly /\ OversleepBounded

LEMMA SleepBounds ==
    ASSUME SleepTypeOK
    PROVE  /\ ReadTimeout \in Nat /\ now \in Int /\ sleepEnd \in Int /\ sleepSeconds \in Nat
           /\ attempts \in Int /\ since \in Int /\ answerAt \in Int /\ asleepUntil \in Nat
           /\ Elapsed(0) = 0 /\ Overslept(0) = 0
           /\ \A k \in Int : /\ Elapsed(k) \in Int /\ Overslept(k) \in Int
                             /\ Elapsed(k + 1) = Elapsed(k) + 2 * ReadTimeout
                             /\ Overslept(k + 1) = Overslept(k) + sleepSeconds + 2 * ReadTimeout
           /\ \A k \in Nat : Elapsed(k) >= 0 /\ Elapsed(k) <= Overslept(k)
<1>1. /\ ReadTimeout \in Nat /\ now \in Int /\ sleepEnd \in Int /\ sleepSeconds \in Nat
      /\ attempts \in Int /\ since \in Int /\ answerAt \in Int /\ asleepUntil \in Nat
  BY SleepAssumption DEF SleepTypeOK
<1>2. \A k, a, b \in Int : /\ k * a \in Int /\ 0 * a = 0 /\ (k + 1) * a = k * a + a
                           /\ k * (a + b) = k * a + k * b
  OBVIOUS
<1>3. \A k, a \in Nat : k * a \in Nat
  OBVIOUS
<1>4. ASSUME NEW k \in Int
      PROVE  /\ Elapsed(k) \in Int /\ Overslept(k) \in Int
             /\ Elapsed(k + 1) = Elapsed(k) + 2 * ReadTimeout
             /\ Overslept(k + 1) = Overslept(k) + sleepSeconds + 2 * ReadTimeout
             /\ Overslept(k) = k * sleepSeconds + Elapsed(k)
  <2> DEFINE r == 2 * ReadTimeout
             s == sleepSeconds + 2 * ReadTimeout
  <2>1. r \in Int /\ s \in Int /\ sleepSeconds \in Int /\ s = sleepSeconds + r
    BY <1>1
  <2>2. Elapsed(k) = k * r /\ Overslept(k) = k * s
        /\ Elapsed(k + 1) = (k + 1) * r /\ Overslept(k + 1) = (k + 1) * s
    BY DEF Elapsed, Overslept
  <2> HIDE DEF r, s
  <2>3. (k + 1) * r = k * r + r /\ (k + 1) * s = k * s + s /\ k * s = k * sleepSeconds + k * r
        /\ k * r \in Int /\ k * s \in Int
    BY <1>2, <2>1
  <2> QED
    BY <2>1, <2>2, <2>3 DEF r, s
<1>5. ASSUME NEW k \in Nat PROVE Elapsed(k) >= 0 /\ Elapsed(k) <= Overslept(k)
  <2>1. k * sleepSeconds \in Nat /\ Elapsed(k) \in Nat
    BY <1>1, <1>3 DEF Elapsed
  <2> QED
    BY <1>4, <2>1
<1>6. Elapsed(0) = 0 /\ Overslept(0) = 0
  BY <1>1, <1>2 DEF Elapsed, Overslept
<1> QED
  BY <1>1, <1>4, <1>5, <1>6

\* What a step that sends nothing leaves.
LEMMA SleepIdle ==
    ASSUME SleepInv, UNCHANGED <<now, sleepEnd, sleepSeconds, attempts, since, answerAt, asleepUntil>>,
           sleepAt' \in {"slept", "failed", "completed"},
           sleepAt' # "failed" => sleepSeconds <= ReadTimeout
    PROVE  SleepInv'
BY DEF SleepInv, SleepTypeOK, SleepUntimed, SleepWaiting, SleepRetrying, ShortSleepsOnly, OversleepBounded

LEMMA SleepStarts == SleepInv /\ SleepStart => SleepInv'
<1> SUFFICES ASSUME SleepInv, SleepStart PROVE SleepInv'
  OBVIOUS
<1>1. /\ sleepAt' = "waiting" /\ attempts' = 1 /\ since' = now /\ now' = now
      /\ sleepEnd' = sleepEnd /\ sleepSeconds' = sleepEnd - now /\ sleepEnd - now > 0
      /\ answerAt' = now + (sleepEnd - now) /\ asleepUntil' = answerAt'
  BY DEF SleepStart, SleepLength, Deliver
<1>2. now \in Nat /\ sleepEnd \in Nat /\ ReadTimeout \in Nat /\ MaxRetries \in Nat
  BY SleepAssumption DEF SleepInv, SleepTypeOK
<1>3. SleepTypeOK'
  BY <1>1, <1>2 DEF SleepTypeOK
<1>4. attempts' - 1 = 0 /\ Elapsed(attempts' - 1) = 0 /\ (attempts' - 1) * (sleepSeconds' + 2 * ReadTimeout') = 0
  BY <1>1, <1>2, <1>3, SleepBounds DEF SleepInv
<1>5. SleepWaiting'
  BY <1>1, <1>2, <1>4 DEF SleepWaiting, Begun, Elapsed
<1>6. OversleepBounded'
  BY <1>1, <1>2, <1>4 DEF OversleepBounded
<1> QED
  BY <1>1, <1>3, <1>5, <1>6
     DEF SleepInv, SleepUntimed, SleepRetrying, ShortSleepsOnly

\* A command sent again adds its seconds to the sleep, or begins a new one.
LEMMA SleepResends == SleepInv /\ SleepResend => SleepInv'
<1> SUFFICES ASSUME SleepInv, SleepResend PROVE SleepInv'
  OBVIOUS
<1>1. /\ sleepAt' = "waiting" /\ attempts' = attempts /\ since' = now /\ now' = now
      /\ sleepEnd' = sleepEnd /\ sleepSeconds' = sleepSeconds
      /\ answerAt' = (IF now < asleepUntil THEN asleepUntil ELSE now) + sleepSeconds
      /\ asleepUntil' = answerAt'
  BY DEF SleepResend, Deliver, Asleep
<1>2. /\ attempts >= 2 /\ since + ReadTimeout <= Begun + Elapsed(attempts - 1)
      /\ now <= since + ReadTimeout /\ asleepUntil <= sleepEnd + Overslept(attempts - 2)
  BY DEF SleepResend, SleepInv, SleepRetrying
<1>3. SleepTypeOK
  BY DEF SleepInv
<1>4. SleepTypeOK'
  BY <1>1, <1>3 DEF SleepTypeOK
<1>b. /\ ReadTimeout \in Nat /\ now \in Int /\ sleepEnd \in Int /\ sleepSeconds \in Nat
      /\ attempts \in Int /\ since \in Int /\ answerAt \in Int /\ asleepUntil \in Nat
  BY <1>3, SleepBounds
<1> DEFINE k == attempts - 2
<1>k. k \in Nat /\ attempts - 1 = k + 1 /\ attempts - 1 \in Nat
  BY <1>2, <1>b
<1>e. /\ Elapsed(attempts - 1) \in Int /\ Overslept(attempts - 1) \in Int /\ Overslept(k) \in Int
      /\ Overslept(k + 1) = Overslept(k) + sleepSeconds + 2 * ReadTimeout
      /\ Elapsed(attempts - 1) <= Overslept(attempts - 1)
  BY <1>3, <1>k, SleepBounds
<1>f. Overslept(attempts - 1) = Overslept(k) + sleepSeconds + 2 * ReadTimeout
  BY <1>e, <1>k
<1> HIDE DEF k
<1>5. now <= Begun + Elapsed(attempts - 1) /\ asleepUntil <= sleepEnd + Overslept(k)
  BY <1>2, <1>b, <1>e DEF Begun, k
<1>6. SleepWaiting'
  <2>1. answerAt' >= now + sleepSeconds /\ now <= now + ReadTimeout /\ attempts >= 1
    BY <1>1, <1>2, <1>b
  <2> QED
    BY <1>1, <1>5, <2>1 DEF SleepWaiting, Begun, Elapsed
<1>7. asleepUntil' <= sleepEnd + Overslept(attempts - 1)
  <2>1. CASE now < asleepUntil
    BY <1>1, <1>5, <1>b, <1>e, <1>f, <2>1
  <2>2. CASE ~(now < asleepUntil)
    BY <1>1, <1>5, <1>b, <1>e, <2>2 DEF Begun
  <2> QED
    BY <2>1, <2>2
<1>8. OversleepBounded'
  BY <1>1, <1>7 DEF OversleepBounded, Overslept
<1> QED
  BY <1>1, <1>2, <1>4, <1>6, <1>8, <1>b DEF SleepInv, SleepUntimed, SleepRetrying, ShortSleepsOnly

LEMMA SleepTimedOut == SleepInv /\ SleepTimesOut => SleepInv'
<1> SUFFICES ASSUME SleepInv, SleepTimesOut PROVE SleepInv'
  OBVIOUS
<1>1. /\ sleepAt \in {"waiting", "retrying"}
      /\ UNCHANGED <<now, sleepEnd, sleepSeconds, answerAt, asleepUntil>>
  BY DEF SleepTimesOut
<1>2. SleepTypeOK
  BY DEF SleepInv
<1>3. CASE sleepAt' = "failed" /\ UNCHANGED <<attempts, since>>
  BY <1>1, <1>3, SleepIdle
<1>4. CASE attempts <= MaxRetries /\ sleepAt' = "retrying" /\ attempts' = attempts + 1 /\ since' = now
  <2>b. /\ ReadTimeout \in Nat /\ now \in Int /\ sleepEnd \in Nat /\ sleepSeconds \in Nat
        /\ attempts \in Int /\ since \in Int /\ answerAt \in Int /\ asleepUntil \in Nat
    BY <1>2, SleepBounds DEF SleepTypeOK
  <2> DEFINE k == attempts - 1
  <2>k. attempts >= 1 /\ k \in Nat /\ attempts' - 1 = k + 1 /\ attempts' - 2 = k
    BY <1>1, <1>4, <2>b DEF SleepInv, SleepWaiting, SleepRetrying
  <2>e. /\ Elapsed(k) \in Int /\ Elapsed(k) >= 0 /\ Elapsed(k) <= Overslept(k)
        /\ Overslept(k) \in Int
        /\ Elapsed(k + 1) = Elapsed(k) + 2 * ReadTimeout
        /\ Overslept(k + 1) = Overslept(k) + sleepSeconds + 2 * ReadTimeout
    BY <1>2, <2>k, SleepBounds
  <2>1. now <= Begun + Elapsed(k) + ReadTimeout /\ asleepUntil <= sleepEnd + Overslept(k)
    <3>1. CASE sleepAt = "waiting"
      <4>1. asleepUntil > 0 => asleepUntil <= sleepEnd + Overslept(k)
        BY DEF SleepInv, OversleepBounded, Overslept
      <4>2. since <= Begun + Elapsed(k) /\ now <= since + ReadTimeout
        BY <3>1 DEF SleepInv, SleepWaiting
      <4> HIDE DEF k
      <4> QED
        BY <2>b, <2>e, <4>1, <4>2 DEF Begun
    <3>2. CASE sleepAt = "retrying"
      <4>1. /\ since + ReadTimeout <= Begun + Elapsed(k) /\ now <= since + ReadTimeout
            /\ asleepUntil <= sleepEnd + Overslept(attempts - 2)
        BY <3>2 DEF SleepInv, SleepRetrying
      <4>2. attempts - 2 \in Int /\ (attempts - 2) + 1 = k
        BY <2>b
      <4>3. /\ Overslept((attempts - 2) + 1) = Overslept(attempts - 2) + sleepSeconds + 2 * ReadTimeout
            /\ Overslept(attempts - 2) \in Int
        BY <1>2, <4>2, SleepBounds
      <4>4. Overslept(k) = Overslept(attempts - 2) + sleepSeconds + 2 * ReadTimeout
        BY <4>2, <4>3
      <4> HIDE DEF k
      <4> QED
        BY <2>b, <2>e, <4>1, <4>3, <4>4 DEF Begun
    <3> QED
      BY <1>1, <3>1, <3>2
  <2>2. SleepTypeOK'
    BY <1>1, <1>2, <1>4, SleepAssumption DEF SleepTypeOK
  <2>3. /\ Elapsed(attempts' - 1) = Elapsed(k) + 2 * ReadTimeout
        /\ Overslept(attempts' - 2) = Overslept(k)
        /\ Overslept(attempts' - 1) = Overslept(k) + sleepSeconds + 2 * ReadTimeout
    BY <2>k, <2>e
  <2>4. attempts' >= 2
    BY <1>4, <2>b, <2>k
  <2> HIDE DEF k
  <2>5. SleepRetrying'
    <3>1. now + ReadTimeout <= Begun + Elapsed(attempts' - 1) /\ now <= now + ReadTimeout
      BY <2>b, <2>e, <2>1, <2>3 DEF Begun
    <3> QED
      BY <1>1, <1>4, <2>1, <2>3, <2>4, <3>1 DEF SleepRetrying, Begun, Elapsed, Overslept
  <2>6. OversleepBounded'
    <3>1. asleepUntil <= sleepEnd + Overslept(attempts' - 1)
      BY <2>b, <2>e, <2>1, <2>3
    <3> QED
      BY <1>1, <3>1 DEF OversleepBounded, Overslept
  <2> QED
    BY <1>4, <2>2, <2>4, <2>5, <2>6, <2>b DEF SleepInv, SleepUntimed, SleepWaiting, ShortSleepsOnly
<1> QED
  BY <1>3, <1>4 DEF SleepTimesOut

LEMMA SleepInductive == SleepInv /\ [SleepNext]_<<now, sleepVars>> => SleepInv'
<1> SUFFICES ASSUME SleepInv, [SleepNext]_<<now, sleepVars>> PROVE SleepInv'
  OBVIOUS
<1>0. SleepTypeOK
  BY DEF SleepInv
<1>1. CASE SleepPrepare
  <2>1. sleepEnd' \in Nat
    BY <1>0, <1>1, SleepAssumption DEF SleepPrepare, SleepTypeOK
  <2> QED
    BY <1>1, <2>1 DEF SleepPrepare, SleepInv, SleepTypeOK, SleepUntimed, SleepWaiting,
                      SleepRetrying, ShortSleepsOnly, OversleepBounded
<1>2. CASE SleepRefused
  BY <1>2, SleepIdle DEF SleepRefused
<1>3. CASE SleepAnswered
  <2>1. sleepSeconds <= ReadTimeout
    BY <1>0, <1>3, SleepBounds DEF SleepAnswered, SleepInv, SleepWaiting
  <2> QED
    BY <1>3, <2>1, SleepIdle DEF SleepAnswered
<1>4. CASE SleepStatus
  BY <1>4, SleepIdle DEF SleepStatus, SleepInv, ShortSleepsOnly
<1>5. CASE Passes /\ SleepInTime /\ UNCHANGED sleepVars
  <2>1. now' \in Nat
    BY <1>0, <1>5 DEF Passes, SleepTypeOK
  <2>2. sleepAt \in {"waiting", "retrying"} => now' <= since + ReadTimeout
    BY <1>0, <1>5, SleepBounds DEF Passes, SleepInTime
  <2> QED
    BY <1>5, <2>1, <2>2
       DEF sleepVars, SleepInv, SleepTypeOK, SleepUntimed, SleepWaiting, SleepRetrying,
           ShortSleepsOnly, OversleepBounded, Begun, Elapsed, Overslept
<1>6. CASE UNCHANGED <<now, sleepVars>>
  BY <1>6 DEF sleepVars, SleepInv, SleepTypeOK, SleepUntimed, SleepWaiting, SleepRetrying,
              ShortSleepsOnly, OversleepBounded, Begun, Elapsed, Overslept
<1> QED
  BY <1>1, <1>2, <1>3, <1>4, <1>5, <1>6, SleepStarts, SleepResends, SleepTimedOut
     DEF SleepNext, SleepHandler

LEMMA SleepInitial == now = 0 /\ SleepInit => SleepInv
BY SleepAssumption DEF SleepInit, SleepInv, SleepTypeOK, SleepUntimed, SleepWaiting,
    SleepRetrying, ShortSleepsOnly, OversleepBounded

\* Every reachable state of the sentinel stop attack is well typed.
THEOREM SleepTypeCorrect == SleepSpec => []SleepTypeOK
<1>1. SleepInv => SleepTypeOK
  BY DEF SleepInv
<1> QED
  BY <1>1, SleepInitial, SleepInductive, PTL DEF SleepSpec

\* Start reports success only for sleeps no longer than the client's read timeout, for any
\* timeout and any number of retries.
THEOREM OnlyShortSleepsSucceed == SleepSpec => []ShortSleepsOnly
<1>1. SleepInv => ShortSleepsOnly
  BY DEF SleepInv
<1> QED
  BY <1>1, SleepInitial, SleepInductive, PTL DEF SleepSpec

\* However often go-redis sends the command again, the server wakes up: each attempt adds
\* the sleep and two read timeouts, at most.
THEOREM ServersWakeUp == SleepSpec => []OversleepBounded
<1>1. SleepInv => OversleepBounded
  BY DEF SleepInv
<1> QED
  BY <1>1, SleepInitial, SleepInductive, PTL DEF SleepSpec

\* Only a command that was sent again makes the server sleep beyond the end of the attack.
THEOREM RecoversUnlessSentAgain == SleepSpec => [](attempts <= 1 => RecoversAfterDuration)
<1>1. ASSUME SleepInv, attempts <= 1, sleepAt # "new", now >= sleepEnd PROVE ~Asleep
  <2>0. SleepTypeOK
    BY <1>1 DEF SleepInv
  <2>1. /\ now \in Nat /\ sleepEnd \in Nat /\ asleepUntil \in Nat /\ attempts \in 0 .. MaxRetries + 1
        /\ sleepSeconds \in Nat /\ ReadTimeout \in Nat /\ MaxRetries \in Nat
    BY <2>0, SleepAssumption DEF SleepTypeOK
  <2>2. CASE asleepUntil = 0
    BY <2>1, <2>2 DEF Asleep
  <2>3. CASE asleepUntil > 0 /\ attempts = 1
    <3>1. (attempts - 1) * (sleepSeconds + 2 * ReadTimeout) = 0
      BY <2>0, <2>3, SleepBounds DEF Overslept
    <3>2. asleepUntil <= sleepEnd
      BY <1>1, <2>1, <2>3, <3>1 DEF SleepInv, OversleepBounded
    <3> QED
      BY <1>1, <2>1, <3>2 DEF Asleep
  <2>4. CASE asleepUntil > 0 /\ attempts = 0
    <3>1. attempts = 0 => asleepUntil = 0
      BY <1>1 DEF SleepInv, SleepUntimed
    <3> QED
      BY <2>4, <3>1
  <2> QED
    BY <1>1, <2>1, <2>2, <2>3, <2>4
<1>2. SleepInv => (attempts <= 1 => RecoversAfterDuration)
  BY <1>1 DEF RecoversAfterDuration
<1> QED
  BY <1>2, SleepInitial, SleepInductive, PTL DEF SleepSpec

-----------------------------------------------------------------------------
\* The composition.  A step of one component is a step of its own specification, and leaves
\* the others alone; only the clock moves for all.
LEMMA PauseComposed == [ExperimentNext]_everything => [PauseNext]_<<now, pauseVars>>
<1> SUFFICES ASSUME [ExperimentNext]_everything PROVE [PauseNext]_<<now, pauseVars>>
  OBVIOUS
<1>1. ASSUME NEW e \in Pauses, PauseStep(e) PROVE PauseNext
  BY <1>1 DEF PauseStep, PauseCalls, PauseVisits, PauseNext
<1>2. CASE TimePasses
  BY <1>2 DEF TimePasses, PauseNext
<1>3. CASE CheckStep
  BY <1>3 DEF CheckStep, CheckStarts, Polls, Prepare, Start, StatusCalled, StatusReturns,
              UsageStatus, LatencyStatus, ReplicationStatus, PingFails, CallFails, Observe, Returns
<1>4. CASE SleepStep
  BY <1>4 DEF SleepStep, SleepPrepare, SleepHandler, SleepStatus, SleepRefused, SleepStart,
              SleepResend, SleepAnswered, SleepTimesOut
<1>5. CASE DiscoveryStep \/ ScanStep \/ UNCHANGED everything
  BY <1>5 DEF DiscoveryStep, ScanStep, everything
<1> QED
  BY <1>1, <1>2, <1>3, <1>4, <1>5 DEF ExperimentNext

LEMMA SleepComposed == [ExperimentNext]_everything => [SleepNext]_<<now, sleepVars>>
<1> SUFFICES ASSUME [ExperimentNext]_everything PROVE [SleepNext]_<<now, sleepVars>>
  OBVIOUS
<1>1. ASSUME NEW e \in Pauses, PauseStep(e) PROVE UNCHANGED <<now, sleepVars>>
  BY <1>1 DEF PauseStep, PauseCalls, PauseVisits, PauseReturns, PausePrepare, PauseStart,
              PauseListed, PauseStop, PauseNode, UnpauseNode, PauseReturn, UnpauseReturn, PauseInterrupted
<1>2. CASE TimePasses
  BY <1>2 DEF TimePasses, SleepNext
<1>3. CASE CheckStep
  BY <1>3 DEF CheckStep, CheckStarts, Polls, Prepare, Start, StatusCalled, StatusReturns,
              UsageStatus, LatencyStatus, ReplicationStatus, PingFails, CallFails, Observe, Returns
<1>4. CASE SleepStep
  BY <1>4 DEF SleepStep, SleepNext
<1>5. CASE DiscoveryStep \/ ScanStep \/ UNCHANGED everything
  BY <1>5 DEF DiscoveryStep, ScanStep, everything
<1> QED
  BY <1>1, <1>2, <1>3, <1>4, <1>5 DEF ExperimentNext

LEMMA CheckComposed == [ExperimentNext]_everything => [Next]_vars
<1> SUFFICES ASSUME [ExperimentNext]_everything PROVE [Next]_vars
  OBVIOUS
<1>1. ASSUME NEW e \in Pauses, PauseStep(e) PROVE UNCHANGED vars
  BY <1>1 DEF PauseStep, PauseCalls, PauseVisits, PauseReturns, PausePrepare, PauseStart,
              PauseListed, PauseStop, PauseNode, UnpauseNode, PauseReturn, UnpauseReturn, PauseInterrupted, checkVars, vars
<1>2. CASE TimePasses
  BY <1>2 DEF TimePasses, Next, Tick, checkVars
<1>3. CASE CheckStep
  BY <1>3 DEF CheckStep, CheckStarts, Polls, Next
<1>4. CASE SleepStep
  BY <1>4 DEF SleepStep, SleepPrepare, SleepHandler, SleepStatus, SleepRefused, SleepStart,
              SleepResend, SleepAnswered, SleepTimesOut, checkVars, vars
<1>5. CASE DiscoveryStep \/ ScanStep \/ UNCHANGED everything
  BY <1>5 DEF DiscoveryStep, ScanStep, everything, checkVars, vars
<1> QED
  BY <1>1, <1>2, <1>3, <1>4, <1>5 DEF ExperimentNext

LEMMA DiscoveryComposed == [ExperimentNext]_everything => [DiscoveryNext]_discoveryVars
BY DEF ExperimentNext, everything, CheckStep, PauseStep, SleepStep, DiscoveryStep, ScanStep,
       TimePasses, DiscoveryNext

LEMMA ScanComposed == [ExperimentNext]_everything => [ScanNext]_scanVars
BY DEF ExperimentNext, everything, CheckStep, PauseStep, SleepStep, DiscoveryStep, ScanStep,
       TimePasses, ScanNext

\* The composition implements each of its components: what servers do to one another's calls
\* is among what each module allows a server to do by itself.
THEOREM ComponentsImplemented ==
    ExperimentSpec => /\ PauseSpec
                      /\ SleepSpec
                      /\ Init /\ [][Next]_vars
                      /\ DiscoverySpec
                      /\ ScanSpec
<1>1. ExperimentInit => now = 0 /\ PauseInit /\ SleepInit /\ Init /\ DiscoveryInit /\ ScanInit
  BY DEF ExperimentInit, Init
<1> QED
  BY <1>1, PauseComposed, SleepComposed, CheckComposed, DiscoveryComposed, ScanComposed, PTL
     DEF ExperimentSpec, PauseSpec, SleepSpec, DiscoverySpec, ScanSpec

\* Next to each other, on servers that pause and sleep, pauses last, expire and are ended, a
\* sleep ends, a check passes and fails for its reasons, and the searches find their targets
\* and keys, as they do alone.
THEOREM ComponentsKeepPromises ==
    ExperimentSpec => []( /\ PausedUntilEnd /\ PausesExpire /\ NothingLeftPaused
                          /\ ShortSleepsOnly /\ OversleepBounded
                          /\ PassedMeansBelow /\ FailedMeansReason
                          /\ TargetsComplete /\ ScanComplete )
<1>1. CheckInv => PassedMeansBelow /\ FailedMeansReason
  BY DEF CheckInv
<1> QED
  BY <1>1, ComponentsImplemented, PausesHold, PausesEnd, StopLeavesNothing, OnlyShortSleepsSucceed,
     ServersWakeUp, InitCheck, NextCheck, TargetsFound, KeysFound, PTL

-----------------------------------------------------------------------------
\* The server a check is on was heard at the latest when a Status was answered, and the next
\* one is called and answered in time.
Heard ==
    /\ heardAt \in Int /\ heardAt <= now
    /\ Answers(Checked) => heardAt = now
    /\ kind # "latency" /\ pc = "running" => polledAt <= heardAt /\ now <= polledAt + PollInterval
    /\ kind # "latency" /\ pc = "polling" =>
         polledAt <= heardAt + PollInterval /\ now <= polledAt + StatusTimeout

LEMMA Later ==
    ASSUME NEW a \in Int, NEW b \in Int, NEW c \in Int, NEW d \in Int, a <= b + c, b <= d
    PROVE  a <= d + c
OBVIOUS

LEMMA CheckNumbers ==
    ASSUME TypeOK
    PROVE  now \in Int /\ polledAt \in Int /\ polledAt <= now /\ PollInterval \in Nat /\ StatusTimeout \in Nat
BY TimeAssumption, PollingAssumption DEF TypeOK

\* The monitor does not go back, and knows a server that answers.
LEMMA Listened ==
    ASSUME Heard, Listening, now \in Int, now' \in Int, now' >= now
    PROVE  /\ heardAt' \in Int /\ heardAt <= heardAt' /\ heardAt' <= now'
           /\ Answers(Checked)' => heardAt' = now'
BY DEF Heard, Listening

\* Steps that leave the check alone, time included.
LEMMA HeardElsewhere ==
    ASSUME TypeOK, Heard, UNCHANGED <<now, checkVars>>, Listening
    PROVE  Heard'
<1>1. /\ heardAt' \in Int /\ heardAt <= heardAt' /\ heardAt' <= now'
      /\ Answers(Checked)' => heardAt' = now'
  BY Listened, CheckNumbers
<1>2. now' = now /\ kind' = kind /\ pc' = pc /\ polledAt' = polledAt
  BY DEF checkVars, state, call
<1> QED
  BY <1>1, <1>2, CheckNumbers DEF Heard

\* A Status that returns to a check that goes on was answered, the latency check apart.
LEMMA AnsweredOrFailed ==
    ASSUME TypeOK, StatusReturns, kind # "latency"
    PROVE  /\ pc = "polling" /\ now' = now /\ kind' = kind /\ polledAt' = now
           /\ pc' \in {"running", "passed", "failed"}
           /\ pc' = "running" => answered'
<1>1. ASSUME NEW exceeds \in BOOLEAN, Observe(exceeds)
      PROVE  /\ pc = "polling" /\ now' = now /\ kind' = kind /\ polledAt' = now /\ answered' = TRUE
             /\ pc' \in {"running", "passed", "failed"}
  BY <1>1, OutcomeType DEF Observe, Returns
<1>2. CASE UsageStatus \/ ReplicationStatus
  BY <1>1, <1>2, ExceedsType DEF UsageStatus, ReplicationStatus
<1>3. CASE CallFails
  BY <1>3 DEF CallFails, Returns
<1> QED
  BY <1>2, <1>3 DEF StatusReturns, LatencyStatus, PingFails

LEMMA HeardInCheck ==
    ASSUME TypeOK, Heard, CheckStep
    PROVE  Heard'
<1>1. now' = now /\ Answers(Checked)' = Answers(Checked)
  BY DEF CheckStep, CheckStarts, Polls, Prepare, Start, StatusCalled, StatusReturns, UsageStatus,
         LatencyStatus, ReplicationStatus, PingFails, CallFails, Observe, Returns, pauseVars,
         sleepVars, servers, Answers, Responds, Paused,
         SleepsOn, Asleep
<1>2. /\ heardAt' \in Int /\ heardAt <= heardAt' /\ heardAt' <= now'
      /\ Answers(Checked)' => heardAt' = now'
  BY <1>1, Listened, CheckNumbers DEF CheckStep
<1>3. CASE CheckStarts
  <2>1. /\ pc' # "polling"
        /\ pc' = "running" => polledAt' = now /\ Answers(Checked)
    BY <1>3 DEF CheckStarts, Prepare, Start
  <2> QED
    BY <1>1, <1>2, <2>1, CheckNumbers DEF Heard
<1>4. CASE StatusCalled
  <2>1. pc = "running" /\ pc' = "polling" /\ polledAt' = now /\ kind' = kind
    BY <1>4 DEF StatusCalled, state
  <2> QED
    BY <1>1, <1>2, <2>1, CheckNumbers DEF Heard
<1>5. CASE StatusReturns /\ (answered' => Answers(Checked))
  <2>1. CASE kind = "latency"
    <3>1. kind' = kind
      BY <1>5 DEF StatusReturns, UsageStatus, LatencyStatus, ReplicationStatus, PingFails, CallFails,
                  Observe, Returns
    <3> QED
      BY <1>2, <2>1, <3>1 DEF Heard
  <2>2. CASE kind # "latency"
    BY <1>1, <1>2, <1>5, <2>2, AnsweredOrFailed, CheckNumbers DEF Heard
  <2> QED
    BY <2>1, <2>2
<1> QED
  BY <1>3, <1>4, <1>5 DEF CheckStep, Polls

LEMMA HeardInductive ==
    TypeOK /\ Heard /\ [ExperimentNext]_everything => Heard'
<1> SUFFICES ASSUME TypeOK, Heard, [ExperimentNext]_everything PROVE Heard'
  OBVIOUS
<1>1. ASSUME NEW e \in Pauses, PauseStep(e) PROVE Heard'
  <2>1. UNCHANGED <<now, checkVars>> /\ Listening
    BY <1>1 DEF PauseStep, PauseCalls, PauseVisits, PauseReturns, PausePrepare, PauseStart,
                PauseListed, PauseStop, PauseNode, UnpauseNode, PauseReturn, UnpauseReturn, PauseInterrupted
  <2> QED
    BY <2>1, HeardElsewhere
<1>2. CASE SleepStep
  <2>1. UNCHANGED <<now, checkVars>> /\ Listening
    BY <1>2 DEF SleepStep, SleepPrepare, SleepHandler, SleepStatus, SleepRefused, SleepStart,
                SleepResend, SleepAnswered, SleepTimesOut
  <2> QED
    BY <2>1, HeardElsewhere
<1>3. CASE DiscoveryStep \/ ScanStep \/ UNCHANGED everything
  <2>1. UNCHANGED <<now, checkVars, pauseVars, sleepVars, heardAt>>
    BY <1>3 DEF DiscoveryStep, ScanStep, everything
  <2>2. Answers(Checked)' = Answers(Checked)
    BY <2>1 DEF pauseVars, sleepVars, servers, Answers, Responds, Paused,
         SleepsOn, Asleep
  <2>3. now' = now /\ heardAt' = heardAt /\ kind' = kind /\ pc' = pc /\ polledAt' = polledAt
    BY <2>1 DEF checkVars, state, call
  <2> QED
    BY <2>2, <2>3 DEF Heard
<1>4. CASE TimePasses
  <2>1. /\ now' = now + 1 /\ CheckInTime /\ Listening
        /\ kind' = kind /\ pc' = pc /\ polledAt' = polledAt
    BY <1>4 DEF TimePasses, Passes, checkVars, state, call
  <2>2. now \in Int /\ polledAt \in Int /\ PollInterval \in Nat /\ StatusTimeout \in Nat
    BY CheckNumbers
  <2>3. /\ heardAt' \in Int /\ heardAt <= heardAt' /\ heardAt' <= now'
        /\ Answers(Checked)' => heardAt' = now'
    BY <2>1, <2>2, Listened
  <2>4. ASSUME kind # "latency", pc = "running"
        PROVE  polledAt <= heardAt' /\ now' <= polledAt + PollInterval
    <3>1. polledAt <= heardAt /\ now < polledAt + PollInterval
      BY <2>1, <2>4 DEF Heard, CheckInTime
    <3>2. heardAt \in Int
      BY DEF Heard
    <3> QED
      BY <2>1, <2>2, <2>3, <3>1, <3>2
  <2>5. ASSUME kind # "latency", pc = "polling"
        PROVE  polledAt <= heardAt' + PollInterval /\ now' <= polledAt + StatusTimeout
    <3>1. polledAt <= heardAt + PollInterval /\ now < polledAt + StatusTimeout
      BY <2>1, <2>5 DEF Heard, CheckInTime
    <3>2. heardAt \in Int /\ heardAt' \in Int /\ heardAt <= heardAt'
      BY <2>3 DEF Heard
    <3>3. now' = now + 1
      BY <2>1
    <3>4. polledAt <= heardAt' + PollInterval
      <4>1. PollInterval \in Int /\ polledAt \in Int
        BY <2>2
      <4>2. polledAt <= heardAt + PollInterval
        BY <3>1
      <4> QED
        BY <3>2, <4>1, <4>2, Later
    <3>5. now' <= polledAt + StatusTimeout
      BY <2>2, <3>1, <3>3
    <3> QED
      BY <3>4, <3>5
  <2> QED
    BY <2>1, <2>3, <2>4, <2>5 DEF Heard
<1> QED
  BY <1>1, <1>2, <1>3, <1>4, HeardInCheck DEF ExperimentNext

\* A server is not silent for longer than the agent's interval and the timeout of a Status
\* without the memory, connection or replication check on it failing, whichever attacks
\* silence it, however they overlap and however late it answers.
THEOREM DisruptionSeen == ExperimentSpec => []DisruptionFailsCheck
<1>1. ExperimentInit => Init /\ Heard
  BY DEF ExperimentInit, Init, Heard
<1>2. CheckInv => TypeOK
  BY DEF CheckInv
<1>3. ASSUME TypeOK, Heard PROVE DisruptionFailsCheck
  BY <1>3, CheckNumbers DEF Heard, DisruptionFailsCheck
<1> QED
  BY <1>1, <1>2, <1>3, InitCheck, NextCheck, CheckComposed, HeardInductive, PTL DEF ExperimentSpec
=============================================================================
