------------------------- MODULE ThresholdChecksProofs -------------------------
(***************************************************************************)
(* Proofs about the checks: for any thresholds, readings, durations and    *)
(* failing calls a check that passes has read nothing over its threshold,  *)
(* the exception of the latency check apart, and one that fails has a      *)
(* reason.                                                                 *)
(***************************************************************************)
EXTENDS ThresholdChecks, TLAPS

\* The latch is set exactly when a value over the threshold has been read, and
\* nothing is read before the check runs.
Latched ==
    /\ thresholdExceeded = over
    /\ pc \in {"new", "prepared"} => ~over

CheckInv == TypeOK /\ Latched /\ PassedMeansBelow /\ FailedMeansReason

LEMMA InitCheck == Init => CheckInv
<1> SUFFICES ASSUME Init PROVE CheckInv
  OBVIOUS
<1>1. 0 \in 0 .. MaxTime
  BY TimeAssumption
<1>2. ~linkDownDetected /\ ~over /\ ~completed
  BY Zenon DEF Init
<1>3. /\ linkDownDetected \in BOOLEAN /\ thresholdExceeded \in BOOLEAN /\ completed \in BOOLEAN
      /\ over \in BOOLEAN /\ callFailed \in BOOLEAN /\ answered \in BOOLEAN
  BY Zenon DEF Init
<1>4. TypeOK
  BY <1>1, <1>2, <1>3 DEF Init, TypeOK
<1> QED
  BY <1>2, <1>4 DEF Init, CheckInv, Latched, PassedMeansBelow, FailedMeansReason

\* What is measured against a threshold is over it or not.
LEMMA ExceedsType ==
    /\ \A v \in Values, c \in Capacities : UsageExceeds(v, c) \in BOOLEAN
    /\ \A r, l \in BOOLEAN, v \in Values : LinkDown(r, l) \in BOOLEAN
    /\ \A r, l \in BOOLEAN, v \in Values : ReplicationExceeds(r, l, v) \in BOOLEAN
    /\ \A v \in Values : (v > MaxValue) \in BOOLEAN
BY DEF UsageExceeds, LinkDown, ReplicationExceeds

\* A Status that returns leaves the check running, or ends it; it ends it without an error
\* only when the end was reached before it asked.
LEMMA OutcomeType ==
    ASSUME TypeOK, NEW exceeds \in BOOLEAN
    PROVE  /\ Outcome(exceeds) \in {"running", "passed", "failed"}
           /\ Outcome(exceeds) = "running" <=> ~completed
           /\ Outcome(exceeds) = "passed" => ~(thresholdExceeded \/ exceeds)
           /\ Outcome(exceeds) = "failed" => completed /\ (thresholdExceeded \/ exceeds)
BY DEF Outcome, TypeOK

LEMMA LastCall ==
    ASSUME TypeOK, completed
    PROVE  now >= endTime
<1>1. now \in Int /\ endTime \in Int /\ polledAt \in 0 .. now /\ polledAt >= endTime
  BY TimeAssumption DEF TypeOK
<1> QED
  BY <1>1

\* What a Status leaves when it returns.
LEMMA ReturnsType ==
    ASSUME TypeOK, NEW at \in {"running", "passed", "failed"}, NEW withAnswer \in BOOLEAN,
           Returns(at, withAnswer), thresholdExceeded' \in BOOLEAN, linkDownDetected' \in BOOLEAN,
           linkDownDetected' => thresholdExceeded', over' \in BOOLEAN, callFailed' \in BOOLEAN
    PROVE  TypeOK'
<1>1. now \in Nat /\ now' \in 0 .. MaxTime /\ polledAt' \in 0 .. now'
  BY TimeAssumption DEF TypeOK, Returns
<1>2. completed' = FALSE /\ answered' \in BOOLEAN
  BY DEF Returns
<1> QED
  BY <1>1, <1>2 DEF TypeOK, Returns

\* A Status that has read a value keeps the invariant, if it leaves the link alone
\* or finds it down with the threshold.
LEMMA ObserveKeeps ==
    ASSUME CheckInv, NEW exceeds \in BOOLEAN, Observe(exceeds),
           linkDownDetected' \in BOOLEAN,
           linkDownDetected' => linkDownDetected \/ exceeds
    PROVE  CheckInv'
<1>0. TypeOK
  BY DEF CheckInv
<1>1. (thresholdExceeded \/ exceeds) \in BOOLEAN /\ (over \/ exceeds) \in BOOLEAN
  OBVIOUS
<1>2. thresholdExceeded' = over' /\ thresholdExceeded' = (thresholdExceeded \/ exceeds)
  BY DEF Observe, CheckInv, Latched
<1>3. pc' = Outcome(exceeds) /\ pc' \in {"running", "passed", "failed"}
  BY <1>0, OutcomeType DEF Observe, Returns
<1>4. TypeOK'
  BY <1>0, <1>1, <1>2, <1>3, ReturnsType DEF TypeOK, Observe
<1>5. Latched'
  BY <1>2, <1>3 DEF Latched
<1>6. PassedMeansBelow'
  BY <1>0, <1>2, <1>3, OutcomeType DEF PassedMeansBelow
<1>7. FailedMeansReason'
  BY <1>0, <1>2, <1>3, OutcomeType, LastCall DEF FailedMeansReason, Observe, Returns
<1> QED
  BY <1>4, <1>5, <1>6, <1>7 DEF CheckInv

\* Every step keeps the invariant.
LEMMA NextCheck == CheckInv /\ [Next]_vars => CheckInv'
<1> SUFFICES ASSUME CheckInv, [Next]_vars PROVE CheckInv'
  OBVIOUS
<1> USE DEF CheckInv
<1>1. CASE Prepare
  <2>1. now + Duration \in 0 .. MaxTime
    BY <1>1, TimeAssumption, DurationAssumption DEF Prepare, TypeOK
  <2>2. ~linkDownDetected' /\ ~thresholdExceeded' /\ ~over'
    BY <1>1, Zenon DEF Prepare, history, Latched
  <2>3. over' = FALSE /\ thresholdExceeded' = FALSE
    BY <1>1, <2>2 DEF Prepare, history, TypeOK
  <2>4. TypeOK'
    BY <1>1, <2>1, <2>2 DEF Prepare, call, history, TypeOK
  <2> QED
    BY <1>1, <2>2, <2>3, <2>4
       DEF Prepare, Latched, PassedMeansBelow, FailedMeansReason
<1>2. CASE Start
  <2>1. now \in Nat /\ polledAt' \in 0 .. now'
    BY <1>2, TimeAssumption DEF Start, TypeOK
  <2>2. ~completed
    BY <1>2 DEF Start, TypeOK
  <2> QED
    BY <1>2, <2>1, <2>2 DEF Start, state, TypeOK, Latched, PassedMeansBelow, FailedMeansReason
<1>c. CASE StatusCalled
  <2>1. now \in Nat /\ polledAt' \in 0 .. now' /\ endTime \in Int
    BY <1>c, TimeAssumption DEF StatusCalled, TypeOK
  <2>2. completed' = (now >= endTime) /\ (now >= endTime) \in BOOLEAN
    BY <1>c DEF StatusCalled
  <2>3. completed' \in BOOLEAN
    BY <2>2, Zenon
  <2>4. pc' = "polling" /\ polledAt' = now /\ endTime' = endTime
    BY <1>c DEF StatusCalled, state
  <2>5. completed' => polledAt' >= endTime'
    BY <2>2, <2>4
  <2> QED
    BY <1>c, <2>1, <2>3, <2>4, <2>5
       DEF StatusCalled, state, history, TypeOK, Latched, PassedMeansBelow, FailedMeansReason
<1>3. CASE UsageStatus
  <2>1. PICK v \in Values, c \in Capacities : Observe(UsageExceeds(v, c))
    BY <1>3 DEF UsageStatus
  <2>2. linkDownDetected' = linkDownDetected
    BY <1>3 DEF UsageStatus
  <2> QED
    BY <2>1, <2>2, ObserveKeeps, ExceedsType DEF TypeOK
<1>4. CASE ReplicationStatus
  <2>1. PICK r, l \in BOOLEAN, v \in Values :
          /\ Observe(ReplicationExceeds(r, l, v))
          /\ linkDownDetected' = (linkDownDetected \/ LinkDown(r, l))
    BY <1>4 DEF ReplicationStatus
  <2>2. LinkDown(r, l) => ReplicationExceeds(r, l, v)
    BY DEF ReplicationExceeds
  <2>3. linkDownDetected' \in BOOLEAN
    BY <2>1
  <2>4. linkDownDetected' => linkDownDetected \/ ReplicationExceeds(r, l, v)
    BY <2>1, <2>2
  <2> QED
    BY <2>1, <2>3, <2>4, ObserveKeeps, ExceedsType
<1>5. CASE LatencyStatus
  <2>1. PICK v \in Values : Observe(v > MaxValue)
    BY <1>5 DEF LatencyStatus
  <2>2. linkDownDetected' = linkDownDetected
    BY <1>5 DEF LatencyStatus
  <2> QED
    BY <2>1, <2>2, ObserveKeeps, ExceedsType DEF TypeOK
<1>6. CASE PingFails
  <2>1. Returns(IF completed THEN "passed" ELSE "running", FALSE) /\ kind = "latency"
    BY <1>6 DEF PingFails
  <2>2. UNCHANGED <<thresholdExceeded, linkDownDetected, over, callFailed>>
    BY <1>6 DEF PingFails
  <2>3. TypeOK'
    BY <2>1, <2>2, ReturnsType DEF TypeOK
  <2> QED
    BY <2>1, <2>2, <2>3 DEF Returns, TypeOK, Latched, PassedMeansBelow, FailedMeansReason
<1>7. CASE CallFails
  <2>1. Returns("failed", FALSE) /\ callFailed' = TRUE
    BY <1>7 DEF CallFails
  <2>2. UNCHANGED <<thresholdExceeded, linkDownDetected, over>>
    BY <1>7 DEF CallFails
  <2>3. TypeOK'
    BY <2>1, <2>2, ReturnsType DEF TypeOK
  <2> QED
    BY <2>1, <2>2, <2>3 DEF Returns, Latched, PassedMeansBelow, FailedMeansReason
<1>8. CASE Tick
  <2>1. /\ now' \in 0 .. MaxTime /\ polledAt' \in 0 .. now' /\ now' >= now
        /\ now \in Int /\ endTime \in Int
    BY <1>8, TimeAssumption DEF Tick, Passes, call, TypeOK
  <2> QED
    BY <1>8, <2>1
       DEF Tick, state, call, history, TypeOK, Latched, PassedMeansBelow, FailedMeansReason
<1>9. CASE UNCHANGED vars
  BY <1>9
     DEF vars, state, call, history, TypeOK, Latched, PassedMeansBelow, FailedMeansReason
<1> QED
  BY <1>1, <1>2, <1>c, <1>3, <1>4, <1>5, <1>6, <1>7, <1>8, <1>9 DEF Next, StatusReturns

\* Every reachable state is well typed.
THEOREM CheckTypeCorrect == Spec => []TypeOK
<1>1. CheckInv => TypeOK
  BY DEF CheckInv
<1> QED
  BY <1>1, InitCheck, NextCheck, PTL DEF Spec

\* No value over the threshold is forgotten: a check that passes has never read one,
\* unless it is the latency check and its last ping failed.
THEOREM NothingForgotten == Spec => []PassedMeansBelow
<1>1. CheckInv => PassedMeansBelow
  BY DEF CheckInv
<1> QED
  BY <1>1, InitCheck, NextCheck, PTL DEF Spec

\* A check fails because a call failed, or at its end because of a value it read.
THEOREM NoEarlyFailure == Spec => []FailedMeansReason
<1>1. CheckInv => FailedMeansReason
  BY DEF CheckInv
<1> QED
  BY <1>1, InitCheck, NextCheck, PTL DEF Spec

\* A check passes no earlier than its end time; the first Status called from then on is the
\* last one, whenever it is answered, whatever it reads and whether its call fails, and no
\* Status takes longer than its timeout; the end time is within the bound of the clock and
\* does not move.  With it CheckEnds needs of the scheduling only that time passes, Status is
\* called and answers.
EndsOnTime ==
    /\ pc = "polling" /\ pc' = "passed" => now >= endTime
    /\ pc = "running" /\ pc' = "polling" /\ now >= endTime => completed'
    /\ pc = "polling" /\ completed /\ pc' = "polling" => completed'
    /\ pc = "polling" /\ completed => pc' \in {"polling", "passed", "failed"}
    /\ pc = "polling" /\ pc' = "polling" =>
         polledAt' = polledAt /\ (now' # now => now' <= polledAt + StatusTimeout)
    /\ pc \in {"running", "polling"} => endTime' = endTime /\ now' >= now
    /\ pc \in {"passed", "failed"} => pc' = pc

THEOREM ChecksEndOnTime == Spec => [](endTime <= MaxTime) /\ [][EndsOnTime]_vars
<1>1. CheckInv => endTime <= MaxTime
  BY TimeAssumption DEF CheckInv, TypeOK
<1>2. ASSUME CheckInv, Next PROVE EndsOnTime
  <2>0. now \in Int /\ TypeOK /\ polledAt \in Int /\ StatusTimeout \in Int
    BY <1>2, TimeAssumption, PollingAssumption DEF CheckInv, TypeOK
  <2>1. ASSUME NEW at \in {"running", "passed", "failed"}, NEW withAnswer, Returns(at, withAnswer),
               completed => at # "running", at = "passed" => completed
        PROVE  EndsOnTime
    <3>1. /\ pc = "polling" /\ now' = now /\ endTime' = endTime /\ pc' = at
      BY <2>1 DEF Returns
    <3> QED
      BY <2>0, <2>1, <3>1, LastCall DEF EndsOnTime
  <2>2. ASSUME NEW exceeds \in BOOLEAN, Observe(exceeds) PROVE EndsOnTime
    <3>1. Returns(Outcome(exceeds), TRUE)
      BY <2>2 DEF Observe
    <3>2. /\ Outcome(exceeds) \in {"running", "passed", "failed"}
          /\ completed => Outcome(exceeds) # "running"
          /\ Outcome(exceeds) = "passed" => completed
      BY <2>0, OutcomeType
    <3> QED
      BY <2>1, <3>1, <3>2
  <2>3. CASE UsageStatus \/ ReplicationStatus \/ LatencyStatus
    BY <2>2, <2>3, ExceedsType DEF UsageStatus, ReplicationStatus, LatencyStatus
  <2>4. CASE PingFails \/ CallFails
    BY <2>0, <2>1, <2>4 DEF PingFails, CallFails, TypeOK
  <2>5. CASE Prepare \/ Start
    BY <2>0, <2>5 DEF Prepare, Start, state, EndsOnTime
  <2>6. CASE StatusCalled
    <3>1. pc = "running" /\ pc' = "polling" /\ now' = now /\ endTime' = endTime
      BY <2>6 DEF StatusCalled, state
    <3>2. now >= endTime => completed'
      <4>1. completed' = (now >= endTime)
        BY <2>6 DEF StatusCalled
      <4> QED
        BY <4>1, Zenon
    <3> QED
      BY <2>0, <3>1, <3>2 DEF EndsOnTime
  <2>7. CASE Tick
    BY <2>0, <2>7 DEF Tick, Passes, CheckInTime, state, call, EndsOnTime
  <2> QED
    BY <1>2, <2>3, <2>4, <2>5, <2>6, <2>7 DEF Next, StatusReturns
<1>3. CheckInv /\ [Next]_vars => [EndsOnTime]_vars
  BY <1>2
<1> QED
  BY <1>1, <1>3, InitCheck, NextCheck, PTL DEF Spec
=============================================================================
