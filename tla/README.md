# Verification of extension-redis

TLA+ models of the chaos-engineering extension for Redis in this repository,
their TLC configurations, and proofs of the central properties.

The extension is one Go process. The agent of the platform calls it over HTTP:
for each execution of an action it calls `Prepare`, `Start`, `Status` (again and
again) and `Stop`, and it carries the action's state struct, as JSON, from one
call to the next. Handlers of different executions run concurrently. What they
share lives in three process-wide tables: the pool of Redis clients, the lock
table of the cache expiration attack, and the map of open connections of the
connection exhaustion attack. All else they do is a sequence of Redis commands,
between any two of which other handlers, the application and time get in.

## Inventory

| component | state | operations | what is hard | what makes it correct |
|---|---|---|---|---|
| cache expiration attack (`extredis/attack_cache_expiration.go`) | `CacheExpirationState`; `lockedKeys` | Prepare (scan), Start (backup, lock, EXPIRE), Status (reads), Stop (restore, unlock) | concurrent executions on overlapping patterns, keys that expire between two commands, failing commands, restart, repeated Stop | mutual exclusion by key, no trace of a refused Start, locks released, keys restored as reported |
| connection exhaustion attack (`extredis/attack_connection_exhaustion.go`) | `ConnectionExhaustionState`; `activeConnections` | Prepare, Start (open, file), Status (reads), Stop (look up, close), goroutine `keepAlive` | Stop looks its entry up by a prefix, pings race with Close, the server's limit | no connection is forgotten, closed twice or revived; the load is divided evenly |
| client pool (`clients/clients.go`, `main.go`) | `clientPool` | GetRedisClient, CloseAllClients | creation races, shutdown while handlers run | one client per key, open while used, none leaks |
| cluster helpers (`clients/clients.go`) | none | DetectClusterMode, ParseClusterNodes, GetMasterNodes, ForEachMaster, ScanAllKeys | a node fails in the middle of a loop, masters change | every master is reached or an error is told |
| maxmemory attack (`extredis/attack_maxmemory_limit.go`) | `MaxmemoryLimitState` | Prepare, Start, Status (reads), Stop | partial failure over the masters, failover, restart | a reported Start or Stop is true on every node |
| checks (`extredis/check_*.go`) | threshold latch, end time | Prepare, Start, Status | a violation long before the end, failing calls, the last answer | a violation is not forgotten and fails the check at its end; the check ends |
| client pause attack (`extredis/attack_client_pause.go`) | end time, mode | Prepare, Start (CLIENT PAUSE), Status (reads), Stop (CLIENT UNPAUSE) | attacks that overlap on a server, slow calls before the last server, partial failure, masters listed anew | a running attack has its servers paused until its end, pauses expire by themselves, stopped attacks leave nothing |
| sentinel stop attack (`extredis/attack_sentinel_stop.go`) | end time | Prepare, Start (DEBUG SLEEP), Status; no Stop | the reply of DEBUG SLEEP comes after the client's timeout, and the command is sent again | the server is awake from the attack's end on; success is reported only when true |
| discovery (`extredis/*_discovery.go`, `common.go`) | none | DiscoverTargets | an endpoint or a node that fails must not hide the others | every endpoint that answers yields all its targets and no others |
| configuration, registration (`config/config.go`, `main.go`) | read once | | | not modelled: constants of the modules |

The handlers meet in three places: every one takes its client from the pool, the
cluster variants go through the masters with `ForEachMaster`, and all meet at the
Redis servers. There attacks of one kind meet in their table or in the one pause a
server has; and a server that is paused or sleeps answers none of the other
handlers, which is what the checks are there to see.

## Modules

| module | models | EXTENDS / INSTANCE |
|---|---|---|
| `KeyMutex` | what `lockKeys` and `unlockKeys` promise: all keys or none, in one step | |
| `CacheExpiration` | the attack, the database, the application, the clock of the keys, restarts | instance of `KeyMutex` |
| `CacheExpirationProofs` | proofs | `CacheExpiration` |
| `ConnectionExhaustion` | the attack, its goroutine, the server's limit | |
| `ConnectionExhaustionProofs` | proofs | `ConnectionExhaustion` |
| `ClientRegistry` | what `GetRedisClient` promises: one atomic get-or-create | |
| `ClientPool` | `GetRedisClient`, `CloseAllClients` | instance of `ClientRegistry` |
| `ClientPoolProofs` | proofs | `ClientPool` |
| `MaxmemoryLimit` | the attack with `ForEachMaster` and `GetMasterNodes` | |
| `MaxmemoryLimitProofs` | proofs | `MaxmemoryLimit` |
| `Clock` | the seconds the handlers read with `time.Now().Unix()` | |
| `ClusterNodes` | servers, CLUSTER NODES and which lines of it count | |
| `ThresholdChecks` | the four checks | `Clock` |
| `ThresholdChecksProofs` | proofs | `ThresholdChecks` |
| `ClientPause` | the client pause attack, with `ForEachMaster` | `Clock`, `ClusterNodes` |
| `ClientPauseProofs` | proofs | `ClientPause` |
| `SentinelStop` | the sentinel stop attack against the read timeout of its client | `Clock` |
| `Discovery` | discovery of instances and databases | `ClusterNodes` |
| `KeyScan` | `ScanAllKeys` and the search for keys in Prepare of the cache expiration attack | `ClusterNodes` |
| `DiscoveryProofs` | proofs | `Discovery`, `KeyScan` |
| `Experiment` | the check, the pauses, the sleep and the two searches on the servers they share | the five modules |
| `ExperimentProofs` | proofs about the sleep and about the composition | `Experiment`, the three proof modules |
| `...MC` | the instances for TLC | the module of that name |

**CacheExpiration.** One record of variables per execution: `matchedKeys`,
`affectedKeys`, `backupData`, `totalBackupBytes` are the fields of the state the
agent carries, `pc` says between which two commands of which handler the
execution is. Start is `StartPing`, then per key `BackupGet` and `BackupTTL`, then
`LockKeys`, then `Expire` per key. Stop is `Stop` (up to the loop), then per
backup `RestoreExists` and `RestoreWrite`, then `StopReturn`; `UnlockKeys` is part
of every way out of Stop, as the deferred call is. An action stands for one Redis
command with the code up to the next one. A failing command is a disjunct of the
action: the handler sees an error, and a write may have happened all the same.
`Restart` empties the lock table and interrupts the handlers; a handler that is
interrupted or answers with an error does not hand its state to the agent. The
values of keys are model values with a size; a TTL counts whole seconds, and
`Elapse` counts it down for each key on its own, so that the keys' clocks may
drift further apart than in reality.

**ConnectionExhaustion.** A client is a pair of the execution that opened it and
a number. The key of an entry in `activeConnections` begins with the URL; its time
makes it unique, so the map is the set of executions whose entry is there, and
`Candidates` are the entries the loop in Stop may stop at. `KeepAliveTick` takes
the snapshot under the mutex and `KeepAlivePing` uses it outside. That a closed
go-redis client refuses a ping, and dials again for a dropped connection, is the
external definition `Pinged`. In a cluster the number of masters is chosen in
Start.

**ClientPool.** A caller goes through Load, create, LoadOrStore and, when it
lost, Close. `Visit`, `ClosePooled` and `Delete` are the steps of the function
given to Range. A handler uses its client until it returns.

**MaxmemoryLimit.** `ApplyToNode` and `RestoreNode` are the functions the code
gives to `ForEachMaster`; between two nodes masters may change. A call to a server
that fails, including one that had its effect, costs one of `MaxFaults`.
`ConfigGet` answers what go-redis makes of CONFIG GET: a map with one entry.

**ThresholdChecks.** One module for the four checks, since they differ only in what a
Status reads; `kind` says which one runs. A Status takes two steps: at `StatusCalled` it
looks at the clock and decides whether it is the last one (`completed`), and
`StatusReturns` is Redis's answer, or the want of one, and what the code makes of it.
Between them time passes, up to `StatusTimeout`: INFO waits three seconds for an answer
under a context of five (`clients/clients.go:129`, `:369`) and is sent again, so a
server that wakes up meanwhile answers late and the check goes on. From an answer to the
next call the agent waits up to `PollInterval`. Readings come from a set around both
thresholds. History variables (`over`, `callFailed`, `answered`) feed the properties
only.

**ClusterNodes.** An answer of CLUSTER NODES is a function from the servers that
have a line to their flags. `Skipped` is the test of the code, which looks for the
text "fail" and "noaddr" anywhere in the flags: a master that is suspected (`fail?`)
or may not fail over (`nofailover`) is left out like one that has failed.

**ClientPause.** `pause` holds one record per execution: `mode`, `endTime` and `cluster`
are what the agent carries, `listed`, `todo`, `errors` and `length` are variables of the
handler. A server has one pause for all: `PauseServer` never lowers its end or mode,
`UnpauseServer` ends it whoever asked for it. `length` is computed once in `PauseStart`;
then `PauseListed` lists the servers, which for a cluster takes up to `CallTimeout`
seconds, and each server takes as long again, so later servers are paused for longer
than the attack lasts. Servers are visited in any order. The ping and the CLIENT PAUSE
for one server are one step and their time is one call's: a server that is silenced
between the two does not answer the second, which is the failing alternative of the
step, or answers it late, which is the step at a later time. A command that waits in the
buffers of a blocked server when its client gives up is taken as not executed.
`PauseStop` lists the masters anew; it may be called for an attack that never started,
and again.

**SentinelStop.** `SleepStart` sends DEBUG SLEEP. The answer comes at `answerAt`; the
client gives up `ReadTimeout` after it began to wait, `SleepTimesOut`, and go-redis
tries again `MaxRetries` times. `SleepResend` lets the command reach the server a second
time while the first is being slept through; it is then slept after it. The product sets
a read timeout of 3 seconds (`clients/clients.go:129`) and the attack's default is 30
seconds (`attack_sentinel_stop.go:67`): at the default Start always ends in
`SleepTimesOut` and answers with an error although the server sleeps, and longer than
asked for. `ShortSleepsOnly` states what is left of "success", and
`RecoversAfterDuration` is the promise to recover after the duration, which the run
`sleep_overrun` shows to be broken.

**Discovery.** One variable for each thing the loops keep: the endpoint (`index`), the
nodes of its cluster still to ask (`unvisited`), the targets so far. `told` and
`troubled` are history, from which `Expected` says what an endpoint should yield. The
nodes of a cluster are visited in any order.

**KeyScan.** `ScanMaster` puts the cursor of a server at 0, `ScanReturns` and
`ScanEnds` are what SCAN promises: a key that is there all the time is returned, any
key of the server may be returned again. `KeyMoves` is the application, expiry, and
slots that are migrated. `TypeKey` asks the endpoint's client, so that the keys of
other masters are dropped there.

**Experiment.** Conjoins to every action of a component what the others leave of the
server: `Answers(n)` is false while `n` pauses all commands or sleeps, and then no ping,
INFO, SCAN or CLIENT command is answered. A Status that waits is answered at a moment at
which the server answers. `heardAt` is a monitor: when the server of the check would
last have answered a call. Each component says by itself that a server may answer or
not; the composition takes away choices and adds none, which is the theorem
`ComponentsImplemented`. `experiment` says which components take part.

## Runs

| run | bounds | what it shows |
|---|---|---|
| `cache_locks` | 2 executions, 2 keys, lists with one key, with a duplicate and with both, failing commands, 1 write of the application, size limit that fits some of the values only, 1 Stop each | mutual exclusion, locks held, no trace of a refused Start, backup within the limit, a reported restore is true, refinement of `KeyMutex` |
| `cache_restore` | 2 executions on disjoint keys, one with a duplicate, a key with a TTL, no failures, 2 Stops each, 1 restart, fair | what holds when patterns do not overlap: locks released, modified keys backed up, a reported restore is true, originals restored, every execution ends |
| `cache_lock_leak` | 1 execution, failing commands | **violated**: a key whose EXPIRE failed stays locked |
| `cache_no_backup` | 1 execution, failing commands | **violated**: a key without a backup is given the short TTL |
| `cache_overlap` | 2 executions on one key, no failures | **violated**: a short TTL is restored as the original |
| `connections` | 2 executions on one URL, 3 connections each, 1 or 2 masters, 2 Stops each, limit of 3 per node, 1 dropped connection, give-up after 1 failure, fair | every connection has one holder, even division, closed for good and in the end |
| `connection_prefix` | 2 executions, two URLs of one server, the first a prefix of the other | **violated**: a connection is left when both are stopped |
| `pool` | 3 callers, 2 keys, 4 clients, shutdown at any time | the pool's properties and refinement of `ClientRegistry` |
| `maxmemory` | 3 nodes, 2 faults, 1 failover, 2 Stops | a reported Start or Stop is true on every listed master |
| `maxmemory_saved` | 3 nodes, no faults | **violated**: no original is ever kept |
| `experiment` | six line-ups: two pauses that overlap on 2 servers; a pause beside the sleep; a check of each kind beside a pause, and beside the sleep; the discovery of 2 endpoints beside the sleep; a scan over 2 masters with 3 keys; 4 answers of CLUSTER NODES, 3 seconds, fair | pauses hold, expire and leave nothing; only short sleeps succeed; a check forgets no violation, fails for a reason, misses no silence and ends; targets and keys are complete |
| `sleep_overrun` | sleeps of 2 and 4 seconds, the read timeout of the product (3 seconds) and three retries, no other failure | **violated**: the server sleeps on after the end of the attack |

Why the bounds are enough: overlap and exclusion need two executions and a shared key
beside one that is not shared; a restore can be wrong after a failing command, a write
of the application, a second Stop or a restart, and each is in one of the two cache
runs; the remainder of a division needs two masters and three connections; a race for a
pool entry needs two callers, and a third to use the winner's client meanwhile; the
threshold latch needs one reading over and one under it. The real give-up limit of Start
is 5 failures; `FailLimit` is 1 in the run, so that the branch is taken with 3
connections. In `experiment` the two pauses differ in length, mode and reach, and either
may begin and end first; `CallTimeout` 1 lets a pause on the second server outlast the
attack; `PollInterval` and `StatusTimeout` 1 leave room within the three seconds for a
Status that is answered late and for a silence that is too long (the product's values
are 1 or 2 seconds, `check_memory.go:91`, `check_latency.go:83`, and 5 seconds); sleeps
of 1 and 2 seconds with a `ReadTimeout` of 1 and one retry are answered in time or not,
and slept twice; the views contain a master that is suspected, one that became a
replica, and one without a line; `MaxKeys` 2 with `MaxFound` 3 has the limit reached
before the candidates end; `MaxTime` 3 is the longest attack and one second more.
Line-ups larger than two are left to the proofs, which bound none of this.

Deadlock is not checked in any run: executions and bounds come to an end.

### What the violated runs say

The `findings` of `PROJECT.json` quote the lines of the repository each of them
contradicts. Three more limits were found while modelling and are built into the
statements instead. A latency check whose last ping fails passes, whatever it measured
before (`check_latency.go:195`), though its description says that it "fails if threshold
is exceeded" (`check_latency.go:47`); `PassedMeansBelow` excepts this case. With a
second Stop of one execution, and with a restart of the extension, `MutualExclusion`
does not hold, since the second Stop unlocks keys that by then belong to another
execution, and a restart empties the table while the agent still holds running attacks.
`cache_locks` therefore has one Stop per execution and no restart; the theorem
`LocksUntilRepeated` says that both properties hold up to the first restart or second
Stop, whatever the bounds.

### Fairness

Handlers are straight-line code with timeouts on every call, so a handler that was
called is weakly fair, and nothing else of the extension is: the order in which
executions run is left open. The agent calls Stop once for every execution that was
started; this is the protocol of the platform, and what a chaos extension relies on for
its rollback. `Fairness` of `Experiment` is the same for its components: the handlers of
a pause (its listing included) and of the sleep answer, because every call in them has a
timeout; the agent goes on calling Status until a check is over, and a Status that was
called returns; and time passes. `CheckEnds` needs the last three, also while an attack
keeps the server from answering. Nothing is assumed of the application, of Redis, or of
a `Prepare` or `Start` that has not been called. The goroutine `keepAlive` needs no
fairness.

## Proofs

Checked by TLAPS for all values of the constants.

`CacheExpirationProofs`:

- `TypeCorrect`: `Spec => []TypeOK`. The inductive invariant `TypeInv` adds what the
  loops need (the position lies within the keys; a probe holds a key that has a
  backup).
- `LocksUntilRepeated`: `Once => MutualExclusion /\ LockedWhileAttacked`, where `Once`
  is a state predicate: no restart and no second answered Stop so far. None of the
  properties is inductive alone: that the keys of another execution survive an unlock
  needs that an execution's affected keys are among its matched ones, that an execution
  which does not hold locks has affected none, and that the executions that hold locks
  are disjoint. `LockInv` is the conjunction, and it is kept by every step after which
  `Once` still holds; a step never makes `Once` true again (`OnceBefore`).
- `Exclusion`, `LocksHeld`: the same under `SingleStop`, a bound of one answered Stop
  per execution and no restart, which makes `Once` an invariant.
- `NoTrace` (`AbortLeavesNoTrace`) assumes that there is no restart: `Traces` says that
  an execution has touched keys only from its first EXPIRE on, after which Start can
  no longer fail. A restart interrupts a Start that has modified keys.
- `LockRefinement`: `Spec => KeyMutexSpec`, under `SingleStop`. LockKeys maps to
  `Acquire`, the step that answers Stop to `Release`, and every other one stutters.
- `RestoredTruthfully` (`RestoredAsReported`), without assumptions: patterns may overlap,
  commands may fail, the application may write and the extension may restart. The
  property speaks of the keys that no other execution matches (`Alone`): of the others
  the next attack, which gets the lock when the first has stopped, may well shorten the
  life. `RedisSteps` names the five things a step can do to a key, `WritesOwn` and
  `Alone` leave only the execution's own writes, and `RestoreProgress` says of each backup the loop has gone
  through that it is counted as not restored, being written, ignored, or `Good`.
  `OriginalValues` is needed for a key that came back between EXISTS and the write.
- `NoLockLeaks` (`LockedMeansAttacked`), assuming `~CommandsMayFail`, which the
  violated run `cache_lock_leak` shows to be needed: `Counted` says that EXPIRE has put
  each key it came to into `AffectedKeys`, so Stop takes back all Start locked.
- `BackedUpBeforeModified` (`ModifiedKeysBackedUp`) under `Undisturbed`: disjoint
  patterns, no failing command, no application write. The backup phase does pass over
  keys, those that expired; `Safe` says that they are gone for good.
- `OriginalsRestored` (`OriginalsAfterAttacks`) under `Undisturbed`; the property itself
  speaks of a process that has not restarted:
  `LastingKept` says that untouched lasting keys are as in the beginning and that
  their backups say so; the rest follows from the two theorems before. An execution
  that modified keys and fell to a restart has no backups any more, which is why
  restarts are excluded.
- `ExpiryLostToBackups`, without assumptions on failures, restarts, Stops or patterns: a
  key that had an expiry and lives on without one, though the application wrote
  nothing, was recreated or given PERSIST from a backup whose TTL is not positive. The
  invariant `ExpiryLost` names the execution, whose backup no later step takes back
  (`StaysStarted`). Both kinds of backup do occur: with the TTL 0 of a key that has less than
  a second left, and with -1 for a key that expires between GET and TTL.
- `BackupLimit` (`BackupWithinLimit`), without assumptions. The inductive invariant
  `AllBytesCounted` compares `totalBackupBytes` with the sum over the backups: the counter
  is never less, by the value that was counted and is not stored yet, and by keys the
  list holds twice, which are counted twice and held once. The sum is a recursive
  function on the subsets of a set. That it exists, is a natural number and grows by
  what is added (`SumExists`, `SumNat`, `SumTake`) is proved by minimal counterexample, with
  the well-founded order of the natural numbers on cardinalities, since the induction
  theorems of the library cannot be used; `HeldBytes` identifies it with the fold the
  invariant is written with.
- `HandlersEnd`: `StartLeft` and `StopLeft` bound the steps a handler still has to take.
  Every step of the handler lowers its own, no step of anything else raises it, and at
  the call they are at most `3n + 2` for `n` matched keys and two for each backup and two
  more.

`ClientPoolProofs`, without further assumptions: `PoolTypeCorrect`,
`NeverClosedUnderCaller`, `NoClientLeaks`, `OneClientPerKey` and
`AtomicGetRefinement`. The inductive invariant `PoolInv` numbers the clients in the
order of their creation and says that a client is in at most one place: under one
key or with one caller that has not stored it. From this a caller that closes its own
client closes no one else's, and a client that is registered is a new one.
`LoadHit`, a storing `LoadOrStore`, and one that loses map to the abstract step;
`Delete` maps to `Unregister`.

`ConnectionExhaustionProofs`, from the assumptions on the constants alone:
`ConnTypeCorrect`, `ExactlyOneHolder`, `AttemptsAddUp`, `EvenlySpread` (`Balanced`) and
`ClosedStaysClosed`. The inductive invariant `ConnInv` has these parts:

- `Counting`: while Start opens, the attempts made, those left on the node and
  those left for later nodes (`Rest`) are at most what was asked for, and equal to
  it until Start gives up. `Shares` is the arithmetic it rests on: the quotient and
  the remainder, spread over the first nodes, add up to the whole. With it the
  counters stay within their types.
- `Numbering`: clients beyond `successCount` do not exist yet, so Start never
  writes over a client that exists, a closed one in particular.
- `Filed`: what the map holds, and what a Stop has taken out, belongs to a Start
  that is over; no two Stops have the same client. `Held` adds that every open
  client has a holder. Together they are `OneHolder`.

`StopsCounted` keeps the counter of answered Stops within its bound. `Spread` counts
what Start has opened on each node: its share on those it has left, nothing yet on
later ones.

`AllClosedInTheEnd` (`NothingLeftAfterStop`) assumes a finite number of attacks and
`NoPrefixes`, without which the run `connection_prefix` violates it. A Stop may take
the entry of another attack, so no attack's entry is bound to its own Stop; what is
inductive is a count (`EnoughStops`): per URL there are at most as many entries as
attacks whose Stop is still to come.

`ConnHandlersEnd` has the measures of this module: `OpenLeft`, the attempts left on this
node and the later ones and the nodes left, and `CloseLeft`, the clients left to close.
`FewToClose` bounds the latter by `NumConnections`, also for a Stop that takes the
entry of another attack.

`MaxmemoryLimitProofs`: `MemTypeCorrect`, `StartReachesAll`, `StopReachesAll` and
`NoOriginalEver`. The loops of `ForEachMaster` need what holds of the nodes
already visited: `Applied` for Start, `Restored` for Stop. `NothingSaved` is proved
together with them: since CONFIG GET answers with a map of one entry, no state of
any execution ever holds an original value. `StopReachesAll` has to be read
with it: what a Stop sets everywhere is what the state holds, and that is never
an original. `OriginalsStayLost` draws the conclusion for the servers: none that lost
its limit or policy ever gets it back, and when Stop does report success it has
taken the limit away altogether, which it can only do for an attack that kept the
policy, since a policy that is not known is an error.

`ThresholdChecksProofs`: `CheckTypeCorrect`, `NothingForgotten` and
`NoEarlyFailure`. `Latched` ties the latch of the state to the history of the
readings. `ChecksEndOnTime`: a check does not pass before its end time, which is within
the clock's bound and does not move; the first Status that is called from then on is the
last, and no Status outlasts its timeout.

`ClientPauseProofs`, for any servers, executions, durations, failing and slow calls,
and restarts: `PauseTypeCorrect`, `PausesHold` (`PausedUntilEnd`), `PausesEnd`
(`PausesExpire`) and `StopLeavesNothing` (`NothingLeftPaused`).

- `HoldInv`: while Start goes through the servers, those visited without an error
  are paused at least until the attack's end, because the length was computed before
  the first was called and no pause is lowered, except by a Stop of another attack.
- `ExpireInv`: the end of any pause is at most `Late`, the end of an attack and one
  `CallTimeout` for the listing and for each server that was visited before, in a
  cluster, and one `CallTimeout` for a single server (`LastEnd`); it needs the
  cardinality of what was visited.
- `ResumeInv`: while Stop goes through the servers, one that is paused is still to
  come, had an error, was not listed, or is paused for another attack.

`DiscoveryProofs`:

- `DiscoveryTypeCorrect` and `TargetsFound` (`TargetsComplete`), for any endpoints,
  nodes and answers. `DiscoveryInv` says that the loop has all targets of the endpoints
  it is done with and none of later ones, and that the nodes visited and those still
  to visit are the expected instances of the endpoint it is at.
- `ScanTypeCorrect` and `KeysFound` (`ScanComplete`), for any keys, masters and moves.
  `ScanInv` says where a key that stays at the endpoint is: to be scanned, to be
  returned, a candidate, kept, or without an answer to TYPE (`Accounted`); that no key
  of a cluster is twice among candidates and kept keys (`Once`); and that there is room
  below the limit as long as the loop goes on (`Room`).

`ExperimentProofs`:

- `SleepTypeCorrect`, `OnlyShortSleepsSucceed`. `SleepInv` counts attempts: the `k`-th is
  sent at most `2 * ReadTimeout` after the one before, and adds one sleep to what the
  server has still to do. This bounds how long the server oversleeps (`ServersWakeUp`),
  and `RecoversUnlessSentAgain` says that it does not when the command was sent once: what
  the run `sleep_overrun` shows comes from the retries alone.
- `ComponentsImplemented`: a behaviour of the composition is one of `PauseSpec`,
  `SleepSpec`, the checks' `Init /\ [][Next]_vars`, `DiscoverySpec` and `ScanSpec`. Each
  step of one component is a step of its own specification and a stutter of the
  others, with the clock as the one step they share.
- `ComponentsKeepPromises`: hence the safety properties proved of the components
  hold of the composition.
- `DisruptionSeen` (`DisruptionFailsCheck`): a memory, connection or replication check
  does not go on over a server that has been silent for longer than `PollInterval` and
  `StatusTimeout` together, whichever attacks silence it and however late it answers. The
  invariant `Heard` says that the last answered Status found the server answering, so
  that the next one was called at most `PollInterval` after it was heard. This one is
  about the composition only: it relates the clocks of the check to those of the attacks.

Only model-checked: the four liveness properties (`StartedIsStopped`,
`LocksAreReleased`, `EventuallyClosed`, `CheckEnds`), since the step from fairness to
progress needs ENABLED, which is outside the prover's reach. What they rest on besides
is proved for all values of the constants: handlers have bounded measures that their
own steps lower and no other step raises (`HandlersEnd`, `ConnHandlersEnd`), and a check
ends with the first Status after a fixed time (`ChecksEndOnTime`). And the
assertions that are violated; for each of them but `OriginalsSaved` a theorem states the
condition under which it holds (`NoLockLeaks`, `BackedUpBeforeModified`,
`OriginalsRestored`, `AllClosedInTheEnd`, `RecoversUnlessSentAgain`), and `OriginalsSaved` never does (`NoOriginalEver`).

## Not modelled

Configuration and registration (`config/config.go`, the start of `main.go`): they run
once, before any handler, and yield the constants of the modules. Metrics, messages
and logging; `Status` of the attacks that only read; the parsing of URLs and INFO
(modelled by what it may return); pool sizes and reconnects inside go-redis, apart
from `Pinged`; the attributes of targets, except whether INFO gave them, and the
descriptions of actions; the limit on the keys of `ScanAllKeys`, whose only caller
passes 0.

Not judged: whether masters that are suspected or may not fail over should be left
out. The code does so for every operation, `Expected` takes that as given, and no line
of the repository says which was meant.

## Plan

1. Done: `CacheExpiration` with `KeyMutex`; `ConnectionExhaustion`; `ClientPool` with
   `ClientRegistry`; `MaxmemoryLimit`; `ThresholdChecks`; `ClientPause`, `SentinelStop`,
   `Discovery` and `KeyScan` with `Clock` and `ClusterNodes`; their composition in
   `Experiment`; proofs about each of them.
2. Done: proofs of every safety property of the passing runs, and of the measures
   the liveness properties rest on.
3. Left to model: the attacks on keys, on connections and on memory in one composition
   with the pauses, as `Experiment` has the others; at present each of them has calls
   that fail at any time, which covers what a paused or sleeping server does to it.
