--------------------------- MODULE CacheExpiration ---------------------------
(***************************************************************************)
(* The cache expiration attack (extredis/attack_cache_expiration.go).      *)
(*                                                                         *)
(* Several executions of the attack run against one Redis.  The agent      *)
(* calls Prepare, Start and Stop of each execution; the handlers of        *)
(* different executions run concurrently in one extension process and      *)
(* share the process-wide table lockedKeys.  Every Redis command is a step *)
(* of its own, so other executions, the application and the passing of     *)
(* time can interleave between any two commands of a handler.              *)
(*                                                                         *)
(* The fields of CacheExpirationState travel through the agent between two *)
(* calls; they survive a restart of the extension, lockedKeys does not.    *)
(* A handler that answers with an error does not hand its state back.      *)
(***************************************************************************)
EXTENDS Integers, Sequences, FiniteSetsExt

CONSTANTS
    Attacks,          \* executions of the attack
    Keys,             \* string keys of the Redis database
    Values,           \* values a key may hold
    NoValue,          \* stands for "no value"
    InitEntry,        \* what the application stored under each key
    ValueSize,        \* bytes of each value
    MatchLists,       \* per attack: the key lists Prepare's scan may return
    AttackTTL,        \* state.TTLSeconds
    MaxTTL,           \* bound on a TTL, in seconds
    MaxBackupBytes,   \* endpoint.maxBackupSizeBytes, 0 for no limit
    CommandsMayFail,  \* may a Redis command answer with an error?
    MaxStops,         \* bound: answered Stop calls per execution
    MaxRestarts,      \* bound: restarts of the extension process
    MaxAppWrites      \* bound: writes of the application

\* A missing key: GET has no value to give and TTL answers -2.
Absent == [val |-> NoValue, ttl |-> -2]

\* A present key: its value and what TTL answers, -1 for "no expiry".
Entry == [val : Values, ttl : -1 .. MaxTTL]

ASSUME AbsentAssumption == NoValue \notin Values
ASSUME TTLAssumption == /\ MaxTTL \in Nat
                        /\ AttackTTL \in 1 .. MaxTTL
ASSUME EntryAssumption == InitEntry \in [Keys -> Entry]
ASSUME SizeAssumption == /\ ValueSize \in [Values -> Nat]
                         /\ MaxBackupBytes \in Nat
ASSUME MatchAssumption == MatchLists \in [Attacks -> SUBSET Seq(Keys)]
ASSUME BoundsAssumption == /\ CommandsMayFail \in BOOLEAN
                           /\ MaxStops \in Nat
                           /\ MaxRestarts \in Nat
                           /\ MaxAppWrites \in Nat

VARIABLES
    redis,            \* the database: an entry or Absent per key
    lockedKeys,       \* the process-wide lock table
    pc,               \* where each execution is
    restoreOnStop,    \* the executions with state.RestoreOnStop
    matchedKeys,      \* state.MatchedKeys
    affectedKeys,     \* state.AffectedKeys, as a set
    backupData,       \* state.BackupData: Absent where there is no backup
    totalBackupBytes, \* state.TotalBackupBytes
    pos,              \* index of the loop over matchedKeys in Start
    value,            \* the value GET returned, until its TTL is read
    todo,             \* backups Stop has not gone through yet
    probe,            \* the key Stop is restoring and whether it existed
    notRestored,      \* backups Stop could not restore (failedCount)
    report,           \* what Stop told the agent
    stops,            \* answered Stop calls
    restarts, appWrites,
    touched,          \* history: keys an EXPIRE of the execution found present
    ignored           \* history: keys whose TTL command answered 0 in Stop

persisted == <<restoreOnStop, matchedKeys, affectedKeys, backupData, totalBackupBytes>>
startLocals == <<pos, value>>
stopLocals == <<todo, probe, notRestored, report, stops>>
environment == <<restarts, appWrites>>
history == <<touched, ignored>>
vars == <<redis, lockedKeys, pc, persisted, startLocals, stopLocals, environment, history>>

NoProbe == <<>>
NoBackups == [k \in Keys |-> Absent]
KeysOf(a) == {matchedKeys[a][i] : i \in DOMAIN matchedKeys[a]}
BackedUp(a) == {k \in Keys : backupData[a][k] # Absent}
Key(a) == matchedKeys[a][pos[a]]

\* Mutant of LastKey: the loop runs one key too far.
LastKeyOffByOne(a) == pos[a] > Len(matchedKeys[a])
LastKey(a) == pos[a] = Len(matchedKeys[a])

\* EXPIRE and PERSIST act on a key that is there; SET creates or replaces it.
WithTTL(entry, ttl) == IF entry = Absent THEN Absent ELSE [entry EXCEPT !.ttl = ttl]

\* A write command: the server carries it out; if the reply is lost the
\* handler sees an error although the write may have happened.
Written(k, entry) == [redis EXCEPT ![k] = entry]

-----------------------------------------------------------------------------
Init ==
    /\ redis = InitEntry
    /\ lockedKeys = {}
    /\ pc = [a \in Attacks |-> "new"]
    /\ restoreOnStop = {}
    /\ matchedKeys = [a \in Attacks |-> <<>>]
    /\ affectedKeys = [a \in Attacks |-> {}]
    /\ backupData = [a \in Attacks |-> NoBackups]
    /\ totalBackupBytes = [a \in Attacks |-> 0]
    /\ pos = [a \in Attacks |-> 1]
    /\ value = [a \in Attacks |-> NoValue]
    /\ todo = [a \in Attacks |-> {}]
    /\ probe = [a \in Attacks |-> NoProbe]
    /\ notRestored = [a \in Attacks |-> {}]
    /\ report = [a \in Attacks |-> "none"]
    /\ stops = [a \in Attacks |-> 0]
    /\ restarts = 0
    /\ appWrites = 0
    /\ touched = [a \in Attacks |-> {}]
    /\ ignored = [a \in Attacks |-> {}]

-----------------------------------------------------------------------------
\* Prepare: scan for the pattern, keep the string keys, cut at maxKeys.  The
\* result is some non-empty list of keys that are there; a list may hold a key
\* twice, since SCAN may return it twice.  A Prepare that fails changes nothing.
Prepare(a) ==
    /\ pc[a] = "new"
    /\ \E keys \in MatchLists[a] :
        /\ keys # <<>>
        /\ \A i \in DOMAIN keys : redis[keys[i]] # Absent
        /\ matchedKeys' = [matchedKeys EXCEPT ![a] = keys]
    /\ restoreOnStop' \in {restoreOnStop, restoreOnStop \cup {a}}
    /\ pc' = [pc EXCEPT ![a] = "prepared"]
    /\ UNCHANGED <<redis, lockedKeys, affectedKeys, backupData, totalBackupBytes,
                   startLocals, stopLocals, environment, history>>

\* Start answers with an error: the agent keeps the state Prepare gave it.
StartError(a) ==
    /\ pc' = [pc EXCEPT ![a] = "failed"]
    /\ backupData' = [backupData EXCEPT ![a] = NoBackups]
    /\ totalBackupBytes' = [totalBackupBytes EXCEPT ![a] = 0]
    /\ pos' = [pos EXCEPT ![a] = 1]
    /\ value' = [value EXCEPT ![a] = NoValue]
    /\ UNCHANGED <<lockedKeys, restoreOnStop, matchedKeys, affectedKeys>>

\* Mutant of StartPing: the test of RestoreOnStop is inverted.
StartPingInverted(a) ==
    /\ pc[a] = "prepared"
    /\ pc' = [pc EXCEPT ![a] = IF a \in restoreOnStop THEN "lock" ELSE "get"]
    /\ UNCHANGED <<redis, lockedKeys, persisted, startLocals, stopLocals, environment, history>>

\* Start: get the client and ping it.
StartPing(a) ==
    /\ pc[a] = "prepared"
    /\ \/ CommandsMayFail /\ StartError(a)
       \/ /\ pc' = [pc EXCEPT ![a] = IF a \in restoreOnStop THEN "get" ELSE "lock"]
          /\ UNCHANGED <<lockedKeys, persisted, startLocals>>
    /\ UNCHANGED <<redis, stopLocals, environment, history>>

\* Phase 1 goes on to the next key, or leaves the loop for the lock.
NextBackup(a) ==
    /\ pc' = [pc EXCEPT ![a] = IF LastKey(a) THEN "lock" ELSE "get"]
    /\ pos' = [pos EXCEPT ![a] = IF LastKey(a) THEN 1 ELSE @ + 1]
    /\ value' = [value EXCEPT ![a] = NoValue]

\* Mutant of ExceedsLimit: forgets what was accumulated before.
ExceedsLimitAlone(a, size) == MaxBackupBytes > 0 /\ size > MaxBackupBytes

ExceedsLimit(a, size) ==
    MaxBackupBytes > 0 /\ totalBackupBytes[a] + size > MaxBackupBytes

\* Phase 1, GET: an error (a missing key is one) skips the key; a value over
\* the limit aborts Start.
BackupGet(a) ==
    /\ pc[a] = "get"
    /\ LET found == redis[Key(a)]
           size  == ValueSize[found.val]
       IN \/ /\ found = Absent \/ CommandsMayFail
             /\ NextBackup(a)
             /\ UNCHANGED <<lockedKeys, persisted>>
          \/ /\ found # Absent
             /\ ExceedsLimit(a, size)
             /\ StartError(a)
          \/ /\ found # Absent
             /\ ~ExceedsLimit(a, size)
             /\ totalBackupBytes' = [totalBackupBytes EXCEPT ![a] = @ + size]
             /\ value' = [value EXCEPT ![a] = found.val]
             /\ pc' = [pc EXCEPT ![a] = "ttl"]
             /\ UNCHANGED <<lockedKeys, restoreOnStop, matchedKeys, affectedKeys, backupData, pos>>
    /\ UNCHANGED <<redis, stopLocals, environment, history>>

\* Phase 1, TTL: every negative answer, and an error, is stored as "no expiry".
StoredTTL(answer) == IF answer < 0 THEN -1 ELSE answer

BackupTTL(a) ==
    /\ pc[a] = "ttl"
    /\ \E ttl \in -1 .. MaxTTL :
        /\ ttl = StoredTTL(redis[Key(a)].ttl) \/ (CommandsMayFail /\ ttl = -1)
        /\ backupData' = [backupData EXCEPT ![a][Key(a)] = [val |-> value[a], ttl |-> ttl]]
    /\ NextBackup(a)
    /\ UNCHANGED <<redis, lockedKeys, restoreOnStop, matchedKeys, affectedKeys,
                   totalBackupBytes, stopLocals, environment, history>>

\* Mutants of LockKeys: without the check for conflicts; with a check of the
\* first key only.
LockKeysIfFree(a, checked) ==
    /\ pc[a] = "lock"
    /\ checked \cap lockedKeys = {}
    /\ lockedKeys' = lockedKeys \cup KeysOf(a)
    /\ pc' = [pc EXCEPT ![a] = "expire"]
    /\ UNCHANGED <<redis, persisted, startLocals, stopLocals, environment, history>>
LockKeysUnchecked(a) == LockKeysIfFree(a, {})
LockKeysFirstOnly(a) == LockKeysIfFree(a, {matchedKeys[a][1]})

\* lockKeys: all keys or none, under lockedKeysMutex.
LockKeys(a) ==
    /\ pc[a] = "lock"
    /\ \/ /\ KeysOf(a) \cap lockedKeys # {}
          /\ StartError(a)
       \/ /\ KeysOf(a) \cap lockedKeys = {}
          /\ lockedKeys' = lockedKeys \cup KeysOf(a)
          /\ pc' = [pc EXCEPT ![a] = "expire"]
          /\ UNCHANGED <<persisted, startLocals>>
    /\ UNCHANGED <<redis, stopLocals, environment, history>>

\* Mutant of Expire: a failed EXPIRE makes Start return an error.
ExpireOrAbort(a) ==
    /\ pc[a] = "expire"
    /\ \/ /\ redis' = Written(Key(a), WithTTL(redis[Key(a)], AttackTTL))
          /\ affectedKeys' = [affectedKeys EXCEPT ![a] = @ \cup {Key(a)}]
          /\ touched' = [touched EXCEPT ![a] = @ \cup {Key(a)}]
          /\ pc' = [pc EXCEPT ![a] = IF LastKey(a) THEN "running" ELSE "expire"]
          /\ pos' = [pos EXCEPT ![a] = IF LastKey(a) THEN 1 ELSE @ + 1]
          /\ UNCHANGED <<lockedKeys, restoreOnStop, matchedKeys, backupData, totalBackupBytes, value>>
       \/ StartError(a) /\ UNCHANGED <<redis, touched>>
    /\ UNCHANGED <<stopLocals, environment, ignored>>

\* Phase 2: EXPIRE one key.  The answer 0 for a missing key is no error.
Expire(a) ==
    /\ pc[a] = "expire"
    /\ \/ /\ redis' = Written(Key(a), WithTTL(redis[Key(a)], AttackTTL))
          /\ affectedKeys' = [affectedKeys EXCEPT ![a] = @ \cup {Key(a)}]
       \/ /\ CommandsMayFail
          /\ redis' \in {redis, Written(Key(a), WithTTL(redis[Key(a)], AttackTTL))}
          /\ UNCHANGED affectedKeys
    /\ touched' = [touched EXCEPT ![a] = IF redis[Key(a)] = Absent THEN @ ELSE @ \cup {Key(a)}]
    /\ pc' = [pc EXCEPT ![a] = IF LastKey(a) THEN "running" ELSE "expire"]
    /\ pos' = [pos EXCEPT ![a] = IF LastKey(a) THEN 1 ELSE @ + 1]
    /\ UNCHANGED <<lockedKeys, restoreOnStop, matchedKeys, backupData, totalBackupBytes,
                   value, stopLocals, environment, ignored>>

-----------------------------------------------------------------------------
\* Mutants of UnlockKeys: unlock what Prepare matched, or what was backed up.
UnlockMatchedKeys(a) == lockedKeys' = lockedKeys \ KeysOf(a)
UnlockBackedUpKeys(a) == lockedKeys' = lockedKeys \ BackedUp(a)

\* unlockKeys(state.AffectedKeys), which Stop defers.
UnlockKeys(a) == lockedKeys' = lockedKeys \ affectedKeys[a]

\* Stop returns, by whichever path.
StopAnswer(a, answer) ==
    /\ UnlockKeys(a)
    /\ report' = [report EXCEPT ![a] = answer]
    /\ stops' = [stops EXCEPT ![a] = @ + 1]
    /\ pc' = [pc EXCEPT ![a] = "stopped"]

\* The agent calls Stop: after a Start that worked or failed, without a Start,
\* or again after an earlier Stop.  Without a client nothing is restored and the
\* agent gets a warning.
Stop(a) ==
    /\ pc[a] \in {"prepared", "failed", "running", "stopped"}
    /\ stops[a] < MaxStops
    /\ \/ /\ a \notin restoreOnStop \/ BackedUp(a) = {}
          /\ StopAnswer(a, "completed")
          /\ UNCHANGED <<todo, notRestored>>
       \/ /\ a \in restoreOnStop
          /\ BackedUp(a) # {}
          /\ CommandsMayFail
          /\ StopAnswer(a, "warned")
          /\ UNCHANGED <<todo, notRestored>>
       \/ /\ a \in restoreOnStop
          /\ BackedUp(a) # {}
          /\ pc' = [pc EXCEPT ![a] = "restore"]
          /\ todo' = [todo EXCEPT ![a] = BackedUp(a)]
          /\ notRestored' = [notRestored EXCEPT ![a] = {}]
          /\ UNCHANGED <<lockedKeys, report, stops>>
    /\ UNCHANGED <<redis, persisted, startLocals, probe, environment, history>>

\* Mutant of RestoreExists: a backup is never done with.
RestoreExistsAgain(a, k) ==
    /\ pc[a] = "restore"
    /\ probe[a] = NoProbe
    /\ k \in todo[a]
    /\ probe' = [probe EXCEPT ![a] = <<k, IF redis[k] = Absent THEN "missing" ELSE "present">>]
    /\ UNCHANGED <<redis, lockedKeys, pc, persisted, startLocals, todo, notRestored,
                   report, stops, environment, history>>

\* Restore loop, EXISTS: an error skips the key.  The map is ranged over in
\* no particular order.
RestoreExists(a, k) ==
    /\ pc[a] = "restore"
    /\ probe[a] = NoProbe
    /\ k \in todo[a]
    /\ todo' = [todo EXCEPT ![a] = @ \ {k}]
    /\ \/ /\ probe' = [probe EXCEPT ![a] = <<k, IF redis[k] = Absent THEN "missing" ELSE "present">>]
          /\ UNCHANGED notRestored
       \/ /\ CommandsMayFail
          /\ notRestored' = [notRestored EXCEPT ![a] = @ \cup {k}]
          /\ UNCHANGED probe
    /\ UNCHANGED <<redis, lockedKeys, pc, persisted, startLocals, report, stops,
                   environment, history>>

\* Mutant of Restored: PERSIST forgotten.
RestoredWithoutPersist(backup, existed, entry) ==
    IF existed = "present" THEN (IF backup.ttl > 0 THEN WithTTL(entry, backup.ttl) ELSE entry) ELSE backup

\* What the command chosen for a backup makes of the key: PERSIST or EXPIRE
\* for a key that existed, nothing when its stored TTL is 0; SET for one that
\* did not, without expiry unless the stored TTL is positive.
Restored(backup, existed, entry) ==
    IF existed = "present"
    THEN IF backup.ttl = 0 THEN entry ELSE WithTTL(entry, backup.ttl)
    ELSE [backup EXCEPT !.ttl = IF @ > 0 THEN @ ELSE -1]

\* Restore loop: the write chosen from the answer EXISTS gave.
RestoreWrite(a) ==
    /\ pc[a] = "restore"
    /\ probe[a] # NoProbe
    /\ LET k       == probe[a][1]
           existed == probe[a][2]
           backup  == backupData[a][k]
           after   == Restored(backup, existed, redis[k])
       IN /\ \/ /\ redis' = Written(k, after)
                /\ ignored' = [ignored EXCEPT ![a] = IF after = Absent THEN @ \cup {k} ELSE @]
                /\ UNCHANGED notRestored
             \/ /\ CommandsMayFail
                /\ ~(existed = "present" /\ backup.ttl = 0)
                /\ redis' \in {redis, Written(k, after)}
                /\ notRestored' = [notRestored EXCEPT ![a] = @ \cup {k}]
                /\ UNCHANGED ignored
    /\ probe' = [probe EXCEPT ![a] = NoProbe]
    /\ UNCHANGED <<lockedKeys, pc, persisted, startLocals, todo, report, stops,
                   environment, touched>>

\* Mutants of StopReturn: the locks are kept; failures are not counted; the loop
\* is left early.
StopReturnKeepsLocks(a) ==
    /\ pc[a] = "restore"
    /\ probe[a] = NoProbe
    /\ todo[a] = {}
    /\ pc' = [pc EXCEPT ![a] = "stopped"]
    /\ stops' = [stops EXCEPT ![a] = @ + 1]
    /\ UNCHANGED <<redis, lockedKeys, persisted, startLocals, todo, probe, notRestored,
                   report, environment, history>>
StopReturnRestored(a) ==
    /\ pc[a] = "restore"
    /\ probe[a] = NoProbe
    /\ todo[a] = {}
    /\ StopAnswer(a, "restored")
    /\ UNCHANGED <<redis, persisted, startLocals, todo, probe, notRestored, environment, history>>

StopReturnEarly(a) ==
    /\ pc[a] = "restore"
    /\ probe[a] = NoProbe
    /\ StopAnswer(a, IF notRestored[a] = {} THEN "restored" ELSE "error")
    /\ UNCHANGED <<redis, persisted, startLocals, todo, probe, notRestored, environment, history>>

\* Stop returns: an error when a backup was not restored.
StopReturn(a) ==
    /\ pc[a] = "restore"
    /\ probe[a] = NoProbe
    /\ todo[a] = {}
    /\ StopAnswer(a, IF notRestored[a] = {} THEN "restored" ELSE "error")
    /\ UNCHANGED <<redis, persisted, startLocals, todo, probe, notRestored, environment, history>>

-----------------------------------------------------------------------------
\* Time passes for a key: its TTL runs down, and at 0 Redis drops the key.
Elapse(k) ==
    /\ redis[k].ttl >= 0
    /\ redis' = Written(k, IF redis[k].ttl = 0 THEN Absent ELSE [redis[k] EXCEPT !.ttl = @ - 1])
    /\ UNCHANGED <<lockedKeys, pc, persisted, startLocals, stopLocals, environment, history>>

\* The application SETs a key.
AppSet(k) ==
    /\ appWrites < MaxAppWrites
    /\ appWrites' = appWrites + 1
    /\ \E v \in Values : redis' = Written(k, [val |-> v, ttl |-> -1])
    /\ UNCHANGED <<lockedKeys, pc, persisted, startLocals, stopLocals, restarts, history>>

\* The extension process restarts: the lock table is lost and so is what the
\* handlers in progress had not answered yet.  An interrupted Start has failed
\* for the agent, an interrupted Stop can be called again.
InStart(a) == pc[a] \in {"get", "ttl", "lock", "expire"}

Restart ==
    /\ restarts < MaxRestarts
    /\ restarts' = restarts + 1
    /\ lockedKeys' = {}
    /\ pc' = [a \in Attacks |->
                CASE InStart(a) -> "failed"
                  [] pc[a] = "restore" -> (IF stops[a] = 0 THEN "running" ELSE "stopped")
                  [] OTHER -> pc[a]]
    /\ backupData' = [a \in Attacks |-> IF InStart(a) THEN NoBackups ELSE backupData[a]]
    /\ totalBackupBytes' = [a \in Attacks |-> IF InStart(a) THEN 0 ELSE totalBackupBytes[a]]
    /\ affectedKeys' = [a \in Attacks |-> IF InStart(a) THEN {} ELSE affectedKeys[a]]
    /\ pos' = [a \in Attacks |-> 1]
    /\ value' = [a \in Attacks |-> NoValue]
    /\ todo' = [a \in Attacks |-> {}]
    /\ probe' = [a \in Attacks |-> NoProbe]
    /\ UNCHANGED <<redis, restoreOnStop, matchedKeys, notRestored, report, stops, appWrites, history>>

-----------------------------------------------------------------------------
StartStep(a) ==
    \/ StartPing(a)
    \/ BackupGet(a)
    \/ BackupTTL(a)
    \/ LockKeys(a)
    \/ Expire(a)

StopStep(a) ==
    \/ \E k \in Keys : RestoreExists(a, k)
    \/ RestoreWrite(a)
    \/ StopReturn(a)

Next ==
    \/ \E a \in Attacks : Prepare(a) \/ StartStep(a) \/ Stop(a) \/ StopStep(a)
    \/ \E k \in Keys : Elapse(k) \/ AppSet(k)
    \/ Restart

Spec == Init /\ [][Next]_vars

\* A handler that was called runs to its end, and the agent calls Stop once
\* the duration of a started attack is over.
FairSpec ==
    /\ Spec
    /\ \A a \in Attacks : /\ WF_vars(pc[a] # "prepared" /\ StartStep(a))
                          /\ WF_vars(StopStep(a))
                          /\ WF_vars(pc[a] # "stopped" /\ Stop(a))

-----------------------------------------------------------------------------
Phases == {"new", "prepared", "get", "ttl", "lock", "expire", "running",
           "restore", "failed", "stopped"}

SharedType ==
    /\ redis \in [Keys -> Entry \cup {Absent}]
    /\ lockedKeys \subseteq Keys
    /\ restarts \in Nat
    /\ appWrites \in Nat

StateType ==
    /\ pc \in [Attacks -> Phases]
    /\ restoreOnStop \subseteq Attacks
    /\ matchedKeys \in [Attacks -> Seq(Keys)]
    /\ affectedKeys \in [Attacks -> SUBSET Keys]
    /\ backupData \in [Attacks -> [Keys -> Entry \cup {Absent}]]
    /\ totalBackupBytes \in [Attacks -> Nat]

StartType ==
    /\ pos \in [Attacks -> Nat]
    /\ value \in [Attacks -> Values \cup {NoValue}]
    /\ \A a \in Attacks : InStart(a) => pos[a] \in 1 .. Len(matchedKeys[a])
    /\ \A a \in Attacks : pc[a] = "ttl" => value[a] \in Values

StopType ==
    /\ todo \in [Attacks -> SUBSET Keys]
    /\ probe \in [Attacks -> {NoProbe} \cup (Keys \X {"present", "missing"})]
    /\ notRestored \in [Attacks -> SUBSET Keys]
    /\ report \in [Attacks -> {"none", "completed", "warned", "restored", "error"}]
    /\ stops \in [Attacks -> Nat]

HistoryType ==
    /\ touched \in [Attacks -> SUBSET Keys]
    /\ ignored \in [Attacks -> SUBSET Keys]

\* Every variable has its type; in particular the loops of Start stay within the
\* matched keys, and the TTL step has a value to back up.
TypeOK == SharedType /\ StateType /\ StartType /\ StopType /\ HistoryType

\* An execution that holds its locks: from lockKeys until Stop answers.
Attacking(a) == pc[a] \in {"expire", "running", "restore"}

\* Two executions that are at work never share a key: this is what lockedKeys
\* is kept for ("to prevent parallel attacks from overlapping").
MutualExclusion ==
    \A a, b \in Attacks :
        a # b /\ Attacking(a) /\ Attacking(b) => KeysOf(a) \cap KeysOf(b) = {}

\* While an execution is at work all its keys are in the lock table: no Stop of
\* another execution, of one whose Start was refused in particular, takes them out.
LockedWhileAttacked == \A a \in Attacks : Attacking(a) => KeysOf(a) \subseteq lockedKeys

\* A key is in the lock table only while an execution is at work on it, as the
\* error of lockKeys says ("already targeted by another running cache expiration
\* attack") and as Stop promises ("Always release locked keys").
LockedMeansAttacked ==
    \A k \in lockedKeys : \E a \in Attacks : Attacking(a) /\ k \in KeysOf(a)

\* The values an execution holds in BackupData never take more bytes than the
\* limit of the endpoint.
BackupWithinLimit ==
    MaxBackupBytes > 0 =>
        \A a \in Attacks :
            MapThenSumSet(LAMBDA k : ValueSize[backupData[a][k].val], BackedUp(a)) <= MaxBackupBytes

\* A Start that answers with an error has not modified a key, neither when the
\* size limit nor when a lock stops it ("No keys were modified").
AbortLeavesNoTrace ==
    \A a \in Attacks : pc[a] = "failed" => touched[a] = {}

\* With RestoreOnStop, Start modifies a key only after it backed it up ("either
\* back up everything successfully or abort without side effects").
ModifiedKeysBackedUp ==
    \A a \in Attacks : a \in restoreOnStop /\ Attacking(a) => touched[a] \subseteq BackedUp(a)

\* No other execution matches the key.
Alone(a, k) == \A b \in Attacks \ {a} : k \notin KeysOf(b)

\* A Stop that reports every backup restored has left each key that had no
\* expiry when it was backed up present and without expiry, with the value of
\* the backup unless the application wrote; the only keys it may have missed are
\* those whose PERSIST answered 0, an answer the code does not look at, and those
\* another execution matches too.
RestoredAsReported ==
    \A a \in Attacks : report[a] = "restored" =>
        \A k \in BackedUp(a) \ ignored[a] :
            Alone(a, k) /\ backupData[a][k].ttl = -1 =>
                /\ redis[k].ttl = -1
                /\ appWrites = 0 => redis[k].val = backupData[a][k].val

\* Once all executions are over, none with an error and none by way of an
\* ignored PERSIST answer, every one that touched a key was to restore it, and
\* the extension has not restarted in between, the keys without expiry are as
\* they were before the first one.
OriginalsAfterAttacks ==
    /\ restarts = 0
    /\ \A a \in Attacks : pc[a] \in {"new", "failed", "stopped"}
    /\ \A a \in Attacks : a \in restoreOnStop \/ touched[a] = {}
    /\ \A a \in Attacks : report[a] \notin {"error", "warned"} /\ ignored[a] = {}
    => \A k \in Keys : InitEntry[k].ttl = -1 => redis[k] = InitEntry[k]

\* Every execution that was started ends: Start answers, and Stop answers after it.
StartedIsStopped ==
    \A a \in Attacks : InStart(a) ~> pc[a] = "stopped"

\* A locked key becomes free again.
LocksAreReleased ==
    \A k \in Keys : k \in lockedKeys ~> k \notin lockedKeys

\* What the lock table promises: the executions at work are an instance of the
\* abstract lock on sets of keys.
KeyMutex == INSTANCE KeyMutex WITH
    Clients <- Attacks,
    holding <- [a \in Attacks |-> IF Attacking(a) THEN KeysOf(a) ELSE {}]
KeyMutexSpec == KeyMutex!Spec
=============================================================================
