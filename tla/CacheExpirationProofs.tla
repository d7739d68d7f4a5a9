----------------------- MODULE CacheExpirationProofs -----------------------
(***************************************************************************)
(* Proofs about the cache expiration attack, for any number of executions, *)
(* keys and values, any scan results and any bounds.                       *)
(***************************************************************************)
EXTENDS CacheExpiration, FiniteSetTheorems, WellFoundedInduction, TLAPS

\* TypeOK with what it takes to be inductive: Start begins at the first of at
\* least one key, and Stop goes through keys it has a backup of.
Ready ==
    \A a \in Attacks :
        /\ pc[a] \in {"new", "prepared"} => pos[a] = 1
        /\ pc[a] = "prepared" => matchedKeys[a] # <<>>

Restoring ==
    \A a \in Attacks :
        /\ pc[a] = "restore" => todo[a] \subseteq BackedUp(a)
        /\ probe[a] # NoProbe => pc[a] = "restore" /\ probe[a][1] \in BackedUp(a)

TypeInv == TypeOK /\ Ready /\ Restoring

\* An entry is never mistaken for a missing key.
LEMMA EntryNotAbsent == \A e \in Entry : e # Absent
BY AbsentAssumption DEF Entry, Absent

\* EXPIRE and PERSIST leave an entry or a missing key, for a TTL Redis may have.
LEMMA WithTTLType ==
    ASSUME NEW e \in Entry \cup {Absent}, NEW ttl \in -1 .. MaxTTL
    PROVE  WithTTL(e, ttl) \in Entry \cup {Absent}
BY DEF WithTTL, Entry

\* What Stop writes for a backup is an entry, or a missing key it left missing.
LEMMA RestoredType ==
    ASSUME NEW backup \in Entry, NEW existed \in {"present", "missing"}, NEW e \in Entry \cup {Absent}
    PROVE  Restored(backup, existed, e) \in Entry \cup {Absent}
BY WithTTLType, TTLAssumption DEF Restored, Entry

\* The key of the current iteration is a key of the database.
LEMMA KeyType ==
    ASSUME TypeOK, NEW a \in Attacks, InStart(a)
    PROVE  Key(a) \in Keys
BY DEF TypeOK, StateType, StartType, Key

LEMMA InitType == Init => TypeInv
BY EntryAssumption DEF Init, TypeInv, TypeOK, SharedType, StateType, StartType, StopType, HistoryType, Ready, Restoring, InStart, Phases, NoProbe, NoBackups, BackedUp
\* A Start that fails keeps TypeInv, wherever it fails.
LEMMA StartErrorType ==
    ASSUME TypeInv, NEW a \in Attacks, pc[a] # "restore", StartError(a),
           UNCHANGED <<redis, stopLocals, environment, history>>
    PROVE  TypeInv'
<1> USE DEF TypeInv, TypeOK
<1>1. SharedType' /\ StopType' /\ HistoryType'
  BY DEF SharedType, StopType, HistoryType, StartError, stopLocals, environment, history
<1>2. StateType'
  <2>1. backupData' \in [Attacks -> [Keys -> Entry \cup {Absent}]]
    BY DEF StateType, StartError, NoBackups
  <2>2. totalBackupBytes' \in [Attacks -> Nat]
    BY DEF StateType, StartError
  <2>3. pc' \in [Attacks -> Phases]
    BY DEF StateType, StartError, Phases
  <2> QED
    BY <2>1, <2>2, <2>3 DEF StateType, StartError
<1>3. StartType'
  <2>1. pos' \in [Attacks -> Nat] /\ value' \in [Attacks -> Values \cup {NoValue}]
    BY DEF StartType, StartError
  <2>2. \A b \in Attacks : InStart(b)' => pos'[b] \in 1 .. Len(matchedKeys'[b])
    BY DEF StateType, StartType, StartError, InStart
  <2>3. \A b \in Attacks : pc'[b] = "ttl" => value'[b] \in Values
    BY DEF StateType, StartType, StartError
  <2> QED
    BY <2>1, <2>2, <2>3 DEF StartType
<1>4. Ready'
  BY DEF Ready, StateType, StartType, StartError
<1>5. Restoring'
  BY DEF Restoring, BackedUp, StateType, StopType, StartError, stopLocals
<1> QED
  BY <1>1, <1>2, <1>3, <1>4, <1>5

\* Every step of the attacks, of time, of the application and of a restart keeps
\* TypeInv.
LEMMA NextType == TypeInv /\ [Next]_vars => TypeInv'
<1> SUFFICES ASSUME TypeInv, [Next]_vars PROVE TypeInv'
  OBVIOUS
<1> USE DEF TypeInv, TypeOK
<1>1. ASSUME NEW a \in Attacks, Prepare(a) PROVE TypeInv'
  <2>1. SharedType' /\ StopType' /\ HistoryType'
    BY <1>1 DEF Prepare, SharedType, StopType, HistoryType, stopLocals, environment, history
  <2>2. PICK keys \in MatchLists[a] : keys # <<>> /\ matchedKeys' = [matchedKeys EXCEPT ![a] = keys]
    BY <1>1 DEF Prepare
  <2>3. matchedKeys' \in [Attacks -> Seq(Keys)]
    BY <2>2, MatchAssumption DEF StateType
  <2>4. StateType'
    BY <1>1, <2>3 DEF Prepare, StateType, Phases
  <2>5. StartType' /\ Ready'
    BY <1>1, <2>2 DEF Prepare, StartType, StateType, Ready, InStart, startLocals
  <2>6. Restoring'
    BY <1>1 DEF Prepare, Restoring, BackedUp, StateType, StopType, stopLocals
  <2> QED
    BY <2>1, <2>4, <2>5, <2>6
<1>2. ASSUME NEW a \in Attacks, StartPing(a) PROVE TypeInv'
  <2>1. CASE StartError(a)
    BY <1>2, <2>1, StartErrorType DEF StartPing
  <2>2. CASE pc' = [pc EXCEPT ![a] = IF a \in restoreOnStop THEN "get" ELSE "lock"]
              /\ UNCHANGED <<lockedKeys, persisted, startLocals>>
    <3>1. SharedType' /\ StopType' /\ HistoryType'
      BY <1>2, <2>2 DEF StartPing, SharedType, StopType, HistoryType, stopLocals, environment, history
    <3>2. StateType'
      BY <2>2 DEF StateType, Phases, persisted
    <3>3. matchedKeys[a] # <<>> => 1 \in 1 .. Len(matchedKeys[a])
      BY DEF StateType
    <3>4. StartType' /\ Ready'
      BY <1>2, <2>2, <3>3 DEF StartPing, StartType, StateType, Ready, InStart, persisted, startLocals
    <3>5. Restoring'
      BY <1>2, <2>2 DEF StartPing, Restoring, BackedUp, StateType, StopType, persisted, stopLocals
    <3> QED
      BY <3>1, <3>2, <3>4, <3>5
  <2> QED
    BY <1>2, <2>1, <2>2 DEF StartPing
<1>3. ASSUME NEW a \in Attacks, BackupGet(a) PROVE TypeInv'
  <2>1. CASE StartError(a)
    BY <1>3, <2>1, StartErrorType DEF BackupGet
  <2>2. CASE NextBackup(a) /\ UNCHANGED <<lockedKeys, persisted>>
    <3>1. SharedType' /\ StopType' /\ HistoryType'
      BY <1>3, <2>2 DEF BackupGet, SharedType, StopType, HistoryType, stopLocals, environment, history
    <3>2. StateType'
      BY <2>2 DEF NextBackup, StateType, Phases, persisted
    <3>3. StartType' /\ Ready'
      BY <1>3, <2>2 DEF BackupGet, NextBackup, LastKey, StartType, StateType, Ready, InStart, persisted
    <3>4. Restoring'
      BY <1>3, <2>2 DEF BackupGet, NextBackup, Restoring, BackedUp, StateType, StopType, persisted, stopLocals
    <3> QED
      BY <3>1, <3>2, <3>3, <3>4
  <2>3. CASE /\ redis[Key(a)] # Absent
             /\ totalBackupBytes' = [totalBackupBytes EXCEPT ![a] = @ + ValueSize[redis[Key(a)].val]]
             /\ value' = [value EXCEPT ![a] = redis[Key(a)].val]
             /\ pc' = [pc EXCEPT ![a] = "ttl"]
             /\ UNCHANGED <<lockedKeys, restoreOnStop, matchedKeys, affectedKeys, backupData, pos>>
    <3>1. SharedType' /\ StopType' /\ HistoryType'
      BY <1>3, <2>3 DEF BackupGet, SharedType, StopType, HistoryType, stopLocals, environment, history
    <3>2. Key(a) \in Keys
      BY <1>3, KeyType DEF BackupGet, InStart
    <3>3. redis[Key(a)].val \in Values
      BY <2>3, <3>2 DEF SharedType, Entry
    <3>4. totalBackupBytes[a] + ValueSize[redis[Key(a)].val] \in Nat
      BY <3>3, SizeAssumption DEF StateType
    <3>5. totalBackupBytes' \in [Attacks -> Nat]
      BY <2>3, <3>4 DEF StateType
    <3>6. StateType'
      BY <2>3, <3>5 DEF StateType, Phases
    <3>7. value' \in [Attacks -> Values \cup {NoValue}] /\ value'[a] \in Values
      BY <2>3, <3>3 DEF StartType
    <3>8. \A b \in Attacks : pc'[b] = "ttl" => value'[b] \in Values
      BY <2>3, <3>7 DEF StartType, StateType
    <3>9. \A b \in Attacks : InStart(b)' => InStart(b)
      BY <1>3, <2>3 DEF BackupGet, InStart, StateType
    <3>10. StartType' /\ Ready'
      BY <2>3, <3>7, <3>8, <3>9 DEF StartType, StateType, Ready
    <3>11. Restoring'
      BY <1>3, <2>3 DEF BackupGet, Restoring, BackedUp, StateType, StopType, stopLocals
    <3> QED
      BY <3>1, <3>6, <3>10, <3>11
  <2> QED
    BY <1>3, <2>1, <2>2, <2>3 DEF BackupGet
<1>4. ASSUME NEW a \in Attacks, BackupTTL(a) PROVE TypeInv'
  <2>1. SharedType' /\ StopType' /\ HistoryType'
    BY <1>4 DEF BackupTTL, SharedType, StopType, HistoryType, stopLocals, environment, history
  <2>2. Key(a) \in Keys
    BY <1>4, KeyType DEF BackupTTL, InStart
  <2>3. PICK ttl \in -1 .. MaxTTL :
             backupData' = [backupData EXCEPT ![a][Key(a)] = [val |-> value[a], ttl |-> ttl]]
    BY <1>4 DEF BackupTTL
  <2>4. [val |-> value[a], ttl |-> ttl] \in Entry
    BY <1>4 DEF BackupTTL, StartType, Entry
  <2>5. backupData' \in [Attacks -> [Keys -> Entry \cup {Absent}]]
    BY <2>2, <2>3, <2>4 DEF StateType
  <2>6. StateType'
    BY <1>4, <2>5 DEF BackupTTL, NextBackup, StateType, Phases
  <2>7. StartType' /\ Ready'
    BY <1>4 DEF BackupTTL, NextBackup, LastKey, StartType, StateType, Ready, InStart
  <2>8. Restoring'
    BY <1>4, <2>3 DEF BackupTTL, NextBackup, Restoring, BackedUp, StateType, StopType, stopLocals
  <2> QED
    BY <2>1, <2>6, <2>7, <2>8
<1>5. ASSUME NEW a \in Attacks, LockKeys(a) PROVE TypeInv'
  <2>1. CASE StartError(a)
    BY <1>5, <2>1, StartErrorType DEF LockKeys
  <2>2. CASE /\ lockedKeys' = lockedKeys \cup KeysOf(a)
             /\ pc' = [pc EXCEPT ![a] = "expire"]
             /\ UNCHANGED <<persisted, startLocals>>
    <3>1. KeysOf(a) \subseteq Keys
      BY DEF KeysOf, StateType
    <3>2. SharedType' /\ StopType' /\ HistoryType'
      BY <1>5, <2>2, <3>1 DEF LockKeys, SharedType, StopType, HistoryType, stopLocals, environment, history
    <3>3. StateType'
      BY <2>2 DEF StateType, Phases, persisted
    <3>4. StartType' /\ Ready'
      BY <1>5, <2>2 DEF LockKeys, StartType, StateType, Ready, InStart, persisted, startLocals
    <3>5. Restoring'
      BY <1>5, <2>2 DEF LockKeys, Restoring, BackedUp, StateType, StopType, persisted, stopLocals
    <3> QED
      BY <3>2, <3>3, <3>4, <3>5
  <2> QED
    BY <1>5, <2>1, <2>2 DEF LockKeys
<1>6. ASSUME NEW a \in Attacks, Expire(a) PROVE TypeInv'
  <2>1. Key(a) \in Keys
    BY <1>6, KeyType DEF Expire, InStart
  <2>2. WithTTL(redis[Key(a)], AttackTTL) \in Entry \cup {Absent}
    BY <2>1, WithTTLType, TTLAssumption DEF SharedType
  <2>3. redis' \in {redis, Written(Key(a), WithTTL(redis[Key(a)], AttackTTL))}
    BY <1>6 DEF Expire
  <2>4. redis' \in [Keys -> Entry \cup {Absent}]
    BY <2>1, <2>2, <2>3 DEF SharedType, Written
  <2>5. SharedType' /\ StopType'
    BY <1>6, <2>4 DEF Expire, SharedType, StopType, stopLocals, environment
  <2>6. affectedKeys' \in {affectedKeys, [affectedKeys EXCEPT ![a] = @ \cup {Key(a)}]}
    BY <1>6 DEF Expire
  <2>7. affectedKeys' \in [Attacks -> SUBSET Keys]
    BY <2>1, <2>6 DEF StateType
  <2>8. StateType'
    BY <1>6, <2>7 DEF Expire, StateType, Phases
  <2>9. HistoryType'
    BY <1>6, <2>1 DEF Expire, HistoryType
  <2>10. StartType' /\ Ready'
    BY <1>6 DEF Expire, LastKey, StartType, StateType, Ready, InStart
  <2>11. Restoring'
    BY <1>6 DEF Expire, Restoring, BackedUp, StateType, StopType, stopLocals
  <2> QED
    BY <2>5, <2>8, <2>9, <2>10, <2>11
<1>7. ASSUME NEW a \in Attacks, Stop(a) PROVE TypeInv'
  <2>1. SharedType' /\ HistoryType'
    BY <1>7 DEF Stop, StopAnswer, UnlockKeys, SharedType, HistoryType, environment, history
  <2>2. StateType'
    BY <1>7 DEF Stop, StopAnswer, StateType, Phases, persisted
  <2>3. StartType' /\ Ready'
    BY <1>7 DEF Stop, StopAnswer, StartType, StateType, Ready, InStart, persisted, startLocals
  <2>4. todo' \in [Attacks -> SUBSET Keys] /\ notRestored' \in [Attacks -> SUBSET Keys]
    BY <1>7 DEF Stop, StopType, BackedUp
  <2>5. report' \in [Attacks -> {"none", "completed", "warned", "restored", "error"}]
        /\ stops' \in [Attacks -> Nat]
    BY <1>7 DEF Stop, StopAnswer, StopType
  <2>6. StopType'
    BY <1>7, <2>4, <2>5 DEF Stop, StopType
  <2>7. Restoring'
    BY <1>7 DEF Stop, StopAnswer, Restoring, BackedUp, StateType, StopType, persisted
  <2> QED
    BY <2>1, <2>2, <2>3, <2>6, <2>7
<1>8. ASSUME NEW a \in Attacks, NEW k \in Keys, RestoreExists(a, k) PROVE TypeInv'
  <2>1. SharedType' /\ StateType' /\ HistoryType' /\ StartType' /\ Ready'
    BY <1>8 DEF RestoreExists, SharedType, StateType, HistoryType, StartType, Ready, InStart,
                persisted, startLocals, environment, history
  <2>2. probe' \in {probe, [probe EXCEPT ![a] = <<k, "missing">>], [probe EXCEPT ![a] = <<k, "present">>]}
    BY <1>8 DEF RestoreExists
  <2>3. notRestored' \in {notRestored, [notRestored EXCEPT ![a] = @ \cup {k}]}
    BY <1>8 DEF RestoreExists
  <2>4. todo' = [todo EXCEPT ![a] = @ \ {k}]
    BY <1>8 DEF RestoreExists
  <2>5. probe' \in [Attacks -> {NoProbe} \cup (Keys \X {"present", "missing"})]
    BY <2>2 DEF StopType
  <2>6. notRestored' \in [Attacks -> SUBSET Keys] /\ todo' \in [Attacks -> SUBSET Keys]
    BY <2>3, <2>4 DEF StopType
  <2>7. StopType'
    BY <1>8, <2>5, <2>6 DEF RestoreExists, StopType
  <2>8. Restoring'
    BY <1>8, <2>2, <2>4 DEF RestoreExists, Restoring, BackedUp, StateType, StopType, persisted
  <2> QED
    BY <2>1, <2>7, <2>8
<1>9. ASSUME NEW a \in Attacks, RestoreWrite(a) PROVE TypeInv'
  <2> DEFINE k == probe[a][1]
             after == Restored(backupData[a][k], probe[a][2], redis[k])
  <2>1. k \in Keys /\ probe[a][2] \in {"present", "missing"}
    BY <1>9 DEF RestoreWrite, StopType
  <2>2. backupData[a][k] \in Entry
    BY <1>9, <2>1 DEF RestoreWrite, Restoring, BackedUp, StateType
  <2>3. after \in Entry \cup {Absent}
    BY <2>1, <2>2, RestoredType DEF SharedType
  <2>4. redis' \in {redis, Written(k, after)}
    BY <1>9 DEF RestoreWrite
  <2> HIDE DEF k, after
  <2>5. redis' \in [Keys -> Entry \cup {Absent}]
    BY <2>1, <2>3, <2>4 DEF SharedType, Written
  <2>6. SharedType'
    BY <1>9, <2>5 DEF RestoreWrite, SharedType, environment
  <2>7. StateType' /\ StartType' /\ Ready'
    BY <1>9 DEF RestoreWrite, StateType, StartType, Ready, InStart, persisted, startLocals
  <2>8. ignored' \in {ignored, [ignored EXCEPT ![a] = @ \cup {k}]}
        /\ notRestored' \in {notRestored, [notRestored EXCEPT ![a] = @ \cup {k}]}
    BY <1>9 DEF RestoreWrite, HistoryType, StopType, k
  <2>9. ignored' \in [Attacks -> SUBSET Keys] /\ notRestored' \in [Attacks -> SUBSET Keys]
    BY <2>1, <2>8 DEF HistoryType, StopType
  <2>10. StopType' /\ HistoryType'
    BY <1>9, <2>9 DEF RestoreWrite, StopType, HistoryType
  <2>11. Restoring'
    BY <1>9 DEF RestoreWrite, Restoring, BackedUp, StateType, StopType, persisted
  <2> QED
    BY <2>6, <2>7, <2>10, <2>11
<1>10. ASSUME NEW a \in Attacks, StopReturn(a) PROVE TypeInv'
  <2>1. SharedType' /\ HistoryType' /\ StopType'
    BY <1>10 DEF StopReturn, StopAnswer, UnlockKeys, SharedType, HistoryType, StopType, environment, history
  <2>2. StateType' /\ StartType' /\ Ready'
    BY <1>10 DEF StopReturn, StopAnswer, StateType, StartType, Ready, InStart, Phases, persisted, startLocals
  <2>3. Restoring'
    BY <1>10 DEF StopReturn, StopAnswer, Restoring, BackedUp, StateType, StopType, persisted
  <2> QED
    BY <2>1, <2>2, <2>3
<1>11. ASSUME NEW k \in Keys, redis' \in [Keys -> Entry \cup {Absent}], appWrites' \in Nat,
              UNCHANGED <<lockedKeys, pc, persisted, startLocals, stopLocals, restarts, history>>
       PROVE TypeInv'
  BY <1>11 DEF SharedType, StateType, StartType, StopType, HistoryType, Ready, Restoring, InStart,
               BackedUp, persisted, startLocals, stopLocals, history
<1>12. ASSUME NEW k \in Keys, Elapse(k) PROVE TypeInv'
  <2>1. redis[k] # Absent => [redis[k] EXCEPT !.ttl = redis[k].ttl - 1] \in Entry \/ redis[k].ttl <= 0
    BY TTLAssumption DEF SharedType, Entry
  <2>2. redis[k].ttl >= 0 => redis[k] # Absent
    BY DEF Absent
  <2>3. redis' \in [Keys -> Entry \cup {Absent}]
    BY <1>12, <2>1, <2>2, TTLAssumption DEF Elapse, Written, SharedType, Entry
  <2> QED
    BY <1>11, <1>12, <2>3 DEF Elapse, SharedType, environment
<1>13. ASSUME NEW k \in Keys, AppSet(k) PROVE TypeInv'
  <2>1. redis' \in [Keys -> Entry \cup {Absent}]
    BY <1>13, TTLAssumption DEF AppSet, Written, SharedType, Entry
  <2> QED
    BY <1>11, <1>13, <2>1 DEF AppSet, SharedType
<1>14. CASE Restart
  <2>1. SharedType' /\ HistoryType' /\ StopType'
    BY <1>14 DEF Restart, SharedType, HistoryType, StopType, history
  <2>2. StateType'
    BY <1>14 DEF Restart, StateType, NoBackups, Phases, InStart
  <2>3. StartType' /\ Ready'
    BY <1>14 DEF Restart, StartType, StateType, Ready, InStart
  <2>4. Restoring'
    BY <1>14 DEF Restart, Restoring
  <2> QED
    BY <2>1, <2>2, <2>3, <2>4
<1>15. CASE UNCHANGED vars
  BY <1>15 DEF vars, SharedType, StateType, StartType, StopType, HistoryType, Ready, Restoring, InStart,
               BackedUp, persisted, startLocals, stopLocals, environment, history
<1> QED
  BY <1>1, <1>2, <1>3, <1>4, <1>5, <1>6, <1>7, <1>8, <1>9, <1>10, <1>12, <1>13, <1>14, <1>15
  DEF Next, StartStep, StopStep

\* TypeOK holds in every reachable state.
THEOREM TypeCorrect == Spec => []TypeOK
<1>1. TypeInv => TypeOK
  BY DEF TypeInv
<1> QED
  BY <1>1, InitType, NextType, PTL DEF Spec

-----------------------------------------------------------------------------
\* So far the agent has called Stop at most once per execution, and the extension has not
\* restarted: what holds until then needs no assumption on the bounds.
Once ==
    /\ restarts = 0
    /\ \A a \in Attacks : stops[a] + (IF pc[a] = "restore" THEN 1 ELSE 0) <= 1

\* The agent never gets an answer to a second Stop of an execution, and the extension never
\* restarts.
SingleStop == MaxStops <= 1 /\ MaxRestarts = 0

BeforeLock == {"new", "prepared", "get", "ttl", "lock", "failed"}

\* What an execution may unlock is what it matched, and nothing before it has
\* the locks; it has no backup to restore until then outside of Start itself;
\* and one that has stopped has used up its Stop.
Progress ==
    \A a \in Attacks :
        /\ affectedKeys[a] \subseteq KeysOf(a)
        /\ pc[a] \in BeforeLock => affectedKeys[a] = {} /\ touched[a] = {}
        /\ pc[a] \in {"new", "prepared", "failed"} => BackedUp(a) = {}
        /\ pc[a] = "stopped" => stops[a] >= 1

LockInv == Progress /\ LockedWhileAttacked /\ MutualExclusion

LEMMA InitLock == Init => LockInv
BY DEF Init, LockInv, Progress, LockedWhileAttacked, MutualExclusion, Attacking, BackedUp, NoBackups

\* A step that takes no execution to work, no key out of the lock table and
\* leaves the matched keys of those at work keeps the locks in order.
LEMMA LocksKept ==
    ASSUME LockInv, lockedKeys \subseteq lockedKeys',
           \A a \in Attacks : Attacking(a)' => Attacking(a) /\ matchedKeys'[a] = matchedKeys[a]
    PROVE  LockedWhileAttacked' /\ MutualExclusion'
BY DEF LockInv, LockedWhileAttacked, MutualExclusion, KeysOf

\* A Stop that answers takes only its own keys out of the lock table.
LEMMA LocksReleased ==
    ASSUME TypeInv, LockInv, NEW a \in Attacks, NEW answer, StopAnswer(a, answer),
           matchedKeys' = matchedKeys, pc[a] \in BeforeLock \/ Attacking(a)
    PROVE  LockedWhileAttacked' /\ MutualExclusion'
<1>1. \A b \in Attacks : Attacking(b)' => b # a /\ Attacking(b)
  BY DEF StopAnswer, Attacking, TypeInv, TypeOK, StateType
<1>2. \A b \in Attacks : KeysOf(b)' = KeysOf(b)
  BY DEF KeysOf
<1>3. \A b \in Attacks : b # a /\ Attacking(b) => KeysOf(b) \cap affectedKeys[a] = {}
  BY DEF LockInv, Progress, MutualExclusion, Attacking
<1>4. LockedWhileAttacked'
  BY <1>1, <1>2, <1>3 DEF LockInv, LockedWhileAttacked, StopAnswer, UnlockKeys
<1>5. MutualExclusion'
  BY <1>1, <1>2 DEF LockInv, MutualExclusion
<1> QED
  BY <1>4, <1>5

\* What was done more than once stays so.
LEMMA OnceBefore == TypeInv /\ [Next]_vars /\ Once' => Once
<1> SUFFICES ASSUME TypeInv, [Next]_vars, Once' PROVE Once
  OBVIOUS
<1> USE DEF TypeInv, TypeOK, StateType, StopType, SharedType
<1>1. ASSUME UNCHANGED <<stops, restarts>>, \A b \in Attacks : pc[b] = "restore" => pc'[b] = "restore"
      PROVE  Once
  BY <1>1 DEF Once
<1>2. ASSUME NEW a \in Attacks, NEW answer, StopAnswer(a, answer), restarts' = restarts PROVE Once
  <2>1. stops[a] + 1 <= 1 /\ \A b \in Attacks \ {a} : stops'[b] = stops[b] /\ pc'[b] = pc[b]
    BY <1>2 DEF Once, StopAnswer
  <2>2. \A b \in Attacks : stops[b] + (IF pc[b] = "restore" THEN 1 ELSE 0) <= 1
    <3> TAKE b \in Attacks
    <3>1. stops[b] \in Nat /\ stops'[b] + (IF pc'[b] = "restore" THEN 1 ELSE 0) <= 1
      BY DEF Once
    <3> QED
      BY <2>1, <3>1
  <2> QED
    BY <1>2, <2>2 DEF Once
<1>3. ASSUME NEW a \in Attacks, NEW q, pc' = [pc EXCEPT ![a] = q], pc[a] # "restore",
             UNCHANGED <<stops, restarts>>
      PROVE  Once
  BY <1>1, <1>3
<1>4. ASSUME NEW a \in Attacks, Prepare(a) PROVE Once
  BY <1>3, <1>4 DEF Prepare, stopLocals, environment
<1>5. ASSUME NEW a \in Attacks, StartStep(a) PROVE Once
  BY <1>3, <1>5 DEF StartStep, StartPing, BackupGet, BackupTTL, LockKeys, Expire, StartError, NextBackup,
                    stopLocals, environment
<1>6. ASSUME NEW a \in Attacks, Stop(a) PROVE Once
  BY <1>2, <1>3, <1>6 DEF Stop, environment
<1>7. ASSUME NEW a \in Attacks, StopStep(a) PROVE Once
  <2>1. ASSUME NEW k \in Keys, RestoreExists(a, k) PROVE Once
    BY <1>1, <2>1 DEF RestoreExists, environment
  <2>2. ASSUME RestoreWrite(a) PROVE Once
    BY <1>1, <2>2 DEF RestoreWrite, environment
  <2>3. ASSUME StopReturn(a) PROVE Once
    BY <1>2, <2>3 DEF StopReturn, environment
  <2> QED
    BY <1>7, <2>1, <2>2, <2>3 DEF StopStep
<1>8. ASSUME NEW k \in Keys, Elapse(k) \/ AppSet(k) PROVE Once
  BY <1>1, <1>8 DEF Elapse, AppSet, stopLocals, environment
<1>9. ~Restart
  BY DEF Restart, Once
<1>10. CASE UNCHANGED vars
  BY <1>1, <1>10 DEF vars, stopLocals, environment
<1> QED
  BY <1>4, <1>5, <1>6, <1>7, <1>8, <1>9, <1>10 DEF Next

\* Every step keeps LockInv, up to a second Stop or a restart.
LEMMA NextLock == TypeInv /\ LockInv /\ [Next]_vars /\ Once' => LockInv'
<1> SUFFICES ASSUME TypeInv, LockInv, [Next]_vars, Once' PROVE LockInv'
  OBVIOUS
<1> USE DEF TypeInv, TypeOK
<1>1. ASSUME NEW a \in Attacks, Prepare(a) PROVE LockInv'
  <2>1. LockedWhileAttacked' /\ MutualExclusion'
    BY <1>1, LocksKept DEF Prepare, Attacking, StateType
  <2>2. Progress'
    BY <1>1 DEF Prepare, LockInv, Progress, BeforeLock, KeysOf, BackedUp, StateType, history, stopLocals
  <2> QED
    BY <2>1, <2>2 DEF LockInv
<1>2. ASSUME NEW a \in Attacks, StartError(a), pc[a] \in BeforeLock, UNCHANGED <<stopLocals, history>>
      PROVE LockInv'
  <2>1. LockedWhileAttacked' /\ MutualExclusion'
    BY <1>2, LocksKept DEF StartError, Attacking, StateType
  <2>2. Progress'
    BY <1>2 DEF StartError, LockInv, Progress, BeforeLock, KeysOf, BackedUp, NoBackups, StateType, history, stopLocals
  <2> QED
    BY <2>1, <2>2 DEF LockInv
<1>3. ASSUME NEW a \in Attacks, pc[a] \in BeforeLock, pc' \in {[pc EXCEPT ![a] = q] : q \in {"get", "ttl", "lock"}},
             UNCHANGED <<lockedKeys, matchedKeys, affectedKeys, stopLocals, history>>,
             \A b \in Attacks \ {a} : backupData'[b] = backupData[b]
      PROVE LockInv'
  <2>1. LockedWhileAttacked' /\ MutualExclusion'
    BY <1>3, LocksKept DEF Attacking, StateType
  <2>2. Progress'
    BY <1>3 DEF LockInv, Progress, BeforeLock, KeysOf, BackedUp, StateType, history, stopLocals
  <2> QED
    BY <2>1, <2>2 DEF LockInv
<1>4. ASSUME NEW a \in Attacks, StartPing(a) PROVE LockInv'
  BY <1>2, <1>3, <1>4 DEF StartPing, BeforeLock, persisted
<1>5. ASSUME NEW a \in Attacks, BackupGet(a) PROVE LockInv'
  BY <1>2, <1>3, <1>5 DEF BackupGet, NextBackup, BeforeLock, persisted
<1>6. ASSUME NEW a \in Attacks, BackupTTL(a) PROVE LockInv'
  BY <1>3, <1>6 DEF BackupTTL, NextBackup, BeforeLock, StateType
<1>7. ASSUME NEW a \in Attacks, LockKeys(a) PROVE LockInv'
  <2>1. CASE StartError(a)
    BY <1>2, <1>7, <2>1 DEF LockKeys, BeforeLock
  <2>2. CASE /\ KeysOf(a) \cap lockedKeys = {}
             /\ lockedKeys' = lockedKeys \cup KeysOf(a)
             /\ pc' = [pc EXCEPT ![a] = "expire"]
             /\ UNCHANGED <<persisted, startLocals>>
    <3>1. \A b \in Attacks : KeysOf(b)' = KeysOf(b)
      BY <2>2 DEF KeysOf, persisted
    <3>2. \A b \in Attacks : Attacking(b)' => b = a \/ Attacking(b)
      BY <2>2 DEF Attacking, StateType
    <3>3. \A b \in Attacks : Attacking(b) => KeysOf(b) \cap KeysOf(a) = {}
      BY <2>2 DEF LockInv, LockedWhileAttacked
    <3>4. LockedWhileAttacked' /\ MutualExclusion'
      BY <2>2, <3>1, <3>2, <3>3 DEF LockInv, LockedWhileAttacked, MutualExclusion
    <3>5. Progress'
      BY <1>7, <2>2, <3>1 DEF LockKeys, LockInv, Progress, BeforeLock, BackedUp, StateType, persisted, stopLocals, history
    <3> QED
      BY <3>4, <3>5 DEF LockInv
  <2> QED
    BY <1>7, <2>1, <2>2 DEF LockKeys
<1>8. ASSUME NEW a \in Attacks, Expire(a) PROVE LockInv'
  <2>1. LockedWhileAttacked' /\ MutualExclusion'
    BY <1>8, LocksKept DEF Expire, Attacking, StateType
  <2>2. Key(a) \in KeysOf(a)
    BY <1>8 DEF Expire, InStart, StartType, StateType, Key, KeysOf
  <2>3. affectedKeys' \in {affectedKeys, [affectedKeys EXCEPT ![a] = @ \cup {Key(a)}]}
    BY <1>8 DEF Expire
  <2>4. \A b \in Attacks : affectedKeys'[b] \subseteq KeysOf(b)
    <3>1. \A b \in Attacks : affectedKeys[b] \subseteq KeysOf(b)
      BY DEF LockInv, Progress
    <3>2. CASE affectedKeys' = affectedKeys
      BY <3>1, <3>2
    <3>3. CASE affectedKeys' = [affectedKeys EXCEPT ![a] = @ \cup {Key(a)}]
      BY <2>2, <3>1, <3>3 DEF StateType
    <3> QED
      BY <2>3, <3>2, <3>3
  <2>5. \A b \in Attacks : b # a => affectedKeys'[b] = affectedKeys[b] /\ touched'[b] = touched[b]
    BY <1>8, <2>3 DEF Expire, StateType, HistoryType
  <2>6. Progress'
    BY <1>8, <2>4, <2>5 DEF Expire, LockInv, Progress, BeforeLock, KeysOf, BackedUp, StateType, stopLocals
  <2> QED
    BY <2>1, <2>6 DEF LockInv
<1>9. ASSUME NEW a \in Attacks, NEW answer, StopAnswer(a, answer), pc[a] \in BeforeLock \/ Attacking(a),
             UNCHANGED <<matchedKeys, affectedKeys, backupData, touched>>
      PROVE LockInv'
  <2>1. LockedWhileAttacked' /\ MutualExclusion'
    BY <1>9, LocksReleased
  <2>2. Progress'
    BY <1>9 DEF StopAnswer, LockInv, Progress, BeforeLock, KeysOf, BackedUp, StateType, StopType
  <2> QED
    BY <2>1, <2>2 DEF LockInv
<1>10. ASSUME NEW a \in Attacks, Stop(a) PROVE LockInv'
  <2>1. stops[a] = 0
    BY <1>10 DEF Stop, StopAnswer, Once, StateType, StopType
  <2>2. pc[a] \in {"prepared", "failed", "running"}
    BY <1>10, <2>1 DEF Stop, LockInv, Progress
  <2>3. CASE \E answer \in {"completed", "warned"} : StopAnswer(a, answer)
    BY <1>9, <1>10, <2>2, <2>3 DEF Stop, BeforeLock, Attacking, persisted, history
  <2>4. CASE BackedUp(a) # {} /\ pc' = [pc EXCEPT ![a] = "restore"] /\ UNCHANGED <<lockedKeys, report, stops>>
    <3>1. pc[a] = "running"
      BY <2>2, <2>4 DEF LockInv, Progress
    <3>2. LockedWhileAttacked' /\ MutualExclusion'
      BY <1>10, <2>4, <3>1, LocksKept DEF Stop, Attacking, StateType, persisted
    <3>3. Progress'
      BY <1>10, <2>4 DEF Stop, LockInv, Progress, BeforeLock, KeysOf, BackedUp, StateType, persisted, history
    <3> QED
      BY <3>2, <3>3 DEF LockInv
  <2> QED
    BY <1>10, <2>3, <2>4 DEF Stop
<1>11. ASSUME NEW a \in Attacks, StopReturn(a) PROVE LockInv'
  BY <1>9, <1>11 DEF StopReturn, Attacking, persisted, history
<1>12. ASSUME UNCHANGED <<lockedKeys, pc, matchedKeys, affectedKeys, backupData, touched, stops>>
       PROVE LockInv'
  BY <1>12 DEF LockInv, LockedWhileAttacked, MutualExclusion, Progress, Attacking, KeysOf, BackedUp
<1>13. ASSUME NEW a \in Attacks, NEW k \in Keys, RestoreExists(a, k) PROVE LockInv'
  BY <1>12, <1>13 DEF RestoreExists, persisted, history
<1>14. ASSUME NEW a \in Attacks, RestoreWrite(a) PROVE LockInv'
  BY <1>12, <1>14 DEF RestoreWrite, persisted
<1>15. ASSUME NEW k \in Keys, Elapse(k) \/ AppSet(k) PROVE LockInv'
  BY <1>12, <1>15 DEF Elapse, AppSet, persisted, stopLocals, history
<1>16. ~Restart
  BY DEF Restart, Once, SharedType
<1>17. CASE UNCHANGED vars
  BY <1>12, <1>17 DEF vars, persisted, stopLocals, history
<1> QED
  BY <1>1, <1>4, <1>5, <1>6, <1>7, <1>8, <1>10, <1>11, <1>13, <1>14, <1>15, <1>16, <1>17
  DEF Next, StartStep, StopStep

\* With one Stop per execution and no restart, nothing is ever done twice.
LEMMA NextOnce ==
    ASSUME SingleStop
    PROVE  TypeInv /\ Once /\ [Next]_vars => Once'
<1> SUFFICES ASSUME TypeInv, Once, [Next]_vars PROVE Once'
  OBVIOUS
<1> USE DEF TypeInv, TypeOK, StateType, StopType, SharedType
<1>1. ASSUME UNCHANGED <<stops, restarts>>, \A b \in Attacks : pc'[b] = "restore" => pc[b] = "restore"
      PROVE  Once'
  BY <1>1 DEF Once
<1>2. ASSUME NEW a \in Attacks, NEW q \in Phases, q # "restore", pc' = [pc EXCEPT ![a] = q],
             UNCHANGED <<stops, restarts>>
      PROVE  Once'
  BY <1>1, <1>2
<1>3. ASSUME NEW a \in Attacks, Prepare(a) PROVE Once'
  BY <1>2, <1>3 DEF Prepare, Phases, stopLocals, environment
<1>4. ASSUME NEW a \in Attacks, StartStep(a) PROVE Once'
  BY <1>2, <1>4 DEF StartStep, StartPing, BackupGet, BackupTTL, LockKeys, Expire, StartError, NextBackup,
                    Phases, stopLocals, environment
<1>5. ASSUME NEW a \in Attacks, Stop(a) PROVE Once'
  <2>1. stops[a] = 0 /\ restarts' = restarts
    BY <1>5, BoundsAssumption DEF Stop, SingleStop, environment
  <2> QED
    BY <1>5, <2>1 DEF Stop, StopAnswer, Once
<1>6. ASSUME NEW a \in Attacks, StopStep(a) PROVE Once'
  <2>1. ASSUME NEW k \in Keys, RestoreExists(a, k) PROVE Once'
    BY <1>1, <2>1 DEF RestoreExists, environment
  <2>2. ASSUME RestoreWrite(a) PROVE Once'
    BY <1>1, <2>2 DEF RestoreWrite, environment
  <2>3. ASSUME StopReturn(a) PROVE Once'
    BY <2>3 DEF StopReturn, StopAnswer, Once, environment
  <2> QED
    BY <1>6, <2>1, <2>2, <2>3 DEF StopStep
<1>7. ASSUME NEW k \in Keys, Elapse(k) \/ AppSet(k) PROVE Once'
  BY <1>1, <1>7 DEF Elapse, AppSet, stopLocals, environment
<1>8. ~Restart
  BY DEF Restart, SingleStop
<1>9. CASE UNCHANGED vars
  BY <1>1, <1>9 DEF vars, stopLocals, environment
<1> QED
  BY <1>3, <1>4, <1>5, <1>6, <1>7, <1>8, <1>9 DEF Next

LEMMA InitOnce == Init => Once
BY DEF Init, Once

\* Whatever the bounds are: up to the first second Stop of an execution, or the first
\* restart, executions at work never share a key and all their keys are locked.
THEOREM LocksUntilRepeated == Spec => [](Once => MutualExclusion /\ LockedWhileAttacked)
<1>1. TypeInv /\ (Once => LockInv) /\ [Next]_vars => (Once => LockInv)'
  BY OnceBefore, NextLock
<1>2. LockInv => MutualExclusion /\ LockedWhileAttacked
  BY DEF LockInv
<1> QED
  BY <1>1, <1>2, InitType, NextType, InitLock, PTL DEF Spec

\* With one Stop per execution and no restart, executions at work never share a
\* key, whatever the scans return and whichever commands fail.
THEOREM Exclusion ==
    ASSUME SingleStop
    PROVE  Spec => []MutualExclusion
<1> QED
  BY LocksUntilRepeated, InitType, NextType, InitOnce, NextOnce, PTL DEF Spec

\* Nor does anyone take a lock from an execution at work: not the Stop of one
\* that was refused, although its matched keys are the same.
THEOREM LocksHeld ==
    ASSUME SingleStop
    PROVE  Spec => []LockedWhileAttacked
<1> QED
  BY LocksUntilRepeated, InitType, NextType, InitOnce, NextOnce, PTL DEF Spec

\* Until the extension restarts, only an execution that had the locks has modified keys: a
\* Start never fails after its first EXPIRE.
Traces ==
    restarts = 0 =>
        \A a \in Attacks : touched[a] # {} => pc[a] \in {"expire", "running", "restore", "stopped"}

LEMMA InitTraces == Init => Traces
BY DEF Init, Traces

LEMMA NextTraces == TypeInv /\ Traces /\ [Next]_vars => Traces'
<1> SUFFICES ASSUME TypeInv, Traces, [Next]_vars PROVE Traces'
  OBVIOUS
<1> USE DEF TypeInv, TypeOK, StateType, SharedType, HistoryType
<1>1. ASSUME NEW a \in Attacks, NEW q, pc' = [pc EXCEPT ![a] = q], UNCHANGED <<touched, restarts>>,
             q \in {"expire", "running", "restore", "stopped"}
             \/ pc[a] \notin {"expire", "running", "restore", "stopped"}
      PROVE  Traces'
  BY <1>1 DEF Traces
<1>2. ASSUME UNCHANGED <<pc, touched, restarts>> PROVE Traces'
  BY <1>2 DEF Traces
<1>3. ASSUME NEW a \in Attacks, Prepare(a) PROVE Traces'
  BY <1>1, <1>3 DEF Prepare, environment, history
<1>4. ASSUME NEW a \in Attacks, StartPing(a) PROVE Traces'
  BY <1>1, <1>4 DEF StartPing, StartError, environment, history
<1>5. ASSUME NEW a \in Attacks, BackupGet(a) \/ BackupTTL(a) PROVE Traces'
  BY <1>1, <1>5 DEF BackupGet, BackupTTL, NextBackup, StartError, environment, history
<1>6. ASSUME NEW a \in Attacks, LockKeys(a) PROVE Traces'
  BY <1>1, <1>6 DEF LockKeys, StartError, environment, history
<1>7. ASSUME NEW a \in Attacks, Expire(a) PROVE Traces'
  BY <1>7 DEF Expire, Traces, environment
<1>8. ASSUME NEW a \in Attacks, Stop(a) PROVE Traces'
  BY <1>1, <1>8 DEF Stop, StopAnswer, environment, history
<1>9. ASSUME NEW a \in Attacks, StopStep(a) PROVE Traces'
  <2>1. ASSUME NEW k \in Keys, RestoreExists(a, k) PROVE Traces'
    BY <1>2, <2>1 DEF RestoreExists, environment, history
  <2>2. ASSUME RestoreWrite(a) PROVE Traces'
    BY <1>2, <2>2 DEF RestoreWrite, environment
  <2>3. ASSUME StopReturn(a) PROVE Traces'
    BY <1>1, <2>3 DEF StopReturn, StopAnswer, environment, history
  <2> QED
    BY <1>9, <2>1, <2>2, <2>3 DEF StopStep
<1>10. ASSUME NEW k \in Keys, Elapse(k) \/ AppSet(k) PROVE Traces'
  BY <1>2, <1>10 DEF Elapse, AppSet, environment, history
<1>11. ASSUME Restart PROVE Traces'
  BY <1>11 DEF Restart, Traces
<1>12. CASE UNCHANGED vars
  BY <1>2, <1>12 DEF vars, environment, history
<1> QED
  BY <1>3, <1>4, <1>5, <1>6, <1>7, <1>8, <1>9, <1>10, <1>11, <1>12 DEF Next, StartStep

\* While the extension never restarts, a Start that is refused or fails has not modified a
\* key, however many Stops there are.
THEOREM NoTrace ==
    ASSUME MaxRestarts = 0
    PROVE  Spec => []AbortLeavesNoTrace
<1>1. restarts = 0 /\ [Next]_vars => (restarts = 0)'
  <2>1. ASSUME NEW a \in Attacks, Prepare(a) \/ StartStep(a) PROVE restarts' = restarts
    BY <2>1 DEF Prepare, StartStep, StartPing, BackupGet, BackupTTL, LockKeys, Expire, environment
  <2>2. ASSUME NEW a \in Attacks, Stop(a) \/ StopStep(a) PROVE restarts' = restarts
    BY <2>2 DEF Stop, StopStep, RestoreExists, RestoreWrite, StopReturn, environment
  <2>3. ASSUME NEW k \in Keys, Elapse(k) \/ AppSet(k) PROVE restarts' = restarts
    BY <2>3 DEF Elapse, AppSet, environment
  <2>4. restarts = 0 => ~Restart
    BY DEF Restart
  <2> QED
    BY <2>1, <2>2, <2>3, <2>4 DEF Next, vars, environment
<1>2. Traces /\ restarts = 0 => AbortLeavesNoTrace
  BY DEF Traces, AbortLeavesNoTrace
<1>3. Init => restarts = 0
  BY DEF Init
<1> QED
  BY <1>1, <1>2, <1>3, InitType, NextType, InitTraces, NextTraces, PTL DEF Spec

-----------------------------------------------------------------------------
\* What each execution holds, as the abstract lock sees it.
Holding == [a \in Attacks |-> IF Attacking(a) THEN KeysOf(a) ELSE {}]

\* A step in which every execution keeps what it holds is a stutter of the
\* abstract lock; one that ends the work of an execution is its Release.
LEMMA HoldingKept ==
    ASSUME \A a \in Attacks : Attacking(a)' = Attacking(a) /\ (Attacking(a) => KeysOf(a)' = KeysOf(a))
    PROVE  Holding' = Holding
BY DEF Holding

LEMMA AnswerReleases ==
    ASSUME TypeInv, NEW a \in Attacks, NEW answer, StopAnswer(a, answer), matchedKeys' = matchedKeys
    PROVE  KeyMutex!Next \/ Holding' = Holding
<1>1. \A b \in Attacks : KeysOf(b)' = KeysOf(b)
  BY DEF KeysOf
<1>2. \A b \in Attacks : Attacking(b)' <=> b # a /\ Attacking(b)
  BY DEF StopAnswer, Attacking, TypeInv, TypeOK, StateType
<1>3. Holding' = [Holding EXCEPT ![a] = {}]
  BY <1>1, <1>2 DEF Holding
<1>4. CASE Holding[a] = {}
  BY <1>3, <1>4 DEF Holding
<1>5. CASE Holding[a] # {}
  BY <1>3, <1>5 DEF KeyMutex!Next, KeyMutex!Release, Holding
<1> QED
  BY <1>4, <1>5

\* Every step maps to a step of the abstract lock or to a stutter.
LEMMA StepRefines == TypeInv /\ LockInv /\ [Next]_vars /\ Once' => KeyMutex!Next \/ Holding' = Holding
<1> SUFFICES ASSUME TypeInv, LockInv, [Next]_vars, Once' PROVE KeyMutex!Next \/ Holding' = Holding
  OBVIOUS
<1> USE DEF TypeInv, TypeOK
<1>1. ASSUME NEW a \in Attacks, Prepare(a) PROVE Holding' = Holding
  BY <1>1, HoldingKept DEF Prepare, Attacking, KeysOf, StateType
<1>2. ASSUME NEW a \in Attacks, pc[a] \in BeforeLock, matchedKeys' = matchedKeys,
             pc' \in {[pc EXCEPT ![a] = q] : q \in BeforeLock}
      PROVE Holding' = Holding
  BY <1>2, HoldingKept DEF Attacking, KeysOf, StateType, BeforeLock
<1>3. ASSUME NEW a \in Attacks, StartPing(a) \/ BackupGet(a) \/ BackupTTL(a) PROVE Holding' = Holding
  BY <1>2, <1>3 DEF StartPing, BackupGet, BackupTTL, NextBackup, StartError, BeforeLock, persisted
<1>4. ASSUME NEW a \in Attacks, LockKeys(a) PROVE KeyMutex!Next \/ Holding' = Holding
  <2>1. CASE StartError(a)
    BY <1>2, <1>4, <2>1 DEF LockKeys, StartError, BeforeLock
  <2>2. CASE /\ KeysOf(a) \cap lockedKeys = {}
             /\ lockedKeys' = lockedKeys \cup KeysOf(a)
             /\ pc' = [pc EXCEPT ![a] = "expire"]
             /\ UNCHANGED <<persisted, startLocals>>
    <3>1. \A b \in Attacks : KeysOf(b)' = KeysOf(b)
      BY <2>2 DEF KeysOf, persisted
    <3>2. \A b \in Attacks : Attacking(b)' <=> b = a \/ Attacking(b)
      BY <2>2 DEF Attacking, StateType
    <3>3. ~Attacking(a)
      BY <1>4 DEF LockKeys, Attacking
    <3>4. Holding' = [Holding EXCEPT ![a] = KeysOf(a)]
      BY <3>1, <3>2 DEF Holding
    <3>5. Holding[a] = {}
      BY <3>3 DEF Holding
    <3>6. \A b \in Attacks \ {a} : Holding[b] \cap KeysOf(a) = {}
      BY <2>2 DEF Holding, LockInv, LockedWhileAttacked
    <3>7. KeysOf(a) \in SUBSET Keys
      BY DEF KeysOf, StateType
    <3> QED
      BY <3>4, <3>5, <3>6, <3>7 DEF KeyMutex!Next, KeyMutex!Acquire, KeyMutex!Free, Holding
  <2> QED
    BY <1>4, <2>1, <2>2 DEF LockKeys
<1>5. ASSUME NEW a \in Attacks, Expire(a) PROVE Holding' = Holding
  BY <1>5, HoldingKept DEF Expire, Attacking, KeysOf, StateType
<1>6. ASSUME NEW a \in Attacks, Stop(a) PROVE KeyMutex!Next \/ Holding' = Holding
  <2>1. stops[a] = 0
    BY <1>6 DEF Stop, StopAnswer, Once, StateType, StopType
  <2>2. CASE \E answer \in {"completed", "warned"} : StopAnswer(a, answer)
    BY <1>6, <2>2, AnswerReleases DEF Stop, persisted
  <2>3. CASE BackedUp(a) # {} /\ pc' = [pc EXCEPT ![a] = "restore"]
    <3>1. pc[a] = "running"
      BY <1>6, <2>1, <2>3 DEF Stop, LockInv, Progress
    <3> QED
      BY <1>6, <2>3, <3>1, HoldingKept DEF Stop, Attacking, KeysOf, StateType, persisted
  <2> QED
    BY <1>6, <2>2, <2>3 DEF Stop
<1>7. ASSUME NEW a \in Attacks, StopReturn(a) PROVE KeyMutex!Next \/ Holding' = Holding
  BY <1>7, AnswerReleases DEF StopReturn, persisted
<1>8. ASSUME UNCHANGED <<pc, matchedKeys>> PROVE Holding' = Holding
  BY <1>8, HoldingKept DEF Attacking, KeysOf
<1>9. ASSUME NEW a \in Attacks, StopStep(a) PROVE KeyMutex!Next \/ Holding' = Holding
  BY <1>7, <1>8, <1>9 DEF StopStep, RestoreExists, RestoreWrite, persisted
<1>10. ASSUME NEW k \in Keys, Elapse(k) \/ AppSet(k) PROVE Holding' = Holding
  BY <1>8, <1>10 DEF Elapse, AppSet, persisted
<1>11. ~Restart
  BY DEF Restart, Once, SharedType
<1>12. CASE UNCHANGED vars
  BY <1>8, <1>12 DEF vars, persisted
<1> QED
  BY <1>1, <1>3, <1>4, <1>5, <1>6, <1>9, <1>10, <1>11, <1>12 DEF Next, StartStep

\* The lock table of the cache expiration attack implements the abstract lock on
\* sets of keys, as long as each execution gets one Stop and nothing restarts.
THEOREM LockRefinement ==
    ASSUME SingleStop
    PROVE  Spec => KeyMutexSpec
<1>1. Init => KeyMutex!Init
  BY DEF Init, KeyMutex!Init, Attacking
<1>2. TypeInv /\ LockInv /\ [Next]_vars /\ Once' => [KeyMutex!Next]_Holding
  BY StepRefines
<1> QED
  BY <1>1, <1>2, InitType, NextType, InitOnce, NextOnce, InitLock, NextLock, PTL
  DEF Spec, KeyMutexSpec, KeyMutex!Spec, Holding

-----------------------------------------------------------------------------
\* What a step makes of one key of the database: nothing, or time passes for it, the
\* application writes it, an attack shortens its life, or a Stop restores it.
Aged(k) == /\ redis[k].ttl >= 0
           /\ \/ redis'[k] = Absent
              \/ redis'[k] \in Entry /\ redis'[k].val = redis[k].val /\ redis'[k].ttl >= 0
SetByApp(k) == redis'[k] \in Entry /\ redis'[k].ttl = -1 /\ appWrites' > appWrites
Shortened(k) ==
    \E a \in Attacks : Expire(a) /\ k = Key(a) /\ redis'[k] = WithTTL(redis[k], AttackTTL)
PutBack(k) ==
    \E a \in Attacks : /\ RestoreWrite(a) /\ k = probe[a][1]
                       /\ redis'[k] = Restored(backupData[a][k], probe[a][2], redis[k])

LEMMA RedisSteps ==
    ASSUME TypeInv, [Next]_vars
    PROVE  /\ appWrites \in Nat /\ appWrites' \in Nat /\ appWrites' >= appWrites
           /\ \A k \in Keys : redis'[k] = redis[k] \/ Aged(k) \/ SetByApp(k) \/ Shortened(k) \/ PutBack(k)
           /\ (\A k \in Keys : ~AppSet(k)) => appWrites' = appWrites
<1>0. appWrites \in Nat /\ redis \in [Keys -> Entry \cup {Absent}]
  BY DEF TypeInv, TypeOK, SharedType
<1> DEFINE Steps(k) == redis'[k] = redis[k] \/ Aged(k) \/ SetByApp(k) \/ Shortened(k) \/ PutBack(k)
           Fine == appWrites' = appWrites /\ \A k \in Keys : Steps(k)
<1>1. ASSUME redis' = redis, appWrites' = appWrites PROVE Fine
  BY <1>1
<1>2. ASSUME NEW a \in Attacks, Prepare(a) \/ StartPing(a) \/ BackupGet(a) \/ BackupTTL(a) \/ LockKeys(a)
                                \/ Stop(a) \/ StopReturn(a)
      PROVE  Fine
  BY <1>1, <1>2 DEF Prepare, StartPing, BackupGet, BackupTTL, LockKeys, Stop, StopReturn, environment
<1>3. ASSUME NEW a \in Attacks, NEW k \in Keys, RestoreExists(a, k) PROVE Fine
  BY <1>1, <1>3 DEF RestoreExists, environment
<1>4. ASSUME NEW a \in Attacks, Expire(a) PROVE Fine
  <2>1. Key(a) \in Keys
    BY <1>4, KeyType DEF Expire, InStart, TypeInv
  <2>2. redis' \in {redis, [redis EXCEPT ![Key(a)] = WithTTL(redis[Key(a)], AttackTTL)]}
        /\ appWrites' = appWrites
    BY <1>4 DEF Expire, Written, environment
  <2>3. ASSUME NEW k \in Keys PROVE redis'[k] = redis[k] \/ Shortened(k)
    <3>1. redis'[k] = redis[k] \/ (k = Key(a) /\ redis'[k] = WithTTL(redis[k], AttackTTL))
      BY <1>0, <2>1, <2>2
    <3> QED
      BY <1>4, <3>1 DEF Shortened
  <2> QED
    BY <2>2, <2>3
<1>5. ASSUME NEW a \in Attacks, RestoreWrite(a) PROVE Fine
  <2> DEFINE x == probe[a][1]
             after == Restored(backupData[a][x], probe[a][2], redis[x])
  <2>1. redis' \in {redis, [redis EXCEPT ![x] = after]} /\ appWrites' = appWrites
    BY <1>5 DEF RestoreWrite, Written, environment
  <2>2. x \in Keys
    BY <1>5 DEF RestoreWrite, TypeInv, TypeOK, StopType
  <2> HIDE DEF x, after
  <2>3. ASSUME NEW k \in Keys PROVE redis'[k] = redis[k] \/ (k = x /\ redis'[k] = after)
    BY <1>0, <2>1, <2>2
  <2>4. ASSUME NEW k \in Keys PROVE redis'[k] = redis[k] \/ PutBack(k)
    BY <1>5, <2>3 DEF PutBack, x, after
  <2> QED
    BY <2>1, <2>4
<1>6. ASSUME NEW k \in Keys, Elapse(k) PROVE Fine
  <2>1. redis[k] \in Entry /\ redis[k].ttl >= 0
    BY <1>0, <1>6 DEF Elapse, Absent
  <2>2. redis[k].ttl # 0 => [redis[k] EXCEPT !.ttl = redis[k].ttl - 1] \in Entry
    BY <2>1, TTLAssumption DEF Entry
  <2>3. redis' = [redis EXCEPT ![k] = IF redis[k].ttl = 0 THEN Absent
                                       ELSE [redis[k] EXCEPT !.ttl = redis[k].ttl - 1]]
        /\ appWrites' = appWrites
    BY <1>6 DEF Elapse, Written, environment
  <2>4. /\ redis'[k] = Absent \/ (redis[k].ttl # 0 /\ redis'[k] = [redis[k] EXCEPT !.ttl = redis[k].ttl - 1])
        /\ \A x \in Keys \ {k} : redis'[x] = redis[x]
    BY <1>0, <2>3
  <2>5. Aged(k)
    <3>1. CASE redis'[k] = Absent
      BY <2>1, <3>1 DEF Aged
    <3>2. CASE redis[k].ttl # 0 /\ redis'[k] = [redis[k] EXCEPT !.ttl = redis[k].ttl - 1]
      <4>1. redis'[k] \in Entry
        BY <2>2, <3>2
      <4>2. redis'[k].val = redis[k].val /\ redis'[k].ttl >= 0
        BY <2>1, <3>2, TTLAssumption DEF Entry
      <4> QED
        BY <2>1, <4>1, <4>2 DEF Aged
    <3> QED
      BY <2>4, <3>1, <3>2
  <2> QED
    BY <2>3, <2>4, <2>5
<1>7. ASSUME NEW k \in Keys, AppSet(k) PROVE appWrites' = appWrites + 1 /\ \A x \in Keys : Steps(x)
  <2>1. PICK v \in Values : redis' = [redis EXCEPT ![k] = [val |-> v, ttl |-> -1]]
    BY <1>7 DEF AppSet, Written
  <2>2. appWrites' = appWrites + 1
    BY <1>7 DEF AppSet
  <2>3. [val |-> v, ttl |-> -1] \in Entry
    BY TTLAssumption DEF Entry
  <2>4. SetByApp(k) /\ \A x \in Keys \ {k} : redis'[x] = redis[x]
    BY <1>0, <2>1, <2>2, <2>3 DEF SetByApp
  <2> QED
    BY <2>2, <2>4
<1>8. ASSUME Restart PROVE Fine
  <2>1. redis' = redis /\ appWrites' = appWrites
    BY <1>8 DEF Restart
  <2> QED
    BY <1>1, <2>1
<1>9. ASSUME UNCHANGED vars PROVE Fine
  <2>1. redis' = redis /\ appWrites' = appWrites
    BY <1>9 DEF vars, environment
  <2> QED
    BY <1>1, <2>1
<1> HIDE DEF Steps, Fine
<1>10. Fine \/ \E k \in Keys : AppSet(k) /\ appWrites' = appWrites + 1 /\ \A x \in Keys : Steps(x)
  BY <1>2, <1>3, <1>4, <1>5, <1>6, <1>7, <1>8, <1>9 DEF Next, StartStep, StopStep
<1> QED
  BY <1>0, <1>10 DEF Steps, Fine

\* Each execution backs up keys it matched, and has no backup while Start is not at work
\* and has not answered.
Matched(a) == matchedKeys[a] = <<>> \/ matchedKeys[a] \in MatchLists[a]

BackupsOwn ==
    \A a \in Attacks :
        /\ Matched(a)
        /\ BackedUp(a) \subseteq KeysOf(a)
        /\ pc[a] \in {"new", "prepared", "failed"} => BackedUp(a) = {}
        /\ pc[a] = "new" => matchedKeys[a] = <<>>

\* What a step makes of the backups of one execution: nothing, or Start has failed, or
\* has another one.
BackupAdded(a) ==
    /\ pc[a] = "ttl" /\ Key(a) \in KeysOf(a) /\ Key(a) \in Keys
    /\ pc'[a] \in {"get", "lock"}
    /\ \E ttl \in -1 .. MaxTTL :
         /\ ttl = StoredTTL(redis[Key(a)].ttl) \/ (CommandsMayFail /\ ttl = -1)
         /\ backupData'[a] = [backupData[a] EXCEPT ![Key(a)] = [val |-> value[a], ttl |-> ttl]]
    /\ redis' = redis /\ appWrites' = appWrites

BackupsDropped(a) ==
    /\ pc[a] \in {"prepared", "get", "ttl", "lock", "expire"}
    /\ pc'[a] = "failed" /\ backupData'[a] = NoBackups

BackupsKept(a) ==
    /\ backupData'[a] = backupData[a]
    /\ pc[a] = "ttl" => pc'[a] = "ttl"
    /\ pc'[a] \in {"new", "prepared", "failed"} => pc[a] \in {"new", "prepared", "failed"}

LEMMA BackupSteps ==
    ASSUME TypeInv, [Next]_vars, NEW b \in Attacks
    PROVE  /\ BackupsKept(b) \/ BackupAdded(b) \/ BackupsDropped(b)
           /\ \/ matchedKeys'[b] = matchedKeys[b]
              \/ pc[b] = "new" /\ matchedKeys'[b] \in MatchLists[b]
<1> DEFINE Result == /\ BackupsKept(b) \/ BackupAdded(b) \/ BackupsDropped(b)
                     /\ \/ matchedKeys'[b] = matchedKeys[b]
                        \/ pc[b] = "new" /\ matchedKeys'[b] \in MatchLists[b]
<1> USE DEF TypeInv, TypeOK
<1>1. ASSUME UNCHANGED <<pc, backupData, matchedKeys>> PROVE Result
  BY <1>1 DEF BackupsKept
<1>2. ASSUME NEW a \in Attacks, NEW q, pc' = [pc EXCEPT ![a] = q], pc[a] # "ttl",
             q \notin {"new", "prepared", "failed"} \/ pc[a] \in {"new", "prepared", "failed"},
             UNCHANGED <<backupData, matchedKeys>>
      PROVE  Result
  BY <1>2 DEF BackupsKept, StateType
<1>3. ASSUME NEW a \in Attacks, StartError(a),
             pc[a] \in {"prepared", "get", "ttl", "lock", "expire"}
      PROVE  Result
  <2>1. CASE b = a
    BY <1>3, <2>1 DEF StartError, BackupsDropped, StateType
  <2>2. CASE b # a
    BY <1>3, <2>2 DEF StartError, BackupsKept, StateType
  <2> QED
    BY <2>1, <2>2
<1>4. ASSUME NEW a \in Attacks, Prepare(a) PROVE Result
  BY <1>4 DEF Prepare, BackupsKept, StateType
<1>5. ASSUME NEW a \in Attacks, StartPing(a) PROVE Result
  BY <1>2, <1>3, <1>5 DEF StartPing, persisted
<1>6. ASSUME NEW a \in Attacks, BackupGet(a) PROVE Result
  BY <1>2, <1>3, <1>6 DEF BackupGet, NextBackup, persisted
<1>7. ASSUME NEW a \in Attacks, BackupTTL(a) PROVE Result
  <2>1. CASE b = a
    <3>1. Key(a) \in Keys /\ Key(a) \in KeysOf(a)
      BY <1>7, KeyType DEF BackupTTL, InStart, StateType, StartType, Key, KeysOf
    <3>2. pc'[a] \in {"get", "lock"} /\ matchedKeys' = matchedKeys /\ redis' = redis
          /\ appWrites' = appWrites
      BY <1>7 DEF BackupTTL, NextBackup, StateType, environment
    <3>3. PICK ttl \in -1 .. MaxTTL :
             /\ ttl = StoredTTL(redis[Key(a)].ttl) \/ (CommandsMayFail /\ ttl = -1)
             /\ backupData' = [backupData EXCEPT ![a][Key(a)] = [val |-> value[a], ttl |-> ttl]]
      BY <1>7 DEF BackupTTL
    <3>4. backupData'[a] = [backupData[a] EXCEPT ![Key(a)] = [val |-> value[a], ttl |-> ttl]]
      BY <3>3 DEF StateType
    <3>5. pc[a] = "ttl"
      BY <1>7 DEF BackupTTL
    <3>6. BackupAdded(a)
      BY <3>1, <3>2, <3>3, <3>4, <3>5 DEF BackupAdded
    <3> QED
      BY <2>1, <3>2, <3>6
  <2>2. CASE b # a
    BY <1>7, <2>2 DEF BackupTTL, NextBackup, BackupsKept, StateType
  <2> QED
    BY <2>1, <2>2
<1>8. ASSUME NEW a \in Attacks, LockKeys(a) PROVE Result
  BY <1>2, <1>3, <1>8 DEF LockKeys, persisted
<1>9. ASSUME NEW a \in Attacks, Expire(a) PROVE Result
  BY <1>2, <1>9 DEF Expire
<1>10. ASSUME NEW a \in Attacks, Stop(a) PROVE Result
  BY <1>2, <1>10 DEF Stop, StopAnswer, persisted
<1>11. ASSUME NEW a \in Attacks, StopReturn(a) PROVE Result
  BY <1>2, <1>11 DEF StopReturn, StopAnswer, persisted
<1>12. ASSUME NEW a \in Attacks, NEW k \in Keys, RestoreExists(a, k) PROVE Result
  BY <1>1, <1>12 DEF RestoreExists, persisted
<1>13. ASSUME NEW a \in Attacks, RestoreWrite(a) PROVE Result
  BY <1>1, <1>13 DEF RestoreWrite, persisted
<1>14. ASSUME NEW k \in Keys, Elapse(k) \/ AppSet(k) PROVE Result
  BY <1>1, <1>14 DEF Elapse, AppSet, persisted
<1>15. ASSUME Restart PROVE Result
  <2>1. CASE InStart(b)
    BY <1>15, <2>1 DEF Restart, BackupsDropped, InStart
  <2>2. CASE ~InStart(b)
    BY <1>15, <2>2 DEF Restart, BackupsKept, InStart
  <2> QED
    BY <2>1, <2>2
<1>16. ASSUME UNCHANGED vars PROVE Result
  BY <1>1, <1>16 DEF vars, persisted
<1> HIDE DEF Result
<1>17. Result
  BY <1>4, <1>5, <1>6, <1>7, <1>8, <1>9, <1>10, <1>11, <1>12, <1>13, <1>14, <1>15, <1>16
  DEF Next, StartStep, StopStep
<1> QED
  BY <1>17 DEF Result

LEMMA InitOwn == Init => BackupsOwn
BY DEF Init, BackupsOwn, Matched, BackedUp, NoBackups

\* Prepare has no way back.
LEMMA NewBefore ==
    ASSUME TypeInv, [Next]_vars, NEW a \in Attacks, pc'[a] = "new"
    PROVE  pc[a] = "new" /\ matchedKeys'[a] = matchedKeys[a]
<1> USE DEF TypeInv, TypeOK, StateType, persisted
<1>1. ASSUME NEW b \in Attacks, Prepare(b) PROVE pc[a] = "new" /\ matchedKeys'[a] = matchedKeys[a]
  BY <1>1 DEF Prepare
<1>2. ASSUME NEW b \in Attacks, NEW q, pc' = [pc EXCEPT ![b] = q], q # "new" PROVE pc[a] = "new"
  BY <1>2
<1>3. ASSUME NEW b \in Attacks, StartPing(b) \/ BackupGet(b) \/ BackupTTL(b)
      PROVE  pc[a] = "new" /\ matchedKeys'[a] = matchedKeys[a]
  BY <1>2, <1>3 DEF StartPing, BackupGet, BackupTTL, NextBackup, StartError
<1>4. ASSUME NEW b \in Attacks, LockKeys(b) \/ Expire(b)
      PROVE  pc[a] = "new" /\ matchedKeys'[a] = matchedKeys[a]
  BY <1>2, <1>4 DEF LockKeys, Expire, StartError
<1>5. ASSUME NEW b \in Attacks, Stop(b) \/ StopStep(b)
      PROVE  pc[a] = "new" /\ matchedKeys'[a] = matchedKeys[a]
  BY <1>2, <1>5 DEF Stop, StopStep, RestoreExists, RestoreWrite, StopReturn, StopAnswer
<1>6. ASSUME NEW k \in Keys, Elapse(k) \/ AppSet(k)
      PROVE  pc[a] = "new" /\ matchedKeys'[a] = matchedKeys[a]
  BY <1>6 DEF Elapse, AppSet
<1>7. ASSUME Restart PROVE pc[a] = "new" /\ matchedKeys'[a] = matchedKeys[a]
  BY <1>7 DEF Restart, InStart
<1> QED
  BY <1>1, <1>3, <1>4, <1>5, <1>6, <1>7 DEF Next, StartStep, vars

LEMMA NextOwn == TypeInv /\ BackupsOwn /\ [Next]_vars => BackupsOwn'
<1> SUFFICES ASSUME TypeInv, BackupsOwn, [Next]_vars, NEW a \in Attacks
             PROVE  /\ Matched(a)' /\ BackedUp(a)' \subseteq KeysOf(a)'
                    /\ pc'[a] \in {"new", "prepared", "failed"} => BackedUp(a)' = {}
                    /\ pc'[a] = "new" => matchedKeys'[a] = <<>>
  BY DEF BackupsOwn
<1>0. pc'[a] = "new" => matchedKeys'[a] = <<>>
  BY NewBefore DEF BackupsOwn
<1>1. Matched(a)'
  BY BackupSteps DEF BackupsOwn, Matched
<1>2. pc[a] # "new" => KeysOf(a)' = KeysOf(a)
  BY BackupSteps DEF KeysOf
<1>3. CASE BackupsKept(a)
  <2>1. BackedUp(a)' = BackedUp(a)
    BY <1>3 DEF BackupsKept, BackedUp
  <2> QED
    BY <1>0, <1>1, <1>2, <1>3, <2>1 DEF BackupsKept, BackupsOwn
<1>4. CASE BackupAdded(a)
  <2>1. BackedUp(a)' \subseteq BackedUp(a) \cup {Key(a)}
    BY <1>4 DEF BackupAdded, BackedUp, TypeInv, TypeOK, StateType
  <2> QED
    BY <1>0, <1>1, <1>2, <1>4, <2>1 DEF BackupAdded, BackupsOwn
<1>5. CASE BackupsDropped(a)
  <2>1. BackedUp(a)' = {}
    BY <1>5 DEF BackupsDropped, BackedUp, NoBackups
  <2> QED
    BY <1>0, <1>1, <2>1
<1> QED
  BY <1>3, <1>4, <1>5, BackupSteps

\* What an execution matches it matches for good, so that a key no other execution matches
\* after a step is one that none matched before it.
LEMMA AloneBefore ==
    ASSUME TypeInv, BackupsOwn, [Next]_vars, NEW a \in Attacks, NEW k, Alone(a, k)'
    PROVE  Alone(a, k)
<1>1. ASSUME NEW b \in Attacks \ {a}, k \in KeysOf(b) PROVE FALSE
  <2>1. matchedKeys[b] # <<>>
    BY <1>1 DEF KeysOf
  <2>2. matchedKeys'[b] = matchedKeys[b]
    BY <2>1, BackupSteps DEF BackupsOwn
  <2> QED
    BY <1>1, <2>2 DEF Alone, KeysOf
<1> QED
  BY <1>1 DEF Alone

\* No two executions match a key in common.
DisjointPatterns ==
    \A a, b \in Attacks : a # b =>
        \A s \in MatchLists[a], t \in MatchLists[b] :
            \A i \in DOMAIN s, j \in DOMAIN t : s[i] # t[j]

LEMMA KeysApart ==
    ASSUME DisjointPatterns, BackupsOwn, NEW a \in Attacks, NEW b \in Attacks, a # b
    PROVE  KeysOf(a) \cap KeysOf(b) = {}
<1>1. ASSUME NEW k \in KeysOf(a), k \in KeysOf(b) PROVE FALSE
  <2>1. PICK i \in DOMAIN matchedKeys[a] : k = matchedKeys[a][i]
    BY DEF KeysOf
  <2>2. PICK j \in DOMAIN matchedKeys[b] : k = matchedKeys[b][j]
    BY <1>1 DEF KeysOf
  <2>3. matchedKeys[a] \in MatchLists[a] /\ matchedKeys[b] \in MatchLists[b]
    BY <2>1, <2>2 DEF BackupsOwn, Matched
  <2> QED
    BY <2>1, <2>2, <2>3 DEF DisjointPatterns
<1> QED
  BY <1>1

\* The keys a step of Start or of Stop writes are the execution's own.
LEMMA WritesOwn ==
    ASSUME TypeInv, BackupsOwn, NEW a \in Attacks
    PROVE  /\ Expire(a) => pc[a] = "expire" /\ Key(a) \in KeysOf(a)
           /\ RestoreWrite(a) => /\ pc[a] = "restore" /\ probe[a] # NoProbe
                                 /\ probe[a][1] \in KeysOf(a) /\ probe[a][1] \in BackedUp(a)
                                 /\ probe[a][2] \in {"present", "missing"}
<1>1. ASSUME Expire(a) PROVE pc[a] = "expire" /\ Key(a) \in KeysOf(a)
  BY <1>1 DEF Expire, TypeInv, TypeOK, StartType, StateType, InStart, Key, KeysOf
<1>2. ASSUME RestoreWrite(a)
      PROVE  /\ pc[a] = "restore" /\ probe[a] # NoProbe /\ probe[a][1] \in BackedUp(a)
             /\ probe[a][2] \in {"present", "missing"}
  BY <1>2 DEF RestoreWrite, TypeInv, TypeOK, StopType, Restoring
<1> QED
  BY <1>1, <1>2 DEF BackupsOwn

\* Until the application writes, a key that is there has the value it had in the
\* beginning, in the database and in every backup.
OriginalValues ==
    appWrites = 0 =>
        /\ \A k \in Keys : redis[k] = Absent \/ redis[k].val = InitEntry[k].val
        /\ \A a \in Attacks : \A k \in BackedUp(a) : backupData[a][k].val = InitEntry[k].val
        /\ \A a \in Attacks : pc[a] = "ttl" => value[a] = InitEntry[Key(a)].val

LEMMA InitValues == Init => OriginalValues
BY DEF Init, OriginalValues, BackedUp, NoBackups

LEMMA WithTTLValue ==
    ASSUME NEW entry \in Entry \cup {Absent}, NEW ttl \in Int
    PROVE  /\ WithTTL(entry, ttl) = Absent <=> entry = Absent
           /\ entry # Absent => WithTTL(entry, ttl).val = entry.val /\ WithTTL(entry, ttl).ttl = ttl
<1>1. CASE entry = Absent
  BY <1>1 DEF WithTTL
<1>2. CASE entry # Absent
  <2>1. entry \in Entry /\ entry.val \in Values
    BY <1>2 DEF Entry
  <2>2. WithTTL(entry, ttl) = [entry EXCEPT !.ttl = ttl]
    BY <1>2 DEF WithTTL
  <2>3. WithTTL(entry, ttl).val = entry.val /\ WithTTL(entry, ttl).ttl = ttl
    BY <2>1, <2>2 DEF Entry
  <2>4. Absent.val = NoValue
    BY DEF Absent
  <2> QED
    BY <1>2, <2>1, <2>3, <2>4, AbsentAssumption
<1> QED
  BY <1>1, <1>2

\* A key Stop writes has the value of its backup, or the one it had.
LEMMA RestoredValue ==
    ASSUME NEW backup \in Entry, NEW existed \in {"present", "missing"},
           NEW entry \in Entry \cup {Absent}
    PROVE  /\ \/ Restored(backup, existed, entry) = Absent /\ entry = Absent
              \/ Restored(backup, existed, entry).val = entry.val /\ entry # Absent
              \/ Restored(backup, existed, entry).val = backup.val
           /\ backup.ttl = -1 /\ Restored(backup, existed, entry) # Absent =>
                Restored(backup, existed, entry).ttl = -1
           /\ existed = "missing" => Restored(backup, existed, entry) # Absent
<1>1. backup.ttl \in Int /\ backup.ttl \in -1 .. MaxTTL
  BY TTLAssumption DEF Entry
<1>2. CASE existed = "present"
  <2>1. CASE backup.ttl = 0
    BY <1>2, <2>1 DEF Restored
  <2>2. CASE backup.ttl # 0
    <3>1. Restored(backup, existed, entry) = WithTTL(entry, backup.ttl)
      BY <1>2, <2>2 DEF Restored
    <3> QED
      BY <1>1, <1>2, <3>1, WithTTLValue
  <2> QED
    BY <2>1, <2>2
<1>3. CASE existed = "missing"
  <2>1. Restored(backup, existed, entry) = [backup EXCEPT !.ttl = IF backup.ttl > 0 THEN backup.ttl ELSE -1]
    BY <1>3 DEF Restored
  <2>2. /\ Restored(backup, existed, entry).val = backup.val
        /\ backup.ttl = -1 => Restored(backup, existed, entry).ttl = -1
    BY <1>1, <2>1 DEF Entry
  <2>3. Restored(backup, existed, entry) \in Entry
    BY <1>1, <2>1, TTLAssumption DEF Entry
  <2> QED
    BY <1>3, <2>2, <2>3, EntryNotAbsent
<1> QED
  BY <1>2, <1>3

LEMMA NextValues == TypeInv /\ BackupsOwn /\ OriginalValues /\ [Next]_vars => OriginalValues'
<1> SUFFICES ASSUME TypeInv, BackupsOwn, OriginalValues, [Next]_vars, appWrites' = 0
             PROVE  /\ \A k \in Keys : redis'[k] = Absent \/ redis'[k].val = InitEntry[k].val
                    /\ \A a \in Attacks : \A k \in BackedUp(a)' : backupData'[a][k].val = InitEntry[k].val
                    /\ \A a \in Attacks : pc'[a] = "ttl" => value'[a] = InitEntry[Key(a)'].val
  BY DEF OriginalValues
<1>0. appWrites = 0 /\ redis \in [Keys -> Entry \cup {Absent}]
  BY RedisSteps DEF TypeInv, TypeOK, SharedType
<1>1. ASSUME NEW k \in Keys PROVE redis'[k] = Absent \/ redis'[k].val = InitEntry[k].val
  <2>1. redis[k] = Absent \/ redis[k].val = InitEntry[k].val
    BY <1>0 DEF OriginalValues
  <2>2. CASE redis'[k] = redis[k]
    BY <2>1, <2>2
  <2>3. CASE Aged(k)
    BY <2>1, <2>3 DEF Aged, Absent
  <2>4. CASE SetByApp(k)
    BY <1>0, <2>4 DEF SetByApp
  <2>5. CASE Shortened(k)
    <3>1. redis'[k] = WithTTL(redis[k], AttackTTL) /\ AttackTTL \in Int
      BY <2>5, TTLAssumption DEF Shortened
    <3> QED
      BY <1>0, <2>1, <3>1, WithTTLValue
  <2>6. CASE PutBack(k)
    <3>1. PICK a \in Attacks : /\ RestoreWrite(a) /\ k = probe[a][1]
                               /\ redis'[k] = Restored(backupData[a][k], probe[a][2], redis[k])
      BY <2>6 DEF PutBack
    <3>2. k \in BackedUp(a) /\ probe[a][2] \in {"present", "missing"}
      BY <3>1, WritesOwn
    <3>3. backupData[a][k] \in Entry /\ backupData[a][k].val = InitEntry[k].val
      BY <1>0, <3>2 DEF OriginalValues, BackedUp, TypeInv, TypeOK, StateType
    <3> QED
      BY <1>0, <2>1, <3>1, <3>2, <3>3, RestoredValue
  <2> QED
    BY <2>2, <2>3, <2>4, <2>5, <2>6, RedisSteps
<1>2. ASSUME NEW a \in Attacks, NEW k \in BackedUp(a)'
      PROVE  backupData'[a][k].val = InitEntry[k].val
  <2>1. CASE BackupsKept(a)
    BY <1>0, <1>2, <2>1 DEF BackupsKept, BackedUp, OriginalValues
  <2>2. CASE BackupAdded(a)
    <3>1. PICK ttl : backupData'[a] = [backupData[a] EXCEPT ![Key(a)] = [val |-> value[a], ttl |-> ttl]]
      BY <2>2 DEF BackupAdded
    <3>2. value[a] = InitEntry[Key(a)].val
      BY <1>0, <2>2 DEF BackupAdded, OriginalValues
    <3>3. backupData[a] \in [Keys -> Entry \cup {Absent}] /\ k \in Keys
      BY <1>2 DEF TypeInv, TypeOK, StateType, BackedUp
    <3>4. CASE k = Key(a)
      BY <3>1, <3>2, <3>3, <3>4
    <3>5. CASE k # Key(a)
      BY <1>0, <1>2, <3>1, <3>3, <3>5 DEF BackedUp, OriginalValues
    <3> QED
      BY <3>4, <3>5
  <2>3. CASE BackupsDropped(a)
    BY <1>2, <2>3 DEF BackupsDropped, BackedUp, NoBackups
  <2> QED
    BY <2>1, <2>2, <2>3, BackupSteps
<1>3. ASSUME NEW a \in Attacks, pc'[a] = "ttl" PROVE value'[a] = InitEntry[Key(a)'].val
  <2>1. \/ pc[a] = "ttl" /\ value'[a] = value[a] /\ Key(a)' = Key(a)
        \/ /\ redis[Key(a)] # Absent /\ value'[a] = redis[Key(a)].val
           /\ Key(a)' = Key(a) /\ Key(a) \in Keys
    <3> USE DEF TypeInv, TypeOK
    <3> DEFINE Result == \/ pc[a] = "ttl" /\ value'[a] = value[a] /\ Key(a)' = Key(a)
                         \/ /\ redis[Key(a)] # Absent /\ value'[a] = redis[Key(a)].val
                            /\ Key(a)' = Key(a) /\ Key(a) \in Keys
    <3>1. ASSUME UNCHANGED <<pc, matchedKeys, pos, value>> PROVE Result
      BY <1>3, <3>1 DEF Key
    <3>2. ASSUME NEW b \in Attacks, NEW q, pc' = [pc EXCEPT ![b] = q], q # "ttl",
                 \A c \in Attacks \ {b} : /\ matchedKeys'[c] = matchedKeys[c]
                                          /\ pos'[c] = pos[c] /\ value'[c] = value[c]
          PROVE  Result
      BY <1>3, <3>2 DEF Key, StateType
    <3>3. ASSUME NEW b \in Attacks, StartError(b) PROVE Result
      BY <3>2, <3>3 DEF StartError, StartType
    <3>4. ASSUME NEW b \in Attacks, Prepare(b) PROVE Result
      BY <3>2, <3>4 DEF Prepare, StateType, startLocals
    <3>5. ASSUME NEW b \in Attacks, StartPing(b) \/ LockKeys(b) PROVE Result
      BY <3>2, <3>3, <3>5 DEF StartPing, LockKeys, persisted, startLocals
    <3>6. ASSUME NEW b \in Attacks, NextBackup(b), matchedKeys' = matchedKeys PROVE Result
      <4>1. \A c \in Attacks \ {b} : pos'[c] = pos[c] /\ value'[c] = value[c]
        BY <3>6 DEF NextBackup, StartType
      <4>2. ASSUME NEW q, q # "ttl", pc' = [pc EXCEPT ![b] = q] PROVE Result
        BY <3>2, <3>6, <4>1, <4>2
      <4>3. CASE LastKey(b)
        BY <3>6, <4>2, <4>3 DEF NextBackup
      <4>4. CASE ~LastKey(b)
        BY <3>6, <4>2, <4>4 DEF NextBackup
      <4> HIDE DEF Result
      <4> QED
        BY <4>3, <4>4
    <3>7. ASSUME NEW b \in Attacks, BackupTTL(b) PROVE Result
      BY <3>6, <3>7 DEF BackupTTL
    <3>8. ASSUME NEW b \in Attacks, BackupGet(b) PROVE Result
      <4>1. CASE /\ redis[Key(b)] # Absent
                 /\ value' = [value EXCEPT ![b] = redis[Key(b)].val]
                 /\ pc' = [pc EXCEPT ![b] = "ttl"]
                 /\ UNCHANGED <<lockedKeys, restoreOnStop, matchedKeys, affectedKeys, backupData, pos>>
        <5>1. Key(a)' = Key(a)
          BY <4>1 DEF Key
        <5>2. CASE a = b
          <6>1. Key(a) \in Keys
            BY <3>8, <5>2, KeyType DEF BackupGet, InStart
          <6>2. value'[a] = redis[Key(a)].val
            BY <4>1, <5>2 DEF StartType
          <6> QED
            BY <4>1, <5>1, <5>2, <6>1, <6>2
        <5>3. CASE a # b
          BY <1>3, <4>1, <5>1, <5>3 DEF StateType, StartType
        <5> QED
          BY <5>2, <5>3
      <4> QED
        BY <3>3, <3>6, <3>8, <4>1 DEF BackupGet, persisted
    <3>9. ASSUME NEW b \in Attacks, Expire(b) PROVE Result
      BY <3>2, <3>9 DEF Expire, StartType
    <3>10. ASSUME NEW b \in Attacks, Stop(b) \/ StopReturn(b) PROVE Result
      BY <3>2, <3>10 DEF Stop, StopReturn, StopAnswer, persisted, startLocals
    <3>11. ASSUME NEW b \in Attacks, NEW k \in Keys, RestoreExists(b, k) PROVE Result
      BY <3>1, <3>11 DEF RestoreExists, persisted, startLocals
    <3>12. ASSUME NEW b \in Attacks, RestoreWrite(b) PROVE Result
      BY <3>1, <3>12 DEF RestoreWrite, persisted, startLocals
    <3>13. ASSUME NEW k \in Keys, Elapse(k) \/ AppSet(k) PROVE Result
      BY <3>1, <3>13 DEF Elapse, AppSet, persisted, startLocals
    <3>14. ~Restart
      <4>1. Restart => pc'[a] # "ttl"
        BY DEF Restart, InStart
      <4> QED
        BY <1>3, <4>1
    <3>15. ASSUME UNCHANGED vars PROVE Result
      BY <3>1, <3>15 DEF vars, persisted, startLocals
    <3> HIDE DEF Result
    <3>16. Result
      BY <3>4, <3>5, <3>7, <3>8, <3>9, <3>10, <3>11, <3>12, <3>13, <3>14, <3>15
      DEF Next, StartStep, StopStep
    <3> QED
      BY <3>16 DEF Result
  <2>2. CASE pc[a] = "ttl" /\ value'[a] = value[a] /\ Key(a)' = Key(a)
    BY <1>0, <2>2 DEF OriginalValues
  <2>3. CASE /\ redis[Key(a)] # Absent /\ value'[a] = redis[Key(a)].val
             /\ Key(a)' = Key(a) /\ Key(a) \in Keys
    BY <1>0, <2>3 DEF OriginalValues
  <2> QED
    BY <2>1, <2>2, <2>3
<1> QED
  BY <1>1, <1>2, <1>3

-----------------------------------------------------------------------------
\* A step of one execution leaves the state of the others alone.
LEMMA OthersKeep ==
    ASSUME TypeInv, NEW a \in Attacks, NEW b \in Attacks, a # b,
           Prepare(b) \/ StartStep(b) \/ Stop(b) \/ StopStep(b)
    PROVE  /\ pc'[a] = pc[a] /\ (a \in restoreOnStop' <=> a \in restoreOnStop)
           /\ matchedKeys'[a] = matchedKeys[a] /\ affectedKeys'[a] = affectedKeys[a]
           /\ pos'[a] = pos[a] /\ touched'[a] = touched[a] /\ ignored'[a] = ignored[a]
           /\ todo'[a] = todo[a] /\ probe'[a] = probe[a] /\ notRestored'[a] = notRestored[a]
           /\ report'[a] = report[a] /\ stops'[a] = stops[a]
<1> DEFINE Result ==
             /\ pc'[a] = pc[a] /\ (a \in restoreOnStop' <=> a \in restoreOnStop)
             /\ matchedKeys'[a] = matchedKeys[a] /\ affectedKeys'[a] = affectedKeys[a]
             /\ pos'[a] = pos[a] /\ touched'[a] = touched[a] /\ ignored'[a] = ignored[a]
             /\ todo'[a] = todo[a] /\ probe'[a] = probe[a] /\ notRestored'[a] = notRestored[a]
             /\ report'[a] = report[a] /\ stops'[a] = stops[a]
<1> USE DEF TypeInv, TypeOK, StateType, StartType, StopType, HistoryType, stopLocals, history,
            startLocals, persisted
<1>1. ASSUME Prepare(b) PROVE Result
  BY <1>1 DEF Prepare
<1>2. ASSUME StartError(b), UNCHANGED <<stopLocals, history>> PROVE Result
  BY <1>2 DEF StartError
<1>3. ASSUME StartPing(b) \/ LockKeys(b) PROVE Result
  BY <1>2, <1>3 DEF StartPing, LockKeys
<1>4. ASSUME BackupGet(b) PROVE Result
  BY <1>2, <1>4 DEF BackupGet, NextBackup
<1>5. ASSUME BackupTTL(b) PROVE Result
  BY <1>5 DEF BackupTTL, NextBackup
<1>6. ASSUME Expire(b) PROVE Result
  BY <1>6 DEF Expire
<1>7. ASSUME Stop(b) PROVE Result
  BY <1>7 DEF Stop, StopAnswer
<1>8. ASSUME NEW k \in Keys, RestoreExists(b, k) PROVE Result
  BY <1>8 DEF RestoreExists
<1>9. ASSUME RestoreWrite(b) PROVE Result
  BY <1>9 DEF RestoreWrite
<1>10. ASSUME StopReturn(b) PROVE Result
  BY <1>10 DEF StopReturn, StopAnswer
<1> HIDE DEF Result
<1>11. Result
  BY <1>1, <1>3, <1>4, <1>5, <1>6, <1>7, <1>8, <1>9, <1>10 DEF StartStep, StopStep
<1> QED
  BY <1>11 DEF Result

\* The key is as RestoredAsReported promises it to the execution that backed it up.
Good(a, k) ==
    Alone(a, k) /\ backupData[a][k].ttl = -1 =>
        redis[k].ttl = -1 /\ (appWrites = 0 => redis[k].val = backupData[a][k].val)

\* What Stop has restored stays so, as long as no other execution matches the key.
LEMMA GoodKept ==
    ASSUME TypeInv, BackupsOwn, [Next]_vars,
           NEW a \in Attacks, pc[a] \in {"restore", "stopped"},
           NEW k \in BackedUp(a), Good(a, k)
    PROVE  Good(a, k)' /\ backupData'[a] = backupData[a]
<1>1. backupData'[a] = backupData[a]
  BY BackupSteps DEF BackupAdded, BackupsDropped, BackupsKept
<1>2. /\ redis \in [Keys -> Entry \cup {Absent}] /\ k \in Keys /\ k \in KeysOf(a)
      /\ backupData[a][k] \in Entry
  BY DEF TypeInv, TypeOK, SharedType, StateType, BackedUp, BackupsOwn
<1>a. Alone(a, k)' => Alone(a, k) /\ \A b \in Attacks \ {a} : k \notin KeysOf(b)
  BY AloneBefore DEF Alone
<1>3. CASE redis'[k] = redis[k]
  BY <1>1, <1>3, <1>a, RedisSteps DEF Good
<1>4. CASE Aged(k)
  BY <1>1, <1>4, <1>a DEF Good, Aged
<1>5. CASE SetByApp(k)
  BY <1>1, <1>5, <1>a, RedisSteps DEF Good, SetByApp
<1>b. CASE ~Alone(a, k)'
  BY <1>1, <1>b DEF Good
<1>6. Alone(a, k)' => ~Shortened(k)
  BY <1>2, <1>a, WritesOwn DEF Shortened
<1>7. CASE PutBack(k) /\ Alone(a, k)'
  <2>1. PICK b \in Attacks : /\ RestoreWrite(b) /\ k = probe[b][1]
                             /\ redis'[k] = Restored(backupData[b][k], probe[b][2], redis[k])
    BY <1>7 DEF PutBack
  <2>2. b = a /\ probe[a][2] \in {"present", "missing"}
    BY <1>2, <1>7, <1>a, <2>1, WritesOwn
  <2>3. ASSUME backupData[a][k].ttl = -1
        PROVE  /\ redis'[k].ttl = -1
               /\ appWrites = 0 => redis'[k].val = backupData[a][k].val
    <3>1. redis[k].ttl = -1 /\ (appWrites = 0 => redis[k].val = backupData[a][k].val)
      BY <1>7, <1>a, <2>3 DEF Good
    <3>2. redis[k] # Absent /\ redis[k].val \in Values /\ backupData[a][k].val \in Values
      BY <1>2, <3>1 DEF Absent, Entry
    <3>3. redis'[k] # Absent
      BY <1>2, <2>1, <2>2, <3>2, RestoredValue, AbsentAssumption DEF Absent
    <3> QED
      BY <1>2, <2>1, <2>2, <2>3, <3>1, <3>2, <3>3, RestoredValue
  <2> QED
    BY <1>1, <2>3, RedisSteps DEF Good
<1> QED
  BY <1>1, <1>2, <1>3, <1>4, <1>5, <1>6, <1>7, <1>b, RedisSteps

\* RestoredAsReported, made inductive: every backup the restore loop has gone through is
\* counted as not restored, is being written, was ignored, or is restored.
RestoreProgress(a) ==
    /\ report[a] = "restored" => pc[a] \in {"restore", "stopped"} /\ stops[a] > 0
    /\ report[a] = "restored" => \A k \in BackedUp(a) \ ignored[a] : Good(a, k)
    /\ pc[a] = "restore" =>
         \A k \in BackedUp(a) \ ignored[a] :
             \/ k \in todo[a] \/ k \in notRestored[a]
             \/ probe[a] # NoProbe /\ probe[a][1] = k
             \/ Good(a, k)

RestoredInv == \A a \in Attacks : RestoreProgress(a)

LEMMA InitRestored == Init => RestoredInv
BY DEF Init, RestoredInv, RestoreProgress

LEMMA NextRestored ==
    ASSUME TypeInv, BackupsOwn, OriginalValues, RestoredInv, [Next]_vars
    PROVE  RestoredInv'
<1> SUFFICES ASSUME NEW a \in Attacks PROVE RestoreProgress(a)'
  BY DEF RestoredInv
<1> USE DEF TypeInv, TypeOK, StateType, StopType, HistoryType, stopLocals, history, NoProbe
<1>0. RestoreProgress(a)
  BY DEF RestoredInv
<1>1. ASSUME pc[a] \in {"restore", "stopped"}
      PROVE  BackedUp(a)' = BackedUp(a) /\ \A k \in BackedUp(a) : Good(a, k) => Good(a, k)'
  <2>1. \A k \in BackedUp(a) : Good(a, k) => Good(a, k)' /\ backupData'[a] = backupData[a]
    BY <1>1, GoodKept
  <2>2. backupData'[a] = backupData[a]
    BY <1>1, BackupSteps DEF BackupAdded, BackupsDropped, BackupsKept
  <2> QED
    BY <2>1, <2>2 DEF BackedUp
<1>2. ASSUME \/ pc'[a] = pc[a]
             \/ pc[a] \notin {"restore", "stopped"} /\ pc'[a] \notin {"restore", "stopped"},
             todo'[a] = todo[a], probe'[a] = probe[a], notRestored'[a] = notRestored[a],
             report'[a] = report[a], stops'[a] = stops[a], ignored'[a] = ignored[a]
      PROVE  RestoreProgress(a)'
  BY <1>0, <1>1, <1>2 DEF RestoreProgress
<1>3. ASSUME NEW b \in Attacks, a # b, Prepare(b) \/ StartStep(b) \/ Stop(b) \/ StopStep(b)
      PROVE  RestoreProgress(a)'
  BY <1>2, <1>3, OthersKeep
<1>4. ASSUME Prepare(a) PROVE RestoreProgress(a)'
  BY <1>2, <1>4 DEF Prepare
<1>5. ASSUME StartStep(a) PROVE RestoreProgress(a)'
  <2>1. UNCHANGED stopLocals /\ ignored' = ignored
    BY <1>5 DEF StartStep, StartPing, BackupGet, BackupTTL, LockKeys, Expire
  <2>2. pc[a] \notin {"restore", "stopped"}
    BY <1>5 DEF StartStep, StartPing, BackupGet, BackupTTL, LockKeys, Expire
  <2>3. pc'[a] \notin {"restore", "stopped"}
    BY <1>5 DEF StartStep, StartPing, BackupGet, BackupTTL, LockKeys, Expire, StartError, NextBackup
  <2> QED
    BY <1>2, <2>1, <2>2, <2>3
<1>6. ASSUME Stop(a) PROVE RestoreProgress(a)'
  <2>1. CASE StopAnswer(a, "completed") \/ StopAnswer(a, "warned")
    BY <1>6, <2>1 DEF StopAnswer, RestoreProgress
  <2>2. CASE /\ pc' = [pc EXCEPT ![a] = "restore"]
             /\ todo' = [todo EXCEPT ![a] = BackedUp(a)]
             /\ UNCHANGED <<report, stops>>
    <3>1. pc'[a] = "restore" /\ todo'[a] = BackedUp(a) /\ ignored' = ignored
      BY <1>6, <2>2 DEF Stop
    <3>2. BackedUp(a)' = BackedUp(a)
      BY <1>6 DEF Stop, persisted, BackedUp
    <3> QED
      BY <1>0, <1>1, <2>2, <3>1, <3>2 DEF RestoreProgress
  <2> QED
    BY <1>6, <2>1, <2>2 DEF Stop
<1>7. ASSUME NEW k \in Keys, RestoreExists(a, k) PROVE RestoreProgress(a)'
  <2>1. /\ pc[a] = "restore" /\ pc'[a] = "restore" /\ probe[a] = NoProbe
        /\ report'[a] = report[a] /\ stops'[a] = stops[a] /\ ignored'[a] = ignored[a]
        /\ todo'[a] = todo[a] \ {k}
        /\ \/ probe'[a] # NoProbe /\ probe'[a][1] = k /\ notRestored'[a] = notRestored[a]
           \/ notRestored'[a] = notRestored[a] \cup {k}
    BY <1>7 DEF RestoreExists
  <2> QED
    BY <1>0, <1>1, <2>1 DEF RestoreProgress
<1>8. ASSUME RestoreWrite(a) PROVE RestoreProgress(a)'
  <2>1. /\ pc[a] = "restore" /\ pc'[a] = "restore" /\ probe[a] # NoProbe
        /\ report'[a] = report[a] /\ stops'[a] = stops[a] /\ todo'[a] = todo[a]
        /\ ignored[a] \subseteq ignored'[a] /\ notRestored[a] \subseteq notRestored'[a]
    BY <1>8 DEF RestoreWrite
  <2>2. ASSUME NEW x, x = probe[a][1]
        PROVE  x \in ignored'[a] \/ x \in notRestored'[a] \/ Good(a, x)'
    <3> DEFINE after == Restored(backupData[a][x], probe[a][2], redis[x])
    <3>1. CASE notRestored' = [notRestored EXCEPT ![a] = @ \cup {x}]
      BY <2>2, <3>1
    <3>2. CASE /\ redis' = Written(x, after)
               /\ ignored' = [ignored EXCEPT ![a] = IF after = Absent THEN @ \cup {x} ELSE @]
      <4>1. /\ x \in BackedUp(a) /\ x \in Keys /\ probe[a][2] \in {"present", "missing"}
            /\ redis[x] \in Entry \cup {Absent} /\ backupData[a][x] \in Entry
        BY <1>8, <2>2, WritesOwn DEF BackedUp, SharedType
      <4>2. CASE after = Absent
        BY <3>2, <4>2
      <4>3. CASE after # Absent
        <5>1. redis'[x] = after /\ backupData' = backupData /\ appWrites' = appWrites
          BY <1>8, <3>2, <4>1 DEF RestoreWrite, Written, SharedType, persisted, environment
        <5>2. appWrites = 0 => redis[x] = Absent \/ redis[x].val = backupData[a][x].val
          BY <4>1 DEF OriginalValues
        <5>3. ASSUME backupData[a][x].ttl = -1
              PROVE  after.ttl = -1 /\ (appWrites = 0 => after.val = backupData[a][x].val)
          BY <4>1, <4>3, <5>2, <5>3, RestoredValue
        <5> HIDE DEF after
        <5> QED
          BY <5>1, <5>3 DEF Good
      <4> QED
        BY <4>2, <4>3
    <3> QED
      BY <1>8, <2>2, <3>1, <3>2 DEF RestoreWrite
  <2>3. \A k \in BackedUp(a) \ ignored[a] :
          k = probe[a][1] \/ k \in todo[a] \/ k \in notRestored[a] \/ Good(a, k)
    BY <1>0, <2>1 DEF RestoreProgress
  <2> QED
    BY <1>0, <1>1, <2>1, <2>2, <2>3 DEF RestoreProgress
<1>9. ASSUME StopReturn(a) PROVE RestoreProgress(a)'
  <2>1. /\ pc[a] = "restore" /\ pc'[a] = "stopped" /\ probe[a] = NoProbe /\ todo[a] = {}
        /\ report'[a] = "restored" => notRestored[a] = {}
        /\ stops'[a] = stops[a] + 1 /\ ignored'[a] = ignored[a]
    BY <1>9 DEF StopReturn, StopAnswer
  <2> QED
    BY <1>0, <1>1, <2>1 DEF RestoreProgress
<1>10. ASSUME NEW k \in Keys, Elapse(k) \/ AppSet(k) PROVE RestoreProgress(a)'
  BY <1>2, <1>10 DEF Elapse, AppSet
<1>11. ASSUME Restart PROVE RestoreProgress(a)'
  <2>1. /\ report' = report /\ stops' = stops /\ ignored' = ignored
        /\ pc[a] \in {"restore", "stopped"} /\ stops[a] > 0 => pc'[a] = "stopped"
        /\ pc'[a] # "restore"
    BY <1>11 DEF Restart, InStart
  <2> QED
    BY <1>0, <1>1, <2>1 DEF RestoreProgress
<1>12. ASSUME UNCHANGED vars PROVE RestoreProgress(a)'
  BY <1>2, <1>12 DEF vars
<1> QED
  BY <1>3, <1>4, <1>5, <1>6, <1>7, <1>8, <1>9, <1>10, <1>11, <1>12 DEF Next, StopStep

\* A Stop that reports every backup restored has restored those no other execution matches:
\* what it put back stays so whatever the others, the clock and restarts of the extension do,
\* unless the answer 0 of a TTL command was ignored.
THEOREM RestoredTruthfully == Spec => []RestoredAsReported
<1>1. TypeInv /\ BackupsOwn /\ OriginalValues /\ RestoredInv /\ [Next]_vars
        => BackupsOwn' /\ OriginalValues' /\ RestoredInv'
  BY NextOwn, NextValues, NextRestored
<1>2. RestoredInv => RestoredAsReported
  BY DEF RestoredInv, RestoreProgress, RestoredAsReported, Good
<1> QED
  BY <1>1, <1>2, InitType, NextType, InitOwn, InitValues, InitRestored, PTL DEF Spec

-----------------------------------------------------------------------------
\* While every command works, EXPIRE has counted each key it came to as affected, so that
\* an execution that holds locks is one whose Stop takes them all back.
Counted(a) ==
    /\ pc[a] = "lock" => pos[a] = 1
    /\ pc[a] = "expire" => \A i \in 1 .. (pos[a] - 1) : matchedKeys[a][i] \in affectedKeys[a]
    /\ pc[a] \in {"running", "restore"} \/ (pc[a] = "stopped" /\ BackedUp(a) # {}) =>
         KeysOf(a) \subseteq affectedKeys[a]

AllCounted == \A a \in Attacks : Counted(a)

LEMMA InitCounted == Init => AllCounted
BY DEF Init, AllCounted, Counted

LEMMA NextCounted ==
    ASSUME ~CommandsMayFail, TypeInv, BackupsOwn, AllCounted, [Next]_vars
    PROVE  AllCounted'
<1> SUFFICES ASSUME NEW a \in Attacks PROVE Counted(a)'
  BY DEF AllCounted
<1> USE DEF TypeInv, TypeOK, StateType, StartType, persisted, startLocals
<1>0. Counted(a)
  BY DEF AllCounted
<1>1. ASSUME pc'[a] = pc[a], pos'[a] = pos[a], matchedKeys'[a] = matchedKeys[a],
             affectedKeys'[a] = affectedKeys[a]
      PROVE  Counted(a)'
  <2>1. KeysOf(a)' = KeysOf(a)
    BY <1>1 DEF KeysOf
  <2>2. pc[a] = "stopped" => BackedUp(a)' = BackedUp(a)
    BY <1>1, BackupSteps DEF BackupsKept, BackupAdded, BackupsDropped, BackedUp
  <2> QED
    BY <1>0, <1>1, <2>1, <2>2 DEF Counted
<1>2. ASSUME NEW b \in Attacks, a # b, Prepare(b) \/ StartStep(b) \/ Stop(b) \/ StopStep(b)
      PROVE  Counted(a)'
  BY <1>1, <1>2, OthersKeep
<1>3. ASSUME pc'[a] \in {"prepared", "failed", "get", "ttl"} PROVE Counted(a)'
  BY <1>3 DEF Counted
<1>4. ASSUME Prepare(a) \/ StartError(a) PROVE Counted(a)'
  BY <1>3, <1>4 DEF Prepare, StartError
<1>5. ASSUME StartPing(a) PROVE Counted(a)'
  BY <1>4, <1>5 DEF StartPing, Ready, Counted
<1>6. ASSUME NextBackup(a) PROVE Counted(a)'
  <2>1. pc'[a] \in {"lock", "get"} /\ (pc'[a] = "lock" => pos'[a] = 1)
    BY <1>6 DEF NextBackup
  <2> QED
    BY <2>1 DEF Counted
<1>7. ASSUME BackupGet(a) \/ BackupTTL(a) PROVE Counted(a)'
  BY <1>3, <1>4, <1>6, <1>7 DEF BackupGet, BackupTTL
<1>8. ASSUME LockKeys(a) PROVE Counted(a)'
  <2>1. CASE pc' = [pc EXCEPT ![a] = "expire"] /\ UNCHANGED <<persisted, startLocals>>
    <3>1. pc'[a] = "expire" /\ pos'[a] = 1
      BY <1>0, <1>8, <2>1 DEF LockKeys, Counted
    <3> QED
      BY <3>1 DEF Counted
  <2> QED
    BY <1>4, <1>8, <2>1 DEF LockKeys
<1>9. ASSUME Expire(a) PROVE Counted(a)'
  <2>1. /\ pc[a] = "expire" /\ matchedKeys' = matchedKeys
        /\ affectedKeys'[a] = affectedKeys[a] \cup {matchedKeys[a][pos[a]]}
        /\ pos[a] \in 1 .. Len(matchedKeys[a])
    BY <1>9 DEF Expire, Key, InStart
  <2>2. \A i \in 1 .. pos[a] : matchedKeys[a][i] \in affectedKeys'[a]
    BY <1>0, <2>1 DEF Counted
  <2>3. CASE LastKey(a)
    <3>1. KeysOf(a)' \subseteq affectedKeys'[a]
      BY <2>1, <2>2, <2>3 DEF LastKey, KeysOf
    <3>2. pc'[a] = "running"
      BY <1>9, <2>3 DEF Expire
    <3> QED
      BY <3>1, <3>2 DEF Counted
  <2>4. CASE ~LastKey(a)
    <3>1. pc'[a] = "expire" /\ pos'[a] = pos[a] + 1
      BY <1>9, <2>4 DEF Expire
    <3> QED
      BY <2>1, <2>2, <3>1 DEF Counted
  <2> QED
    BY <2>3, <2>4
<1>10. ASSUME Stop(a) \/ StopReturn(a) PROVE Counted(a)'
  <2>1. UNCHANGED persisted
    BY <1>10 DEF Stop, StopReturn
  <2>2. BackedUp(a)' = BackedUp(a) /\ KeysOf(a)' = KeysOf(a) /\ affectedKeys' = affectedKeys
    BY <2>1 DEF BackedUp, KeysOf
  <2>3. pc'[a] \in {"restore", "stopped"} /\ (pc'[a] = "restore" => BackedUp(a) # {})
    BY <1>10 DEF Stop, StopReturn, StopAnswer
  <2>4. pc[a] \in {"prepared", "failed", "running", "stopped", "restore"}
    BY <1>10 DEF Stop, StopReturn
  <2>5. pc[a] \in {"prepared", "failed"} => BackedUp(a) = {}
    BY DEF BackupsOwn
  <2> QED
    BY <1>0, <2>2, <2>3, <2>4, <2>5 DEF Counted
<1>11. ASSUME NEW k \in Keys, RestoreExists(a, k) PROVE Counted(a)'
  BY <1>1, <1>11 DEF RestoreExists
<1>12. ASSUME RestoreWrite(a) PROVE Counted(a)'
  BY <1>1, <1>12 DEF RestoreWrite
<1>13. ASSUME NEW k \in Keys, Elapse(k) \/ AppSet(k) PROVE Counted(a)'
  BY <1>1, <1>13 DEF Elapse, AppSet
<1>14. ASSUME Restart PROVE Counted(a)'
  <2>1. CASE InStart(a)
    <3>1. pc'[a] = "failed"
      BY <1>14, <2>1 DEF Restart, InStart
    <3> QED
      BY <1>3, <3>1
  <2>2. CASE ~InStart(a)
    <3>1. /\ pc'[a] = pc[a] \/ (pc[a] = "restore" /\ pc'[a] \in {"running", "stopped"})
          /\ affectedKeys'[a] = affectedKeys[a] /\ backupData'[a] = backupData[a]
          /\ matchedKeys' = matchedKeys
      BY <1>14, <2>2 DEF Restart
    <3>2. KeysOf(a)' = KeysOf(a) /\ BackedUp(a)' = BackedUp(a)
      BY <3>1 DEF KeysOf, BackedUp
    <3> QED
      BY <1>0, <2>2, <3>1, <3>2 DEF Counted, InStart
  <2> QED
    BY <2>1, <2>2
<1>15. ASSUME UNCHANGED vars PROVE Counted(a)'
  BY <1>1, <1>15 DEF vars
<1> QED
  BY <1>2, <1>4, <1>5, <1>7, <1>8, <1>9, <1>10, <1>11, <1>12, <1>13, <1>14, <1>15
  DEF Next, StartStep, StopStep

LEMMA InitLocked == Init => LockedMeansAttacked
BY DEF Init, LockedMeansAttacked

\* A step after which every execution at work still is at work, with the same keys, and
\* that takes only its own keys into the lock table, keeps LockedMeansAttacked.
LEMMA LockedKept ==
    ASSUME LockedMeansAttacked,
           \A b \in Attacks : Attacking(b) => Attacking(b)' /\ KeysOf(b)' = KeysOf(b),
           \A k \in lockedKeys' \ lockedKeys :
               \E b \in Attacks : Attacking(b)' /\ k \in KeysOf(b)'
    PROVE  LockedMeansAttacked'
BY DEF LockedMeansAttacked

LEMMA NextLocked ==
    ASSUME ~CommandsMayFail, TypeInv, BackupsOwn, AllCounted, LockedMeansAttacked, [Next]_vars
    PROVE  LockedMeansAttacked'
<1> USE DEF TypeInv, TypeOK, StateType, persisted
<1>1. ASSUME lockedKeys' = lockedKeys,
             \A b \in Attacks : Attacking(b) => pc'[b] \in {"expire", "running", "restore"}
                                                /\ matchedKeys'[b] = matchedKeys[b]
      PROVE  LockedMeansAttacked'
  BY <1>1, LockedKept DEF Attacking, KeysOf
<1>2. ASSUME NEW a \in Attacks, NEW q, pc' = [pc EXCEPT ![a] = q],
             pc[a] \notin {"expire", "running", "restore"} \/ q \in {"expire", "running", "restore"},
             lockedKeys' = lockedKeys, matchedKeys' = matchedKeys
      PROVE  LockedMeansAttacked'
  BY <1>1, <1>2 DEF Attacking
<1>3. ASSUME NEW a \in Attacks, StartError(a), ~Attacking(a) PROVE LockedMeansAttacked'
  BY <1>2, <1>3 DEF StartError, Attacking
<1>4. ASSUME NEW a \in Attacks, Prepare(a) PROVE LockedMeansAttacked'
  BY <1>1, <1>4 DEF Prepare, Attacking
<1>5. ASSUME NEW a \in Attacks, StartPing(a) PROVE LockedMeansAttacked'
  BY <1>2, <1>3, <1>5 DEF StartPing, Attacking
<1>6. ASSUME NEW a \in Attacks, BackupGet(a) \/ BackupTTL(a) PROVE LockedMeansAttacked'
  BY <1>2, <1>3, <1>6 DEF BackupGet, BackupTTL, NextBackup, Attacking
<1>7. ASSUME NEW a \in Attacks, LockKeys(a) PROVE LockedMeansAttacked'
  <2>1. CASE /\ lockedKeys' = lockedKeys \cup KeysOf(a)
             /\ pc' = [pc EXCEPT ![a] = "expire"]
             /\ UNCHANGED <<persisted, startLocals>>
    <3>1. matchedKeys' = matchedKeys /\ \A b \in Attacks : KeysOf(b)' = KeysOf(b)
      BY <2>1 DEF KeysOf
    <3>2. Attacking(a)' /\ \A b \in Attacks : Attacking(b) => Attacking(b)'
      BY <2>1 DEF Attacking
    <3> QED
      BY <2>1, <3>1, <3>2, LockedKept
  <2> QED
    BY <1>3, <1>7, <2>1 DEF LockKeys, Attacking
<1>8. ASSUME NEW a \in Attacks, Expire(a) PROVE LockedMeansAttacked'
  BY <1>2, <1>8 DEF Expire
<1>9. ASSUME NEW a \in Attacks, NEW answer, StopAnswer(a, answer), matchedKeys' = matchedKeys,
             pc[a] # "expire"
      PROVE  LockedMeansAttacked'
  <2>1. Attacking(a) => KeysOf(a) \subseteq affectedKeys[a]
    BY <1>9 DEF AllCounted, Counted, Attacking
  <2>2. \A b \in Attacks \ {a} : Attacking(b) => Attacking(b)' /\ KeysOf(b)' = KeysOf(b)
    BY <1>9 DEF StopAnswer, Attacking, KeysOf
  <2>3. lockedKeys' = lockedKeys \ affectedKeys[a]
    BY <1>9 DEF StopAnswer, UnlockKeys
  <2>4. ASSUME NEW k \in lockedKeys' PROVE \E b \in Attacks : Attacking(b)' /\ k \in KeysOf(b)'
    <3>1. PICK b \in Attacks : Attacking(b) /\ k \in KeysOf(b)
      BY <2>3, <2>4 DEF LockedMeansAttacked
    <3>2. b # a
      BY <2>1, <2>3, <2>4, <3>1
    <3>3. Attacking(b)' /\ KeysOf(b)' = KeysOf(b)
      BY <2>2, <3>1, <3>2
    <3> QED
      BY <3>1, <3>3
  <2> QED
    BY <2>4 DEF LockedMeansAttacked
<1>10. ASSUME NEW a \in Attacks, Stop(a) PROVE LockedMeansAttacked'
  <2>1. matchedKeys' = matchedKeys /\ pc[a] # "expire"
    BY <1>10 DEF Stop
  <2>2. CASE pc' = [pc EXCEPT ![a] = "restore"] /\ lockedKeys' = lockedKeys
    BY <1>2, <2>1, <2>2
  <2> QED
    BY <1>9, <1>10, <2>1, <2>2 DEF Stop
<1>11. ASSUME NEW a \in Attacks, StopReturn(a) PROVE LockedMeansAttacked'
  BY <1>9, <1>11 DEF StopReturn
<1>12. ASSUME NEW a \in Attacks, RestoreWrite(a) \/ \E k \in Keys : RestoreExists(a, k)
       PROVE  LockedMeansAttacked'
  BY <1>1, <1>12 DEF RestoreWrite, RestoreExists, Attacking
<1>13. ASSUME NEW k \in Keys, Elapse(k) \/ AppSet(k) PROVE LockedMeansAttacked'
  BY <1>1, <1>13 DEF Elapse, AppSet, Attacking
<1>14. ASSUME Restart PROVE LockedMeansAttacked'
  BY <1>14 DEF Restart, LockedMeansAttacked
<1>15. ASSUME UNCHANGED vars PROVE LockedMeansAttacked'
  BY <1>1, <1>15 DEF vars, Attacking
<1> QED
  BY <1>4, <1>5, <1>6, <1>7, <1>8, <1>10, <1>11, <1>12, <1>13, <1>14, <1>15
  DEF Next, StartStep, StopStep

\* As long as every Redis command works, a key is in the lock table only while an execution
\* is at work on it, for any number of executions, repeated Stops and restarts.
THEOREM NoLockLeaks ==
    ASSUME ~CommandsMayFail
    PROVE  Spec => []LockedMeansAttacked
<1>1. TypeInv /\ BackupsOwn /\ AllCounted /\ LockedMeansAttacked /\ [Next]_vars
        => BackupsOwn' /\ AllCounted' /\ LockedMeansAttacked'
  BY NextOwn, NextCounted, NextLocked
<1> QED
  BY <1>1, InitType, NextType, InitOwn, InitCounted, InitLocked, PTL DEF Spec

-----------------------------------------------------------------------------
\* No command fails and the application writes nothing: the assumptions of what follows.
Undisturbed == DisjointPatterns /\ ~CommandsMayFail /\ MaxAppWrites = 0

\* The backup phase may pass over a key, but only over one that is gone for good.
Safe(a, k) == k \in BackedUp(a) \/ redis[k] = Absent

\* ModifiedKeysBackedUp, made inductive; the parts that need the extension not to have
\* restarted are there for OriginalsAfterAttacks.
BackedUpFirst(a) ==
    /\ touched[a] \subseteq KeysOf(a)
    /\ pc[a] \in {"new", "prepared", "get", "ttl", "lock"} => touched[a] = {}
    /\ pc[a] = "failed" /\ restarts = 0 => touched[a] = {}
    /\ a \in restoreOnStop =>
         /\ pc[a] \in {"get", "ttl"} => \A i \in 1 .. (pos[a] - 1) : Safe(a, matchedKeys[a][i])
         /\ pc[a] \in {"lock", "expire"} => \A k \in KeysOf(a) : Safe(a, k)
         /\ Attacking(a) => touched[a] \subseteq BackedUp(a)
         /\ pc[a] = "stopped" =>
              touched[a] \subseteq BackedUp(a) \/ (BackedUp(a) = {} /\ restarts # 0)
         /\ pc[a] = "stopped" /\ BackedUp(a) # {} /\ restarts = 0 =>
              report[a] \in {"restored", "error"}

AllBackedUpFirst == \A a \in Attacks : BackedUpFirst(a)

LEMMA InitBackedUpFirst == Init => AllBackedUpFirst
BY DEF Init, AllBackedUpFirst, BackedUpFirst, Attacking

LEMMA NoAppSet ==
    ASSUME MaxAppWrites = 0, TypeInv, [Next]_vars
    PROVE  (\A k \in Keys : ~AppSet(k)) /\ appWrites' = appWrites
<1>1. ASSUME NEW k \in Keys PROVE ~AppSet(k)
  BY RedisSteps DEF AppSet
<1> QED
  BY <1>1, RedisSteps

\* No restart is forgotten.
LEMMA RestartsStay ==
    ASSUME TypeInv, [Next]_vars, restarts # 0
    PROVE  restarts' # 0
<1>1. restarts' = restarts \/ restarts' = restarts + 1
  BY DEF Next, Prepare, StartStep, StartPing, BackupGet, BackupTTL, LockKeys, Expire, Stop, StopStep,
         RestoreExists, RestoreWrite, StopReturn, Elapse, AppSet, Restart, environment, vars
<1> QED
  BY <1>1 DEF TypeInv, TypeOK, SharedType

LEMMA SafeKept ==
    ASSUME Undisturbed, TypeInv, BackupsOwn, [Next]_vars, NEW a \in Attacks,
           pc[a] \in {"get", "ttl", "lock", "expire"}, pc'[a] # "failed",
           NEW k \in KeysOf(a), Safe(a, k)
    PROVE  Safe(a, k)'
<1>1. k \in Keys /\ redis[k] \in Entry \cup {Absent} /\ AttackTTL \in Int
  BY TTLAssumption DEF KeysOf, TypeInv, TypeOK, SharedType, StateType
<1>2. CASE k \in BackedUp(a)
  <2>1. backupData[a] \in [Keys -> Entry \cup {Absent}] /\ backupData'[a][k] \in Entry \cup {Absent}
    BY <1>1, NextType DEF TypeInv, TypeOK, StateType
  <2>2. CASE BackupsKept(a)
    BY <1>2, <2>2 DEF BackupsKept, Safe, BackedUp
  <2>3. CASE BackupAdded(a)
    <3>1. PICK ttl \in -1 .. MaxTTL :
             backupData'[a] = [backupData[a] EXCEPT ![Key(a)] = [val |-> value[a], ttl |-> ttl]]
      BY <2>3 DEF BackupAdded
    <3>2. [val |-> value[a], ttl |-> ttl] # Absent
      BY <2>3, TTLAssumption DEF Absent, BackupAdded
    <3>3. backupData'[a][k] # Absent
      BY <1>1, <1>2, <2>1, <3>1, <3>2 DEF BackedUp
    <3> QED
      BY <1>1, <3>3 DEF Safe, BackedUp
  <2> QED
    BY <2>2, <2>3, BackupSteps DEF BackupsDropped
<1>3. CASE redis[k] = Absent
  <2>1. CASE redis'[k] = redis[k]
    BY <1>3, <2>1 DEF Safe
  <2>2. ~Aged(k)
    BY <1>3 DEF Aged, Absent
  <2>3. ~SetByApp(k)
    BY NoAppSet, RedisSteps DEF SetByApp, Undisturbed
  <2>4. CASE Shortened(k)
    BY <1>3, <2>4 DEF Shortened, Safe, WithTTL
  <2>5. ~PutBack(k)
    BY WritesOwn, KeysApart DEF PutBack, Undisturbed
  <2> QED
    BY <1>1, <2>1, <2>2, <2>3, <2>4, <2>5, RedisSteps
<1> QED
  BY <1>2, <1>3 DEF Safe

LEMMA NextBackedUpFirst ==
    ASSUME Undisturbed, TypeInv, BackupsOwn, AllBackedUpFirst, [Next]_vars
    PROVE  AllBackedUpFirst'
<1> SUFFICES ASSUME NEW a \in Attacks PROVE BackedUpFirst(a)'
  BY DEF AllBackedUpFirst
<1> USE DEF TypeInv, TypeOK, StateType, StartType, StopType, HistoryType, persisted, startLocals,
            stopLocals, history
<1>0. BackedUpFirst(a)
  BY DEF AllBackedUpFirst
<1>r. restarts # 0 => restarts' # 0
  BY RestartsStay
<1>1. ASSUME pc[a] \in {"lock", "expire", "running", "restore", "stopped"}, pc'[a] # "failed"
      PROVE  BackedUp(a)' = BackedUp(a)
  BY <1>1, BackupSteps DEF BackupsKept, BackupAdded, BackupsDropped, BackedUp
<1>2. ASSUME pc'[a] = pc[a], pos'[a] = pos[a], matchedKeys'[a] = matchedKeys[a],
             touched'[a] = touched[a], report'[a] = report[a],
             a \in restoreOnStop' <=> a \in restoreOnStop
      PROVE  BackedUpFirst(a)'
  <2>1. KeysOf(a)' = KeysOf(a)
    BY <1>2 DEF KeysOf
  <2>2. \A i \in 1 .. Len(matchedKeys[a]) : matchedKeys[a][i] \in KeysOf(a)
    BY DEF KeysOf
  <2>3. ASSUME pc[a] \in {"get", "ttl", "lock", "expire"}, NEW k \in KeysOf(a), Safe(a, k)
        PROVE  Safe(a, k)'
    BY <1>2, <2>3, SafeKept
  <2>4. ASSUME pc[a] \in {"get", "ttl"}, NEW i \in 1 .. (pos[a] - 1), Safe(a, matchedKeys[a][i])
        PROVE  Safe(a, matchedKeys[a][i])'
    <3>1. i \in 1 .. Len(matchedKeys[a]) /\ matchedKeys'[a][i] = matchedKeys[a][i]
      BY <1>2, <2>4 DEF InStart
    <3>2. PICK k : k = matchedKeys[a][i]
      OBVIOUS
    <3>3. k \in KeysOf(a) /\ Safe(a, k)
      BY <2>2, <2>4, <3>1, <3>2
    <3>4. Safe(a, k)'
      BY <2>3, <2>4, <3>3
    <3> QED
      BY <3>1, <3>2, <3>4 DEF Safe
  <2>5. pc[a] \in {"get", "ttl"} /\ a \in restoreOnStop =>
          \A i \in 1 .. (pos[a] - 1) : Safe(a, matchedKeys[a][i])'
    BY <1>0, <1>r, <2>4 DEF BackedUpFirst
  <2>6. pc[a] \in {"lock", "expire"} /\ a \in restoreOnStop => \A k \in KeysOf(a) : Safe(a, k)'
    BY <1>0, <1>r, <2>3 DEF BackedUpFirst
  <2> QED
    BY <1>0, <1>r, <1>1, <1>2, <2>1, <2>5, <2>6 DEF BackedUpFirst, Attacking
<1>3. ASSUME NEW b \in Attacks, a # b, Prepare(b) \/ StartStep(b) \/ Stop(b) \/ StopStep(b)
      PROVE  BackedUpFirst(a)'
  BY <1>2, <1>3, OthersKeep
<1>4. ASSUME Prepare(a) PROVE BackedUpFirst(a)'
  BY <1>0, <1>r, <1>4 DEF Prepare, BackedUpFirst, Attacking
<1>5. ASSUME StartError(a), pc[a] \in {"prepared", "get", "lock"}, touched' = touched
      PROVE  BackedUpFirst(a)'
  BY <1>0, <1>r, <1>5 DEF StartError, BackedUpFirst, Attacking
<1>6. ASSUME StartPing(a) PROVE BackedUpFirst(a)'
  <2>1. CASE pc' = [pc EXCEPT ![a] = IF a \in restoreOnStop THEN "get" ELSE "lock"]
             /\ UNCHANGED <<lockedKeys, persisted, startLocals>>
    <3>1. /\ pc'[a] = (IF a \in restoreOnStop THEN "get" ELSE "lock") /\ pos'[a] = 1
          /\ touched'[a] = {} /\ restoreOnStop' = restoreOnStop
      BY <1>0, <1>r, <1>6, <2>1 DEF StartPing, Ready, BackedUpFirst
    <3> QED
      BY <3>1 DEF BackedUpFirst, Attacking
  <2> QED
    BY <1>5, <1>6, <2>1 DEF StartPing
<1>7. ASSUME NextBackup(a), matchedKeys' = matchedKeys, restoreOnStop' = restoreOnStop,
             touched' = touched, pc[a] \in {"get", "ttl"},
             a \in restoreOnStop =>
               /\ \A i \in 1 .. (pos[a] - 1) : Safe(a, matchedKeys[a][i])'
               /\ \A k \in {Key(a)} : Safe(a, k)'
      PROVE  BackedUpFirst(a)'
  <2>1. touched'[a] = {} /\ KeysOf(a)' = KeysOf(a)
    BY <1>0, <1>r, <1>7 DEF BackedUpFirst, KeysOf
  <2>2. ASSUME a \in restoreOnStop, NEW i \in 1 .. pos[a] PROVE Safe(a, matchedKeys[a][i])'
    <3>1. CASE i = pos[a]
      <4>1. PICK k : k = Key(a)
        OBVIOUS
      <4>2. Safe(a, k)' /\ matchedKeys'[a][i] = k
        BY <1>7, <2>2, <3>1, <4>1 DEF Key
      <4> QED
        BY <4>2 DEF Safe
    <3>2. CASE i # pos[a]
      BY <1>7, <2>2, <3>2
    <3> QED
      BY <3>1, <3>2
  <2>3. CASE LastKey(a)
    <3>1. pc'[a] = "lock"
      BY <1>7, <2>3 DEF NextBackup
    <3>2. a \in restoreOnStop => \A k \in KeysOf(a)' : Safe(a, k)'
      <4>1. \A i \in DOMAIN matchedKeys[a] : i \in 1 .. pos[a]
        BY <2>3 DEF LastKey
      <4>2. \A i \in DOMAIN matchedKeys[a] : matchedKeys'[a][i] = matchedKeys[a][i]
        BY <1>7
      <4> QED
        BY <1>7, <2>1, <2>2, <4>1, <4>2 DEF KeysOf, Safe
    <3> QED
      BY <1>7, <2>1, <3>1, <3>2 DEF BackedUpFirst, Attacking
  <2>4. CASE ~LastKey(a)
    <3>1. pc'[a] = "get" /\ pos'[a] = pos[a] + 1
      BY <1>7, <2>4 DEF NextBackup
    <3>2. pos'[a] - 1 = pos[a]
      BY <3>1
    <3> QED
      BY <1>7, <2>1, <2>2, <3>1, <3>2 DEF BackedUpFirst, Attacking
  <2> QED
    BY <2>3, <2>4
<1>8. ASSUME pc[a] \in {"get", "ttl"}, pc'[a] # "failed", matchedKeys' = matchedKeys,
             a \in restoreOnStop, NEW i \in 1 .. (pos[a] - 1)
      PROVE  Safe(a, matchedKeys[a][i])'
  <2>1. i \in 1 .. (pos[a] - 1) /\ i \in 1 .. Len(matchedKeys[a])
    BY <1>8 DEF InStart
  <2>2. PICK k : k = matchedKeys[a][i]
    OBVIOUS
  <2>3. k \in KeysOf(a) /\ Safe(a, k)
    BY <1>0, <1>r, <1>8, <2>1, <2>2 DEF BackedUpFirst, KeysOf
  <2>4. Safe(a, k)' /\ matchedKeys'[a][i] = k
    BY <1>8, <2>2, <2>3, SafeKept
  <2> QED
    BY <2>4 DEF Safe
<1>9. ASSUME BackupGet(a) PROVE BackedUpFirst(a)'
  <2>1. CASE StartError(a)
    BY <1>5, <1>9, <2>1 DEF BackupGet
  <2>2. CASE pc' = [pc EXCEPT ![a] = "ttl"]
             /\ UNCHANGED <<lockedKeys, restoreOnStop, matchedKeys, affectedKeys, backupData, pos>>
    <3>1. /\ pc[a] = "get" /\ pc'[a] = "ttl" /\ touched' = touched
          /\ KeysOf(a)' = KeysOf(a)
      BY <1>9, <2>2 DEF BackupGet, KeysOf
    <3>2. a \in restoreOnStop => \A i \in 1 .. (pos[a] - 1) : Safe(a, matchedKeys[a][i])'
      BY <1>8, <2>2, <3>1
    <3> QED
      BY <1>0, <1>r, <2>2, <3>1, <3>2 DEF BackedUpFirst, Attacking
  <2>3. CASE redis[Key(a)] = Absent /\ NextBackup(a) /\ UNCHANGED <<lockedKeys, persisted>>
    <3>1. pc[a] = "get" /\ pc'[a] # "failed" /\ redis' = redis /\ touched' = touched
      BY <1>9, <2>3 DEF BackupGet, NextBackup
    <3>2. \A k \in {Key(a)} : Safe(a, k)'
      BY <2>3, <3>1 DEF Safe
    <3> QED
      BY <1>7, <1>8, <2>3, <3>1, <3>2
  <2> QED
    BY <1>9, <2>1, <2>2, <2>3 DEF BackupGet, Undisturbed
<1>10. ASSUME BackupTTL(a) PROVE BackedUpFirst(a)'
  <2>1. PICK ttl \in -1 .. MaxTTL :
           backupData' = [backupData EXCEPT ![a][Key(a)] = [val |-> value[a], ttl |-> ttl]]
    BY <1>10 DEF BackupTTL
  <2>2. /\ pc[a] = "ttl" /\ pc'[a] # "failed" /\ NextBackup(a) /\ matchedKeys' = matchedKeys
        /\ restoreOnStop' = restoreOnStop /\ touched' = touched
    BY <1>10 DEF BackupTTL, NextBackup
  <2>3. Key(a) \in Keys
    BY <2>2, KeyType DEF InStart
  <2>4. backupData'[a][Key(a)] = [val |-> value[a], ttl |-> ttl]
    BY <2>1, <2>3
  <2>5. [val |-> value[a], ttl |-> ttl] # Absent
    BY TTLAssumption DEF Absent
  <2>6. \A k \in {Key(a)} : Safe(a, k)'
    BY <2>3, <2>4, <2>5 DEF Safe, BackedUp
  <2> QED
    BY <1>7, <1>8, <2>2, <2>6
<1>11. ASSUME LockKeys(a) PROVE BackedUpFirst(a)'
  <2>1. CASE pc' = [pc EXCEPT ![a] = "expire"] /\ UNCHANGED <<persisted, startLocals>>
    <3>1. /\ pc[a] = "lock" /\ pc'[a] = "expire" /\ touched' = touched /\ redis' = redis
          /\ KeysOf(a)' = KeysOf(a) /\ BackedUp(a)' = BackedUp(a)
      BY <1>11, <2>1 DEF LockKeys, KeysOf, BackedUp
    <3>2. \A k \in KeysOf(a) : Safe(a, k) => Safe(a, k)'
      BY <3>1 DEF Safe
    <3> QED
      BY <1>0, <1>r, <2>1, <3>1, <3>2 DEF BackedUpFirst, Attacking
  <2> QED
    BY <1>5, <1>11, <2>1 DEF LockKeys
<1>12. ASSUME Expire(a) PROVE BackedUpFirst(a)'
  <2>1. /\ pc[a] = "expire" /\ pc'[a] \in {"running", "expire"} /\ restoreOnStop' = restoreOnStop
        /\ KeysOf(a)' = KeysOf(a)
    BY <1>12 DEF Expire, KeysOf
  <2>2. touched'[a] = (IF redis[Key(a)] = Absent THEN touched[a] ELSE touched[a] \cup {Key(a)})
    BY <1>12 DEF Expire
  <2>3. BackedUp(a)' = BackedUp(a) /\ Key(a) \in KeysOf(a)
    BY <1>1, <1>12, <2>1, WritesOwn
  <2>4. a \in restoreOnStop => Safe(a, Key(a)) /\ \A k \in KeysOf(a) : Safe(a, k)'
    BY <1>0, <1>r, <2>1, <2>3, SafeKept DEF BackedUpFirst
  <2>5. a \in restoreOnStop => touched'[a] \subseteq BackedUp(a)
    BY <1>0, <1>r, <2>1, <2>2, <2>4 DEF BackedUpFirst, Safe, Attacking
  <2>6. touched'[a] \subseteq KeysOf(a)
    BY <1>0, <1>r, <2>2, <2>3 DEF BackedUpFirst
  <2> QED
    BY <2>1, <2>3, <2>4, <2>5, <2>6 DEF BackedUpFirst, Attacking
<1>13. ASSUME Stop(a) \/ StopReturn(a) PROVE BackedUpFirst(a)'
  <2>1. UNCHANGED persisted /\ touched' = touched
    BY <1>13 DEF Stop, StopReturn
  <2>2. BackedUp(a)' = BackedUp(a) /\ KeysOf(a)' = KeysOf(a) /\ restoreOnStop' = restoreOnStop
    BY <2>1 DEF BackedUp, KeysOf
  <2>3. /\ pc[a] \in {"prepared", "failed", "running", "stopped", "restore"}
        /\ pc'[a] \in {"restore", "stopped"} /\ (pc'[a] = "restore" => BackedUp(a) # {})
    BY <1>13 DEF Stop, StopReturn, StopAnswer
  <2>4. pc[a] \in {"prepared", "failed"} => BackedUp(a) = {}
    BY DEF BackupsOwn
  <2>5. pc'[a] = "stopped" /\ BackedUp(a) # {} /\ a \in restoreOnStop =>
          report'[a] \in {"restored", "error"}
    BY <1>13 DEF Stop, StopReturn, StopAnswer, Undisturbed
  <2> QED
    BY <1>0, <1>r, <2>1, <2>2, <2>3, <2>4, <2>5 DEF BackedUpFirst, Attacking
<1>14. ASSUME NEW k \in Keys, RestoreExists(a, k) PROVE BackedUpFirst(a)'
  BY <1>2, <1>14 DEF RestoreExists
<1>15. ASSUME RestoreWrite(a) PROVE BackedUpFirst(a)'
  BY <1>2, <1>15 DEF RestoreWrite
<1>16. ASSUME NEW k \in Keys, Elapse(k) \/ AppSet(k) PROVE BackedUpFirst(a)'
  BY <1>2, <1>16 DEF Elapse, AppSet
<1>17. ASSUME Restart PROVE BackedUpFirst(a)'
  <2>1. restarts' # 0 /\ touched' = touched /\ restoreOnStop' = restoreOnStop
    BY <1>17, RestartsStay DEF Restart, SharedType
  <2>2. KeysOf(a)' = KeysOf(a)
    BY <1>17 DEF Restart, KeysOf
  <2>3. CASE InStart(a)
    <3>1. pc'[a] = "failed"
      BY <1>17, <2>3 DEF Restart, InStart
    <3> QED
      BY <1>0, <1>r, <2>1, <2>2, <3>1 DEF BackedUpFirst, Attacking
  <2>4. CASE ~InStart(a)
    <3>1. /\ pc'[a] = pc[a] \/ (pc[a] = "restore" /\ pc'[a] \in {"running", "stopped"})
          /\ BackedUp(a)' = BackedUp(a)
      BY <1>17, <2>4 DEF Restart, BackedUp
    <3> QED
      BY <1>0, <1>r, <2>1, <2>2, <2>4, <3>1 DEF BackedUpFirst, Attacking, InStart
  <2> QED
    BY <2>3, <2>4
<1>18. ASSUME UNCHANGED vars PROVE BackedUpFirst(a)'
  BY <1>2, <1>18 DEF vars
<1> QED
  BY <1>3, <1>4, <1>6, <1>9, <1>10, <1>11, <1>12, <1>13, <1>14, <1>15, <1>16, <1>17, <1>18
  DEF Next, StartStep, StopStep

\* When no command fails, no two executions match a key in common and the application writes
\* nothing, an execution that restores on Stop has a backup of every key it modified.
THEOREM BackedUpBeforeModified ==
    ASSUME Undisturbed
    PROVE  Spec => []ModifiedKeysBackedUp
<1>1. AllBackedUpFirst => ModifiedKeysBackedUp
  BY DEF AllBackedUpFirst, BackedUpFirst, ModifiedKeysBackedUp
<1>2. TypeInv /\ BackupsOwn /\ AllBackedUpFirst /\ [Next]_vars => BackupsOwn' /\ AllBackedUpFirst'
  BY NextOwn, NextBackedUpFirst
<1> QED
  BY <1>1, <1>2, InitType, NextType, InitOwn, InitBackedUpFirst, PTL DEF Spec

-----------------------------------------------------------------------------
\* Until an execution touches it, a key that lasts is what it was in the beginning, and the
\* backups of such keys say that they last.
Untouched(k) == \A a \in Attacks : k \notin touched[a]

LastingKept ==
    /\ \A k \in Keys : InitEntry[k].ttl = -1 /\ Untouched(k) => redis[k] = InitEntry[k]
    /\ \A a \in Attacks : \A k \in BackedUp(a) : InitEntry[k].ttl = -1 => backupData[a][k].ttl = -1

LEMMA InitLasting == Init => LastingKept
BY DEF Init, LastingKept, BackedUp, NoBackups

\* No key is ever taken off the record of the touched ones.
LEMMA TouchedStays ==
    ASSUME TypeInv, [Next]_vars, NEW a \in Attacks
    PROVE  touched[a] \subseteq touched'[a]
<1> USE DEF TypeInv, TypeOK, HistoryType, history
<1>1. ASSUME NEW b \in Attacks, Prepare(b) \/ StartStep(b) \/ Stop(b) \/ StopStep(b)
      PROVE  touched[a] \subseteq touched'[a]
  BY <1>1 DEF Prepare, StartStep, StartPing, BackupGet, BackupTTL, LockKeys, Expire, Stop,
              StopStep, RestoreExists, RestoreWrite, StopReturn
<1>2. ASSUME NEW k \in Keys, Elapse(k) \/ AppSet(k) PROVE touched' = touched
  BY <1>2 DEF Elapse, AppSet
<1> QED
  BY <1>1, <1>2 DEF Next, Restart, vars

\* Entries that agree on value and TTL are equal.
LEMMA EntriesEqual ==
    ASSUME NEW e \in Entry, NEW f \in Entry, e.val = f.val, e.ttl = f.ttl
    PROVE  e = f
BY DEF Entry

\* Restoring a lasting key that is as its backup says changes nothing.
LEMMA RestoredSame ==
    ASSUME NEW backup \in Entry, backup.ttl = -1, NEW existed \in {"present", "missing"}
    PROVE  Restored(backup, existed, backup) = backup
<1>1. backup # Absent
  BY EntryNotAbsent
<1>2. [backup EXCEPT !.ttl = -1] = backup
  BY DEF Entry
<1> QED
  BY <1>1, <1>2 DEF Restored, WithTTL

LEMMA NextLasting ==
    ASSUME Undisturbed, TypeInv, BackupsOwn, OriginalValues, appWrites = 0, AllBackedUpFirst,
           LastingKept, [Next]_vars
    PROVE  LastingKept'
<1>0. redis \in [Keys -> Entry \cup {Absent}] /\ InitEntry \in [Keys -> Entry]
  BY EntryAssumption DEF TypeInv, TypeOK, SharedType
<1>1. ASSUME NEW k \in Keys, InitEntry[k].ttl = -1, Untouched(k)'
      PROVE  redis'[k] = InitEntry[k]
  <2>1. redis[k] = InitEntry[k] /\ InitEntry[k] \in Entry
    BY <1>0, <1>1, TouchedStays DEF LastingKept, Untouched
  <2>2. ~Aged(k) /\ ~SetByApp(k)
    BY <1>1, <2>1, NoAppSet, RedisSteps DEF Aged, SetByApp, Undisturbed
  <2>3. ~Shortened(k)
    <3>1. ASSUME NEW a \in Attacks, Expire(a), k = Key(a) PROVE k \in touched'[a]
      BY <2>1, <3>1, EntryNotAbsent DEF Expire, TypeInv, TypeOK, HistoryType
    <3> QED
      BY <1>1, <3>1 DEF Shortened, Untouched
  <2>4. CASE PutBack(k)
    <3>1. PICK a \in Attacks : /\ RestoreWrite(a) /\ k = probe[a][1]
                               /\ redis'[k] = Restored(backupData[a][k], probe[a][2], redis[k])
      BY <2>4 DEF PutBack
    <3>2. k \in BackedUp(a) /\ probe[a][2] \in {"present", "missing"}
      BY <3>1, WritesOwn
    <3>3. /\ backupData[a][k] \in Entry /\ backupData[a][k].ttl = -1
          /\ backupData[a][k].val = InitEntry[k].val
      BY <1>1, <3>2 DEF OriginalValues, LastingKept, BackedUp, TypeInv, TypeOK, StateType
    <3>4. backupData[a][k] = InitEntry[k]
      BY <1>1, <2>1, <3>3, EntriesEqual
    <3> QED
      BY <1>1, <2>1, <3>1, <3>2, <3>4, RestoredSame
  <2> QED
    BY <2>1, <2>2, <2>3, <2>4, RedisSteps
<1>2. ASSUME NEW a \in Attacks, NEW k \in BackedUp(a)', InitEntry[k].ttl = -1
      PROVE  backupData'[a][k].ttl = -1
  <2>1. CASE BackupsKept(a)
    BY <1>2, <2>1 DEF BackupsKept, BackedUp, LastingKept
  <2>2. CASE BackupAdded(a)
    <3>1. PICK ttl \in -1 .. MaxTTL :
             /\ ttl = StoredTTL(redis[Key(a)].ttl)
             /\ backupData'[a] = [backupData[a] EXCEPT ![Key(a)] = [val |-> value[a], ttl |-> ttl]]
      BY <2>2 DEF BackupAdded, Undisturbed
    <3>2. backupData[a] \in [Keys -> Entry \cup {Absent}] /\ k \in Keys
      BY <1>2 DEF TypeInv, TypeOK, StateType, BackedUp
    <3>3. CASE k = Key(a)
      <4>1. Untouched(k)
        <5>1. touched[a] = {} /\ k \in KeysOf(a)
          BY <2>2, <3>3 DEF BackupAdded, AllBackedUpFirst, BackedUpFirst
        <5>2. \A b \in Attacks \ {a} : k \notin touched[b]
          BY <5>1, KeysApart DEF AllBackedUpFirst, BackedUpFirst, Undisturbed
        <5> QED
          BY <5>1, <5>2 DEF Untouched
      <4>2. redis[k].ttl = -1
        BY <1>2, <3>2, <4>1 DEF LastingKept
      <4>3. ttl = -1
        BY <3>1, <3>3, <4>2 DEF StoredTTL
      <4> QED
        BY <3>1, <3>2, <3>3, <4>3
    <3>4. CASE k # Key(a)
      BY <1>2, <3>1, <3>2, <3>4 DEF BackedUp, LastingKept
    <3> QED
      BY <3>3, <3>4
  <2>3. CASE BackupsDropped(a)
    BY <1>2, <2>3 DEF BackupsDropped, BackedUp, NoBackups
  <2> QED
    BY <2>1, <2>2, <2>3, BackupSteps
<1> QED
  BY <1>1, <1>2 DEF LastingKept

LEMMA OriginalsBack ==
    ASSUME Undisturbed, TypeInv, BackupsOwn, OriginalValues, appWrites = 0, RestoredInv,
           AllBackedUpFirst, LastingKept
    PROVE  OriginalsAfterAttacks
<1> SUFFICES ASSUME restarts = 0,
                    \A a \in Attacks : pc[a] \in {"new", "failed", "stopped"},
                    \A a \in Attacks : a \in restoreOnStop \/ touched[a] = {},
                    \A a \in Attacks : report[a] \notin {"error", "warned"} /\ ignored[a] = {},
                    NEW k \in Keys, InitEntry[k].ttl = -1
             PROVE  redis[k] = InitEntry[k]
  BY DEF OriginalsAfterAttacks
<1>1. CASE Untouched(k)
  BY <1>1 DEF LastingKept
<1>2. CASE ~Untouched(k)
  <2>1. PICK a \in Attacks : k \in touched[a]
    BY <1>2 DEF Untouched
  <2>2. a \in restoreOnStop /\ pc[a] = "stopped"
    BY <2>1 DEF AllBackedUpFirst, BackedUpFirst
  <2>3. k \in BackedUp(a) /\ report[a] = "restored"
    BY <2>1, <2>2 DEF AllBackedUpFirst, BackedUpFirst
  <2>4. backupData[a][k].ttl = -1 /\ backupData[a][k].val = InitEntry[k].val
    BY <2>3 DEF LastingKept, OriginalValues
  <2>a. Alone(a, k)
    BY <2>1, KeysApart DEF AllBackedUpFirst, BackedUpFirst, Alone, Undisturbed
  <2>5. redis[k].ttl = -1 /\ redis[k].val = InitEntry[k].val
    BY <2>3, <2>4, <2>a DEF RestoredInv, RestoreProgress, Good
  <2>6. redis[k] \in Entry /\ InitEntry[k] \in Entry
    BY <2>5, EntryAssumption DEF TypeInv, TypeOK, SharedType, Absent
  <2> QED
    BY <2>5, <2>6, EntriesEqual
<1> QED
  BY <1>1, <1>2

\* Unless the extension has restarted, the keys without expiry are as they were before the
\* first attack once all attacks are over: what CacheRestore checks of two executions holds of
\* any number of them, with any keys, patterns and repeated Stops.
THEOREM OriginalsRestored ==
    ASSUME Undisturbed
    PROVE  Spec => []OriginalsAfterAttacks
<1> DEFINE Inv == /\ TypeInv /\ BackupsOwn /\ OriginalValues /\ RestoredInv
                  /\ AllBackedUpFirst /\ LastingKept /\ appWrites = 0
<1>1. Init => Inv
  BY InitType, InitOwn, InitValues, InitRestored, InitBackedUpFirst, InitLasting DEF Init
<1>2. Inv /\ [Next]_vars => Inv'
  BY NextType, NextOwn, NextValues, NextRestored, NextBackedUpFirst, NextLasting, NoAppSet
  DEF Undisturbed
<1>3. Inv => OriginalsAfterAttacks
  BY OriginalsBack
<1> HIDE DEF Inv
<1> QED
  BY <1>1, <1>2, <1>3, PTL DEF Spec

-----------------------------------------------------------------------------
\* Where an execution is whose Start answered without an error.
AfterStart == {"running", "restore", "stopped"}

\* As long as the application does not write, a key that had an expiry in the beginning
\* and lives on without one was left so by a Stop, from a backup without a positive TTL:
\* less than a second was left when it was backed up, or the TTL command failed, or the key
\* expired between GET and TTL, which the code all stores as "no expiry".
ExpiryLost ==
    \A k \in Keys : appWrites = 0 /\ InitEntry[k].ttl # -1 /\ redis[k].ttl = -1 =>
        \E a \in Attacks : /\ pc[a] \in AfterStart
                           /\ k \in BackedUp(a) /\ backupData[a][k].ttl <= 0

LEMMA InitExpiryLost == Init => ExpiryLost
BY DEF Init, ExpiryLost

\* An execution whose Start answered without an error stays so, with its backups.
LEMMA StaysStarted ==
    ASSUME TypeInv, [Next]_vars, NEW a \in Attacks, pc[a] \in AfterStart
    PROVE  pc'[a] \in AfterStart /\ backupData'[a] = backupData[a]
<1> USE DEF TypeInv, TypeOK, StateType
<1>1. ASSUME NEW b \in Attacks, NEW q, pc' = [pc EXCEPT ![b] = q],
             q \in AfterStart \/ pc[b] \notin AfterStart
      PROVE  pc'[a] \in AfterStart
  BY <1>1
<1>2. ASSUME NEW b \in Attacks, Prepare(b) \/ StartPing(b) PROVE pc'[a] \in AfterStart
  BY <1>1, <1>2 DEF Prepare, StartPing, StartError, AfterStart
<1>3. ASSUME NEW b \in Attacks, BackupGet(b) \/ BackupTTL(b) PROVE pc'[a] \in AfterStart
  BY <1>1, <1>3 DEF BackupGet, BackupTTL, NextBackup, StartError, AfterStart
<1>4. ASSUME NEW b \in Attacks, LockKeys(b) \/ Expire(b) PROVE pc'[a] \in AfterStart
  BY <1>1, <1>4 DEF LockKeys, Expire, StartError, AfterStart
<1>5. ASSUME NEW b \in Attacks, Stop(b) \/ StopReturn(b) PROVE pc'[a] \in AfterStart
  BY <1>1, <1>5 DEF Stop, StopReturn, StopAnswer, AfterStart
<1>6. ASSUME NEW b \in Attacks, RestoreWrite(b) \/ \E k \in Keys : RestoreExists(b, k)
      PROVE  pc'[a] \in AfterStart
  BY <1>6 DEF RestoreWrite, RestoreExists
<1>7. ASSUME NEW k \in Keys, Elapse(k) \/ AppSet(k) PROVE pc'[a] \in AfterStart
  BY <1>7 DEF Elapse, AppSet
<1>8. ASSUME Restart PROVE pc'[a] \in AfterStart
  <2>1. pc'[a] = pc[a] \/ pc'[a] \in {"running", "stopped"}
    BY <1>8 DEF Restart, InStart, AfterStart
  <2> QED
    BY <2>1 DEF AfterStart
<1>9. UNCHANGED vars => pc'[a] \in AfterStart
  BY DEF vars
<1>10. pc'[a] \in AfterStart
  BY <1>2, <1>3, <1>4, <1>5, <1>6, <1>7, <1>8, <1>9 DEF Next, StartStep, StopStep
<1>11. BackupsKept(a)
  BY <1>10, BackupSteps DEF BackupAdded, BackupsDropped, AfterStart
<1> QED
  BY <1>10, <1>11 DEF BackupsKept

\* Stop leaves a key without expiry only if the backup tells it no positive TTL.
LEMMA RestoredTTL ==
    ASSUME NEW backup \in Entry, NEW existed \in {"present", "missing"},
           NEW entry \in Entry \cup {Absent},
           Restored(backup, existed, entry).ttl = -1, entry.ttl # -1
    PROVE  backup.ttl <= 0
<1> SUFFICES ASSUME backup.ttl > 0 PROVE FALSE
  BY TTLAssumption DEF Entry
<1>0. backup.ttl \in Int
  BY TTLAssumption DEF Entry
<1>1. CASE existed = "present"
  <2>1. Restored(backup, existed, entry) = WithTTL(entry, backup.ttl)
    BY <1>0, <1>1 DEF Restored
  <2> QED
    BY <1>0, <2>1, WithTTLValue DEF Absent
<1>2. CASE existed = "missing"
  <2>1. Restored(backup, existed, entry).ttl = backup.ttl
    BY <1>0, <1>2 DEF Restored, Entry
  <2> QED
    BY <1>0, <2>1
<1> QED
  BY <1>1, <1>2

LEMMA NextExpiryLost == TypeInv /\ BackupsOwn /\ ExpiryLost /\ [Next]_vars => ExpiryLost'
<1> SUFFICES ASSUME TypeInv, BackupsOwn, ExpiryLost, [Next]_vars, NEW k \in Keys,
                    appWrites' = 0, InitEntry[k].ttl # -1, redis'[k].ttl = -1
             PROVE  \E a \in Attacks : /\ pc'[a] \in AfterStart
                                       /\ k \in BackedUp(a)' /\ backupData'[a][k].ttl <= 0
  BY DEF ExpiryLost
<1>0. appWrites = 0 /\ redis[k] \in Entry \cup {Absent}
  BY RedisSteps DEF TypeInv, TypeOK, SharedType
<1>1. ASSUME NEW a \in Attacks, pc[a] \in AfterStart, k \in BackedUp(a), backupData[a][k].ttl <= 0
      PROVE  pc'[a] \in AfterStart /\ k \in BackedUp(a)' /\ backupData'[a][k].ttl <= 0
  BY <1>1, StaysStarted DEF BackedUp
<1>2. CASE redis[k].ttl = -1
  BY <1>0, <1>1, <1>2 DEF ExpiryLost
<1>3. CASE redis[k].ttl # -1
  <2>1. redis'[k] # redis[k] /\ ~Aged(k) /\ ~SetByApp(k)
    BY <1>0, <1>3 DEF Aged, SetByApp, Absent
  <2>2. ~Shortened(k)
    <3>1. AttackTTL \in Int /\ AttackTTL # -1
      BY TTLAssumption
    <3> QED
      BY <1>0, <3>1, WithTTLValue DEF Shortened, Absent
  <2>3. PICK a \in Attacks : /\ RestoreWrite(a) /\ k = probe[a][1]
                             /\ redis'[k] = Restored(backupData[a][k], probe[a][2], redis[k])
    BY <2>1, <2>2, RedisSteps DEF PutBack
  <2>4. pc[a] \in AfterStart /\ k \in BackedUp(a) /\ probe[a][2] \in {"present", "missing"}
    BY <2>3, WritesOwn DEF AfterStart
  <2>5. backupData[a][k] \in Entry
    BY <2>4 DEF BackedUp, TypeInv, TypeOK, StateType
  <2>6. backupData[a][k].ttl <= 0
    BY <1>0, <1>3, <2>3, <2>4, <2>5, RestoredTTL
  <2> QED
    BY <1>1, <2>4, <2>6
<1> QED
  BY <1>2, <1>3

\* No key loses its expiry for good unless by way of such a backup, whatever commands fail,
\* however often the extension restarts and a Stop is repeated, and though patterns overlap.
THEOREM ExpiryLostToBackups == Spec => []ExpiryLost
<1> QED
  BY InitType, NextType, InitOwn, NextOwn, InitExpiryLost, NextExpiryLost, PTL DEF Spec

-----------------------------------------------------------------------------
\* Sums over finite sets.  The sum of the library is a recursive function on the subsets of a
\* set; what it computes is shown by taking a smallest set, or number, for which it computes
\* something else.
\* The element the library takes out of a set first.
Pick(s) == CHOOSE x \in s : TRUE

\* g sums f over every subset of S, one chosen element after the other.
IsSum(g, f, S) ==
    g = [s \in SUBSET S |-> IF s = {} THEN 0 ELSE f[Pick(s)] + g[s \ {Pick(s)}]]

Sum(f, S) == (CHOOSE g : IsSum(g, f, S))[S]

LEMMA PickIn == \A s : s # {} => Pick(s) \in s
BY DEF Pick

\* A non-empty set of numbers has a least one.
LEMMA LeastNat ==
    ASSUME NEW T \in SUBSET Nat, T # {}
    PROVE  \E m \in T : \A n \in T : m <= n
<1> DEFINE R == {ss \in Nat \X Nat : ss[1] < ss[2]}
<1>1. R = OpToRel(<, Nat)
  BY DEF OpToRel
<1>2. IsWellFoundedOn(R, Nat)
  BY <1>1, NatLessThanWellFounded
<1>3. \A m, n \in Nat : n < m => <<n, m>> \in R
  OBVIOUS
<1>4. \E m \in T : \A n \in T : ~(<<n, m>> \in R)
  <2> HIDE DEF R
  <2> QED
    BY <1>2, WFMin
<1> HIDE DEF R
<1>5. PICK m \in T : \A n \in T : ~(<<n, m>> \in R)
  BY <1>4
<1>6. \A n \in T : ~(n < m)
  <2> TAKE n \in T
  <2>1. n \in Nat /\ m \in Nat
    OBVIOUS
  <2>2. n < m => <<n, m>> \in R
    BY <1>3, <2>1, Zenon
  <2>3. ~(<<n, m>> \in R)
    BY <1>5, Zenon
  <2> QED
    BY <2>2, <2>3
<1>7. \A n \in T : m <= n
  BY <1>6
<1> QED
  BY <1>7

\* A set of subsets of a finite set has one all of whose strict subsets are not in it.
LEMMA MinimalSubset ==
    ASSUME NEW S, IsFiniteSet(S), NEW B \in SUBSET SUBSET S, B # {}
    PROVE  \E T \in B : \A U \in B : U \subseteq T => U = T
<1>1. IsWellFoundedOn(StrictSubsetOrdering(S), SUBSET S)
  BY FS_StrictSubsetOrderingWellFounded, FS_FiniteSubsetsOfFinite
<1>2. PICK T \in B : \A U \in B : ~(<<U, T>> \in StrictSubsetOrdering(S))
  BY <1>1, WFMin
<1>3. \A U \in B : U \subseteq T /\ U # T => <<U, T>> \in StrictSubsetOrdering(S)
  BY DEF StrictSubsetOrdering
<1>4. \A U \in B : U \subseteq T => U = T
  BY <1>2, <1>3, Zenon
<1> QED
  BY <1>4

\* Over a finite set, the recursion of IsSum has a solution: it is built for the subsets of
\* at most n elements, one n after the other.
Small(S, n) == {s \in SUBSET S : Cardinality(s) <= n}
SumsSmall(g, f, S, n) ==
    g = [s \in Small(S, n) |-> IF s = {} THEN 0 ELSE f[Pick(s)] + g[s \ {Pick(s)}]]

\* A set without its chosen element is a set of one element less.
LEMMA SmallerByOne ==
    ASSUME NEW S, IsFiniteSet(S), NEW s \in SUBSET S, s # {}
    PROVE  /\ s \ {Pick(s)} \in SUBSET S
           /\ Cardinality(s) \in Nat
           /\ Cardinality(s \ {Pick(s)}) = Cardinality(s) - 1
<1>1. IsFiniteSet(s) /\ Pick(s) \in s
  BY FS_Subset, PickIn
<1> QED
  BY <1>1, FS_RemoveElement, FS_CardinalityType

LEMMA SumStep ==
    ASSUME NEW S, IsFiniteSet(S), NEW f, NEW n \in Nat, \E g : SumsSmall(g, f, S, n)
    PROVE  \E g : SumsSmall(g, f, S, n + 1)
<1>1. PICK g : SumsSmall(g, f, S, n)
  OBVIOUS
<1> DEFINE h == [s \in Small(S, n + 1) |->
                   IF s \in Small(S, n) THEN g[s] ELSE f[Pick(s)] + g[s \ {Pick(s)}]]
<1>2. \A s \in Small(S, n + 1) : s # {} => s \ {Pick(s)} \in Small(S, n) /\ s \ {Pick(s)} \in Small(S, n + 1)
  BY SmallerByOne DEF Small
<1>3. {} \in Small(S, n)
  BY FS_EmptySet DEF Small
<1>4. ASSUME NEW s \in Small(S, n + 1), s # {} PROVE h[s] = f[Pick(s)] + h[s \ {Pick(s)}]
  <2>1. h[s \ {Pick(s)}] = g[s \ {Pick(s)}]
    BY <1>2, <1>4
  <2>2. CASE s \in Small(S, n)
    BY <1>1, <1>4, <2>1, <2>2 DEF SumsSmall
  <2>3. CASE s \notin Small(S, n)
    BY <1>4, <2>1, <2>3
  <2> QED
    BY <2>2, <2>3
<1>5. {} \in Small(S, n + 1) => h[{}] = 0
  BY <1>1, <1>3 DEF SumsSmall
<1>6. h = [s \in Small(S, n + 1) |-> h[s]]
  OBVIOUS
<1> HIDE DEF h
<1>7. \A s \in Small(S, n + 1) : h[s] = IF s = {} THEN 0 ELSE f[Pick(s)] + h[s \ {Pick(s)}]
  BY <1>4, <1>5
<1>8. h = [s \in Small(S, n + 1) |-> IF s = {} THEN 0 ELSE f[Pick(s)] + h[s \ {Pick(s)}]]
  BY <1>6, <1>7
<1> QED
  BY <1>8 DEF SumsSmall

LEMMA SumExists ==
    ASSUME NEW S, IsFiniteSet(S), NEW f
    PROVE  \E g : IsSum(g, f, S)
<1> DEFINE Without == {n \in Nat : ~ \E g : SumsSmall(g, f, S, n)}
<1>1. 0 \notin Without
  <2>1. Small(S, 0) = {{}}
    BY FS_EmptySet, FS_Subset, FS_CardinalityType DEF Small
  <2> DEFINE zero == [s \in {{}} |-> 0]
  <2>2. zero = [s \in Small(S, 0) |-> IF s = {} THEN 0 ELSE f[Pick(s)] + zero[s \ {Pick(s)}]]
    BY <2>1
  <2> HIDE DEF zero
  <2> QED
    BY <2>2 DEF SumsSmall
<1>2. Without = {}
  <2>1. ASSUME Without # {} PROVE FALSE
    <3>1. PICK m \in Without : \A n \in Without : m <= n
      <4> HIDE DEF Without
      <4>1. Without \in SUBSET Nat
        BY DEF Without
      <4> QED
        BY <2>1, <4>1, LeastNat
    <3>2. m - 1 \in Nat /\ m - 1 \notin Without
      BY <1>1, <3>1
    <3>3. \E g : SumsSmall(g, f, S, (m - 1) + 1)
      BY <3>2, SumStep
    <3>4. (m - 1) + 1 = m
      BY <3>1
    <3> QED
      BY <3>1, <3>3, <3>4
  <2> QED
    BY <2>1
<1>3. Cardinality(S) \in Nat /\ Small(S, Cardinality(S)) = SUBSET S
  BY FS_CardinalityType, FS_Subset DEF Small
<1>4. PICK g : SumsSmall(g, f, S, Cardinality(S))
  BY <1>2, <1>3
<1> QED
  BY <1>3, <1>4 DEF SumsSmall, IsSum

LEMMA SumSolves ==
    ASSUME NEW S, IsFiniteSet(S), NEW f
    PROVE  \E g : IsSum(g, f, S) /\ Sum(f, S) = g[S]
BY SumExists DEF Sum

\* Two solutions agree on every set on which the functions they sum agree.
LEMMA SumsAgree ==
    ASSUME NEW S, IsFiniteSet(S), NEW f, NEW g, IsSum(g, f, S),
           NEW U, NEW e, NEW h, IsSum(h, e, U),
           NEW T \in SUBSET S, T \subseteq U, \A x \in T : f[x] = e[x]
    PROVE  g[T] = h[T]
<1> DEFINE Differ == {V \in SUBSET T : g[V] # h[V]}
<1>1. ASSUME NEW V \in Differ, \A W \in Differ : W \subseteq V => W = V PROVE FALSE
  <2>1. g[V] = IF V = {} THEN 0 ELSE f[Pick(V)] + g[V \ {Pick(V)}]
    BY DEF IsSum
  <2>2. h[V] = IF V = {} THEN 0 ELSE e[Pick(V)] + h[V \ {Pick(V)}]
    BY DEF IsSum
  <2>3. V # {}
    BY <2>1, <2>2
  <2>4. Pick(V) \in V /\ f[Pick(V)] = e[Pick(V)]
    BY <2>3, PickIn
  <2>5. V \ {Pick(V)} \notin Differ
    BY <1>1, <2>4
  <2>6. g[V \ {Pick(V)}] = h[V \ {Pick(V)}]
    BY <2>5
  <2> QED
    BY <2>1, <2>2, <2>4, <2>6
<1>2. Differ = {}
  <2>1. Differ \in SUBSET SUBSET S
    OBVIOUS
  <2> HIDE DEF Differ
  <2> QED
    BY <1>1, <2>1, MinimalSubset
<1> QED
  BY <1>2

\* The sum of natural numbers is one, and any element may be taken out first.
LEMMA SolutionNat ==
    ASSUME NEW S, IsFiniteSet(S), NEW f, \A x \in S : f[x] \in Nat, NEW g, IsSum(g, f, S)
    PROVE  \A T \in SUBSET S : g[T] \in Nat
<1> DEFINE Other == {T \in SUBSET S : g[T] \notin Nat}
<1>1. ASSUME NEW T \in Other, \A U \in Other : U \subseteq T => U = T PROVE FALSE
  <2>1. g[T] = IF T = {} THEN 0 ELSE f[Pick(T)] + g[T \ {Pick(T)}]
    BY DEF IsSum
  <2>2. T # {}
    BY <2>1
  <2>3. Pick(T) \in T /\ f[Pick(T)] \in Nat
    BY <2>2, PickIn
  <2>4. T \ {Pick(T)} \notin Other
    BY <1>1, <2>3
  <2>5. g[T \ {Pick(T)}] \in Nat
    BY <2>4
  <2> QED
    BY <2>1, <2>2, <2>3, <2>5
<1>2. Other = {}
  <2>1. Other \in SUBSET SUBSET S
    OBVIOUS
  <2> HIDE DEF Other
  <2> QED
    BY <1>1, <2>1, MinimalSubset
<1> QED
  BY <1>2

LEMMA SolutionTake ==
    ASSUME NEW S, IsFiniteSet(S), NEW f, \A x \in S : f[x] \in Nat, NEW g, IsSum(g, f, S)
    PROVE  \A T \in SUBSET S : \A x \in T : g[T] = f[x] + g[T \ {x}]
<1> DEFINE Taken(T) == \A x \in T : g[T] = f[x] + g[T \ {x}]
           Other == {T \in SUBSET S : ~Taken(T)}
<1>1. ASSUME NEW T \in Other, \A U \in Other : U \subseteq T => U = T PROVE FALSE
  <2>1. PICK x \in T : g[T] # f[x] + g[T \ {x}]
    OBVIOUS
  <2> DEFINE c == Pick(T)
  <2>2. c \in T /\ g[T] = f[c] + g[T \ {c}]
    BY PickIn DEF IsSum
  <2> HIDE DEF c
  <2>3. c # x
    BY <2>1, <2>2
  <2>4. T \ {c} \in SUBSET S /\ T \ {x} \in SUBSET S /\ T \ {c} # T /\ T \ {x} # T
    BY <2>2
  <2>5. Taken(T \ {c}) /\ Taken(T \ {x})
    BY <1>1, <2>4
  <2>6. g[T \ {c}] = f[x] + g[(T \ {c}) \ {x}]
    BY <2>3, <2>5
  <2>7. g[T \ {x}] = f[c] + g[(T \ {x}) \ {c}]
    BY <2>2, <2>3, <2>5
  <2>8. (T \ {c}) \ {x} = (T \ {x}) \ {c}
    OBVIOUS
  <2>9. f[c] \in Nat /\ f[x] \in Nat /\ g[(T \ {x}) \ {c}] \in Nat
    BY <2>2, SolutionNat
  <2> DEFINE r == g[(T \ {x}) \ {c}]
  <2>10. g[T] = f[c] + (f[x] + r) /\ g[T \ {x}] = f[c] + r
    BY <2>2, <2>6, <2>7, <2>8
  <2>11. f[c] \in Nat /\ f[x] \in Nat /\ r \in Nat
    BY <2>9
  <2> HIDE DEF r
  <2> QED
    BY <2>1, <2>10, <2>11
<1>2. Other = {}
  <2>1. Other \in SUBSET SUBSET S
    OBVIOUS
  <2> HIDE DEF Other
  <2> QED
    BY <1>1, <2>1, MinimalSubset
<1> QED
  BY <1>2

LEMMA SumEmpty == \A f : Sum(f, {}) = 0
BY FS_EmptySet, SumSolves DEF IsSum

LEMMA SumNat ==
    ASSUME NEW S, IsFiniteSet(S), NEW f, \A x \in S : f[x] \in Nat
    PROVE  Sum(f, S) \in Nat
BY SumSolves, SolutionNat

LEMMA SumSame ==
    ASSUME NEW S, IsFiniteSet(S), NEW f, NEW e, \A x \in S : f[x] = e[x]
    PROVE  Sum(f, S) = Sum(e, S)
<1>1. PICK g : IsSum(g, f, S) /\ Sum(f, S) = g[S]
  BY SumSolves
<1>2. PICK h : IsSum(h, e, S) /\ Sum(e, S) = h[S]
  BY SumSolves
<1> QED
  BY <1>1, <1>2, SumsAgree

LEMMA SumTake ==
    ASSUME NEW S, IsFiniteSet(S), NEW f, \A x \in S : f[x] \in Nat, NEW x \in S
    PROVE  Sum(f, S) = f[x] + Sum(f, S \ {x})
<1>1. PICK g : IsSum(g, f, S) /\ Sum(f, S) = g[S]
  BY SumSolves
<1>2. IsFiniteSet(S \ {x})
  BY FS_RemoveElement
<1>3. PICK h : IsSum(h, f, S \ {x}) /\ Sum(f, S \ {x}) = h[S \ {x}]
  BY <1>2, SumSolves
<1>4. h[S \ {x}] = g[S \ {x}]
  BY <1>1, <1>2, <1>3, SumsAgree
<1>5. g[S] = f[x] + g[S \ {x}]
  BY <1>1, SolutionTake
<1> QED
  BY <1>1, <1>3, <1>4, <1>5


-----------------------------------------------------------------------------
\* The bytes an execution holds in BackupData.
Sizes(a) == [k \in Keys |-> ValueSize[backupData[a][k].val]]
BytesHeld(a) == Sum(Sizes(a), BackedUp(a))

\* The sum the property takes is this one.
LEMMA HeldBytes ==
    ASSUME NEW a \in Attacks, IsFiniteSet(BackedUp(a))
    PROVE  MapThenSumSet(LAMBDA k : ValueSize[backupData[a][k].val], BackedUp(a)) = BytesHeld(a)
<1> DEFINE S == BackedUp(a)
           Solves(g) ==
             g = [s \in SUBSET S |->
                    IF s = {} THEN 0
                    ELSE ValueSize[backupData[a][Pick(s)].val] + g[s \ {Pick(s)}]]
<1>1. MapThenSumSet(LAMBDA k : ValueSize[backupData[a][k].val], S) = (CHOOSE g : Solves(g))[S]
  BY DEF MapThenSumSet, MapThenFoldSet, Pick
<1>2. \A x \in S : Sizes(a)[x] = ValueSize[backupData[a][x].val]
  BY DEF BackedUp, Sizes
<1> HIDE DEF S
<1>3. \A g : IsSum(g, Sizes(a), S) <=> Solves(g)
  BY <1>2, PickIn DEF IsSum
<1> HIDE DEF Solves
<1>4. PICK g : IsSum(g, Sizes(a), S) /\ Sum(Sizes(a), S) = g[S]
  BY SumSolves DEF S
<1>5. IsSum((CHOOSE h : Solves(h)), Sizes(a), S)
  BY <1>3, <1>4
<1>6. (CHOOSE h : Solves(h))[S] = g[S]
  BY <1>4, <1>5, SumsAgree DEF S
<1> QED
  BY <1>1, <1>4, <1>6 DEF S, BytesHeld

\* What Start holds for an execution, the value whose TTL it is about to ask for included, is
\* counted in TotalBackupBytes, which stays within the limit.  It is not equal to it: a key
\* that SCAN returned twice is counted twice and held once.
BytesCounted(a) ==
    /\ IsFiniteSet(BackedUp(a))
    /\ BytesHeld(a) + (IF pc[a] = "ttl" THEN ValueSize[value[a]] ELSE 0) <= totalBackupBytes[a]
    /\ MaxBackupBytes > 0 => totalBackupBytes[a] <= MaxBackupBytes

AllBytesCounted == \A a \in Attacks : BytesCounted(a)

\* Putting a number under one element, old or new, adds no more than that number.
LEMMA SumPut ==
    ASSUME NEW S, IsFiniteSet(S), NEW f, \A x \in S : f[x] \in Nat,
           NEW k, NEW e, e[k] \in Nat, \A x \in S \ {k} : e[x] = f[x]
    PROVE  IsFiniteSet(S \cup {k}) /\ Sum(e, S \cup {k}) <= Sum(f, S) + e[k]
<1> DEFINE R == S \ {k}
<1>1. IsFiniteSet(R) /\ IsFiniteSet(S \cup {k})
  BY FS_RemoveElement, FS_AddElement
<1>2. Sum(e, R) = Sum(f, R) /\ Sum(f, R) \in Nat /\ Sum(f, S) \in Nat
  BY <1>1, SumSame, SumNat
<1>3. (S \cup {k}) \ {k} = R /\ \A x \in S \cup {k} : e[x] \in Nat
  OBVIOUS
<1>4. Sum(e, S \cup {k}) = e[k] + Sum(e, R)
  <2> HIDE DEF R
  <2> QED
    BY <1>1, <1>3, SumTake
<1>5. Sum(f, R) <= Sum(f, S)
  <2>1. CASE k \in S
    <3>1. Sum(f, S) = f[k] + Sum(f, R)
      BY <2>1, SumTake
    <3> QED
      BY <1>2, <2>1, <3>1
  <2>2. CASE k \notin S
    <3>1. R = S
      BY <2>2
    <3> QED
      BY <1>2, <3>1
  <2> QED
    BY <2>1, <2>2
<1> HIDE DEF R
<1> QED
  BY <1>1, <1>2, <1>4, <1>5

\* What a step makes of the count of one execution: GET has found a value that fits, the
\* value is stored, the Start is given up, or nothing.
ValueGot(a) ==
    /\ pc[a] = "get" /\ pc'[a] = "ttl" /\ value'[a] \in Values /\ backupData'[a] = backupData[a]
    /\ totalBackupBytes'[a] = totalBackupBytes[a] + ValueSize[value'[a]]
    /\ MaxBackupBytes > 0 => totalBackupBytes'[a] <= MaxBackupBytes

CountKept(a) ==
    /\ totalBackupBytes'[a] = totalBackupBytes[a]
    /\ backupData'[a] = backupData[a]
    /\ pc'[a] = "ttl" => pc[a] = "ttl" /\ value'[a] = value[a]

CountDropped(a) ==
    totalBackupBytes'[a] = 0 /\ backupData'[a] = NoBackups /\ pc'[a] # "ttl"

LEMMA CountSteps ==
    ASSUME TypeInv, [Next]_vars, NEW b \in Attacks
    PROVE  \/ ValueGot(b)
           \/ BackupAdded(b) /\ totalBackupBytes'[b] = totalBackupBytes[b]
           \/ CountDropped(b)
           \/ CountKept(b)
<1> DEFINE Result == \/ ValueGot(b)
                     \/ BackupAdded(b) /\ totalBackupBytes'[b] = totalBackupBytes[b]
                     \/ CountDropped(b)
                     \/ CountKept(b)
<1> USE DEF TypeInv, TypeOK, StateType
<1>1. ASSUME NEW a \in Attacks, StartError(a), pc[a] # "ttl" PROVE Result
  BY <1>1 DEF StartError, StartType, CountDropped, CountKept
<1>2. ASSUME NEW a \in Attacks, NEW q, q # "ttl", pc' = [pc EXCEPT ![a] = q], pc[a] # "ttl",
             UNCHANGED <<totalBackupBytes, backupData>>, value' \in {value, [value EXCEPT ![a] = NoValue]}
      PROVE  Result
  BY <1>2 DEF StartType, CountKept
<1>3. ASSUME UNCHANGED <<pc, totalBackupBytes, backupData, value>> PROVE Result
  BY <1>3 DEF CountKept
<1>4. ASSUME NEW a \in Attacks, Prepare(a) PROVE Result
  BY <1>2, <1>4 DEF Prepare, startLocals
<1>5. ASSUME NEW a \in Attacks, StartPing(a) PROVE Result
  BY <1>1, <1>2, <1>5 DEF StartPing, persisted, startLocals
<1>6. ASSUME NEW a \in Attacks, BackupGet(a) PROVE Result
  <2>1. CASE StartError(a)
    BY <1>1, <1>6, <2>1 DEF BackupGet
  <2>2. CASE NextBackup(a) /\ UNCHANGED <<lockedKeys, persisted>>
    BY <1>2, <1>6, <2>2 DEF BackupGet, NextBackup, persisted
  <2>3. CASE /\ redis[Key(a)] # Absent
             /\ ~ExceedsLimit(a, ValueSize[redis[Key(a)].val])
             /\ totalBackupBytes' = [totalBackupBytes EXCEPT ![a] = @ + ValueSize[redis[Key(a)].val]]
             /\ value' = [value EXCEPT ![a] = redis[Key(a)].val]
             /\ pc' = [pc EXCEPT ![a] = "ttl"]
             /\ UNCHANGED <<lockedKeys, restoreOnStop, matchedKeys, affectedKeys, backupData, pos>>
    <3>1. pc[a] = "get" /\ Key(a) \in Keys
      BY <1>6, KeyType DEF BackupGet, InStart
    <3>2. redis[Key(a)].val \in Values
      BY <2>3, <3>1 DEF SharedType, Entry
    <3>3. totalBackupBytes[a] + ValueSize[redis[Key(a)].val] \in Nat
      BY <3>2, SizeAssumption
    <3>4. CASE b = a
      <4>1. value'[b] = redis[Key(a)].val /\ pc'[b] = "ttl" /\ backupData'[b] = backupData[b]
        BY <2>3, <3>4 DEF StartType
      <4>2. totalBackupBytes'[b] = totalBackupBytes[b] + ValueSize[value'[b]]
        BY <2>3, <3>4, <4>1
      <4>3. MaxBackupBytes > 0 => totalBackupBytes'[b] <= MaxBackupBytes
        BY <2>3, <3>3, <3>4, <4>1, <4>2, SizeAssumption DEF ExceedsLimit
      <4> QED
        BY <3>1, <3>2, <3>4, <4>1, <4>2, <4>3 DEF ValueGot
    <3>5. CASE b # a
      BY <2>3, <3>5 DEF StartType, CountKept
    <3> QED
      BY <3>4, <3>5
  <2> QED
    BY <1>6, <2>1, <2>2, <2>3 DEF BackupGet
<1>7. ASSUME NEW a \in Attacks, BackupTTL(a) PROVE Result
  <2>1. totalBackupBytes' = totalBackupBytes
    BY <1>7 DEF BackupTTL
  <2>2. CASE b = a
    <3>1. pc[b] = "ttl" /\ pc'[b] # "ttl" /\ pc'[b] # "failed"
      BY <1>7, <2>2 DEF BackupTTL, NextBackup
    <3>2. BackupAdded(b) \/ (backupData'[b] = backupData[b] /\ pc'[b] = "ttl")
      BY <3>1, BackupSteps DEF BackupsKept, BackupsDropped
    <3> QED
      BY <2>1, <3>1, <3>2
  <2>3. CASE b # a
    BY <1>7, <2>1, <2>3 DEF BackupTTL, NextBackup, StartType, CountKept
  <2> QED
    BY <2>2, <2>3
<1>8. ASSUME NEW a \in Attacks, LockKeys(a) PROVE Result
  BY <1>1, <1>2, <1>8 DEF LockKeys, persisted, startLocals
<1>9. ASSUME NEW a \in Attacks, Expire(a) PROVE Result
  BY <1>2, <1>9 DEF Expire
<1>10. ASSUME NEW a \in Attacks, Stop(a) PROVE Result
  BY <1>2, <1>10 DEF Stop, StopAnswer, persisted, startLocals
<1>11. ASSUME NEW a \in Attacks, StopStep(a) PROVE Result
  <2>1. ASSUME NEW k \in Keys, RestoreExists(a, k) PROVE Result
    BY <1>3, <2>1 DEF RestoreExists, persisted, startLocals
  <2>2. ASSUME RestoreWrite(a) PROVE Result
    BY <1>3, <2>2 DEF RestoreWrite, persisted, startLocals
  <2>3. ASSUME StopReturn(a) PROVE Result
    BY <1>2, <2>3 DEF StopReturn, StopAnswer, persisted, startLocals
  <2> QED
    BY <1>11, <2>1, <2>2, <2>3 DEF StopStep
<1>12. ASSUME NEW k \in Keys, Elapse(k) \/ AppSet(k) PROVE Result
  BY <1>3, <1>12 DEF Elapse, AppSet, persisted, startLocals
<1>13. ASSUME Restart PROVE Result
  BY <1>13 DEF Restart, InStart, CountKept, CountDropped
<1>14. ASSUME UNCHANGED vars PROVE Result
  BY <1>3, <1>14 DEF vars, persisted, startLocals
<1> QED
  BY <1>4, <1>5, <1>6, <1>7, <1>8, <1>9, <1>10, <1>11, <1>12, <1>13, <1>14 DEF Next, StartStep

\* The sizes of what is backed up are numbers.
LEMMA HeldSizes ==
    ASSUME TypeInv, NEW a \in Attacks
    PROVE  \A k \in BackedUp(a) : Sizes(a)[k] = ValueSize[backupData[a][k].val] /\ Sizes(a)[k] \in Nat
BY SizeAssumption DEF TypeInv, TypeOK, StateType, BackedUp, Sizes, Entry

LEMMA InitBytes == Init => AllBytesCounted
<1> SUFFICES ASSUME Init, NEW a \in Attacks PROVE BytesCounted(a)
  BY DEF AllBytesCounted
<1>1. BackedUp(a) = {}
  BY DEF Init, BackedUp, NoBackups
<1>2. BytesHeld(a) = 0
  BY <1>1, SumEmpty DEF BytesHeld
<1> QED
  BY <1>1, <1>2, FS_EmptySet, SizeAssumption DEF Init, BytesCounted

LEMMA NextBytes == TypeInv /\ AllBytesCounted /\ [Next]_vars => AllBytesCounted'
<1> SUFFICES ASSUME TypeInv, AllBytesCounted, [Next]_vars, NEW a \in Attacks PROVE BytesCounted(a)'
  BY DEF AllBytesCounted
<1> DEFINE total == totalBackupBytes[a]
<1>1. BytesCounted(a) /\ total \in Nat /\ MaxBackupBytes \in Nat /\ ValueSize \in [Values -> Nat]
  BY SizeAssumption DEF AllBytesCounted, TypeInv, TypeOK, StateType
<1>2. BytesHeld(a) \in Nat
  BY <1>1, HeldSizes, SumNat DEF BytesHeld, BytesCounted
<1>3. pc[a] = "ttl" => value[a] \in Values
  BY DEF TypeInv, TypeOK, StartType
<1>4. ASSUME backupData'[a] = backupData[a]
      PROVE  BytesHeld(a)' = BytesHeld(a) /\ BackedUp(a)' = BackedUp(a)
  <2>1. BackedUp(a)' = BackedUp(a) /\ Sizes(a)' = Sizes(a)
    BY <1>4 DEF BackedUp, Sizes
  <2> QED
    BY <2>1 DEF BytesHeld
<1>5. CASE ValueGot(a)
  <2>1. BytesHeld(a) <= total /\ value'[a] \in Values
    BY <1>1, <1>2, <1>5 DEF BytesCounted, ValueGot
  <2>2. BytesHeld(a)' + ValueSize[value'[a]] <= totalBackupBytes'[a]
    BY <1>1, <1>2, <1>4, <1>5, <2>1 DEF ValueGot
  <2> QED
    BY <1>1, <1>4, <1>5, <2>2 DEF ValueGot, BytesCounted
<1>6. CASE BackupAdded(a) /\ totalBackupBytes'[a] = total
  <2>1. PICK ttl \in -1 .. MaxTTL :
           backupData'[a] = [backupData[a] EXCEPT ![Key(a)] = [val |-> value[a], ttl |-> ttl]]
    BY <1>6 DEF BackupAdded
  <2>2. /\ pc[a] = "ttl" /\ pc'[a] # "ttl" /\ Key(a) \in Keys /\ value[a] \in Values
        /\ backupData[a] \in [Keys -> Entry \cup {Absent}]
    BY <1>3, <1>6 DEF BackupAdded, TypeInv, TypeOK, StateType
  <2>3. [val |-> value[a], ttl |-> ttl] # Absent
    BY TTLAssumption DEF Absent
  <2>4. BackedUp(a)' = BackedUp(a) \cup {Key(a)}
    BY <2>1, <2>2, <2>3 DEF BackedUp
  <2>5. Sizes(a)'[Key(a)] = ValueSize[value[a]] /\ \A k \in BackedUp(a) \ {Key(a)} : Sizes(a)'[k] = Sizes(a)[k]
    BY <2>1, <2>2 DEF Sizes, BackedUp
  <2>6. IsFiniteSet(BackedUp(a)') /\ BytesHeld(a)' <= BytesHeld(a) + ValueSize[value[a]]
    <3> DEFINE e == Sizes(a)' f == Sizes(a) S == BackedUp(a) k == Key(a)
    <3>1. IsFiniteSet(S) /\ (\A x \in S : f[x] \in Nat) /\ e[k] \in Nat /\ \A x \in S \ {k} : e[x] = f[x]
      BY <1>1, <2>2, <2>5, HeldSizes DEF BytesCounted
    <3> HIDE DEF e, f, S, k
    <3>2. IsFiniteSet(S \cup {k}) /\ Sum(e, S \cup {k}) <= Sum(f, S) + e[k]
      BY <3>1, SumPut
    <3>3. Sum(e, S \cup {k}) = BytesHeld(a)'
      BY <2>4 DEF BytesHeld, e, S, k
    <3>4. Sum(f, S) = BytesHeld(a)
      BY DEF BytesHeld, f, S
    <3> QED
      BY <2>4, <2>5, <3>2, <3>3, <3>4 DEF e, S, k
  <2>7. BytesHeld(a) + ValueSize[value[a]] <= total /\ (MaxBackupBytes > 0 => total <= MaxBackupBytes)
    BY <1>1, <2>2 DEF BytesCounted
  <2>8. BytesHeld(a)' \in Nat
    <3>1. BytesHeld(a)' = Sum(Sizes(a)', BackedUp(a)')
      BY DEF BytesHeld
    <3>2. \A k \in BackedUp(a)' : Sizes(a)'[k] \in Nat
      BY NextType, HeldSizes, <2>2, <2>4, <2>5, SizeAssumption
    <3> QED
      BY <2>6, <3>1, <3>2, SumNat
  <2>9. BytesHeld(a)' <= total
    BY <1>1, <1>2, <2>2, <2>6, <2>7, <2>8
  <2> QED
    BY <1>6, <2>2, <2>6, <2>7, <2>8, <2>9 DEF BytesCounted
<1>7. CASE CountDropped(a)
  <2>1. BackedUp(a)' = {}
    BY <1>7 DEF CountDropped, BackedUp, NoBackups
  <2>2. BytesHeld(a)' = 0
    BY <2>1, SumEmpty DEF BytesHeld
  <2> QED
    BY <1>1, <1>7, <2>1, <2>2, FS_EmptySet DEF CountDropped, BytesCounted
<1>8. CASE CountKept(a)
  <2>1. BytesHeld(a) <= total
    BY <1>1, <1>2, <1>3 DEF BytesCounted
  <2> QED
    BY <1>1, <1>2, <1>3, <1>4, <1>8, <2>1 DEF CountKept, BytesCounted
<1> QED
  BY <1>5, <1>6, <1>7, <1>8, CountSteps

\* No execution ever holds more bytes of values than the endpoint allows: whatever the
\* scan returned, however often a key is in it, and wherever Start fails or is interrupted.
THEOREM BackupLimit == Spec => []BackupWithinLimit
<1>1. TypeInv /\ AllBytesCounted => BackupWithinLimit
  <2> SUFFICES ASSUME TypeInv, AllBytesCounted, MaxBackupBytes > 0, NEW a \in Attacks
               PROVE  MapThenSumSet(LAMBDA k : ValueSize[backupData[a][k].val], BackedUp(a)) <= MaxBackupBytes
    BY DEF BackupWithinLimit
  <2>1. BytesCounted(a) /\ totalBackupBytes[a] \in Nat /\ MaxBackupBytes \in Nat
    BY SizeAssumption DEF AllBytesCounted, TypeInv, TypeOK, StateType
  <2>2. BytesHeld(a) \in Nat
    BY <2>1, HeldSizes, SumNat DEF BytesHeld, BytesCounted
  <2>3. pc[a] = "ttl" => ValueSize[value[a]] \in Nat
    BY SizeAssumption DEF TypeInv, TypeOK, StartType
  <2>4. BytesHeld(a) <= MaxBackupBytes
    BY <2>1, <2>2, <2>3 DEF BytesCounted
  <2> QED
    BY <2>1, <2>4, HeldBytes DEF BytesCounted
<1> QED
  BY <1>1, InitType, NextType, InitBytes, NextBytes, PTL DEF Spec

-----------------------------------------------------------------------------
\* What a Start has left to do: the GET and the TTL of each key to come, the lock, and one
\* EXPIRE per key.
StartLeft(a) ==
    LET n == Len(matchedKeys[a])
    IN CASE pc[a] = "prepared" -> 3 * n + 2
         [] pc[a] = "get"      -> 2 * (n - pos[a] + 1) + 1 + n
         [] pc[a] = "ttl"      -> 2 * (n - pos[a] + 1) + n
         [] pc[a] = "lock"     -> 1 + n
         [] pc[a] = "expire"   -> n - pos[a] + 1
         [] OTHER              -> 0

\* What a Stop has left to do: EXISTS and a write for each backup to come, and the answer.
StopLeft(a) ==
    IF pc[a] = "restore"
    THEN 2 * Cardinality(todo[a]) + (IF probe[a] = NoProbe THEN 0 ELSE 1) + 1
    ELSE 0

LEMMA StartLeftType ==
    ASSUME TypeInv, NEW a \in Attacks
    PROVE  /\ StartLeft(a) \in 0 .. 3 * Len(matchedKeys[a]) + 2
           /\ InStart(a) => StartLeft(a) > 0
<1> DEFINE n == Len(matchedKeys[a]) p == pos[a]
<1>1. n \in Nat /\ (InStart(a) => p \in 1 .. n)
  BY DEF TypeInv, TypeOK, StateType, StartType
<1>2. StartLeft(a) = CASE pc[a] = "prepared" -> 3 * n + 2
                       [] pc[a] = "get"      -> 2 * (n - p + 1) + 1 + n
                       [] pc[a] = "ttl"      -> 2 * (n - p + 1) + n
                       [] pc[a] = "lock"     -> 1 + n
                       [] pc[a] = "expire"   -> n - p + 1
                       [] OTHER              -> 0
  BY DEF StartLeft
<1> HIDE DEF n, p
<1>3. CASE InStart(a)
  <2>1. n \in Nat /\ p \in 1 .. n /\ pc[a] \in {"get", "ttl", "lock", "expire"}
    BY <1>1, <1>3 DEF InStart
  <2>2. StartLeft(a) \in 1 .. 3 * n + 2
    BY <1>2, <2>1
  <2> QED
    BY <2>2 DEF n
<1>4. CASE ~InStart(a)
  <2>1. StartLeft(a) = 3 * n + 2 \/ StartLeft(a) = 0
    BY <1>2, <1>4 DEF InStart
  <2> QED
    BY <1>1, <1>4, <2>1 DEF n
<1> QED
  BY <1>3, <1>4

LEMMA StartLeftNat == TypeInv => \A a \in Attacks : StartLeft(a) \in Nat
<1> SUFFICES ASSUME TypeInv, NEW a \in Attacks PROVE StartLeft(a) \in Nat
  OBVIOUS
<1> QED
  BY StartLeftType DEF TypeInv, TypeOK, StateType

LEMMA StartLeftNext == TypeInv /\ [Next]_vars => (\A a \in Attacks : StartLeft(a) \in Nat)'
BY NextType, StartLeftNat, PTL

\* Each step of a Start brings it nearer to its end, and no step of the other handlers, of
\* time, of the application or of a restart takes it further away.
StartShrinks ==
    \A a \in Attacks :
        /\ StartStep(a) => StartLeft(a)' < StartLeft(a)
        /\ StartLeft(a)' <= StartLeft(a) \/ Prepare(a)

LEMMA StartNearer == TypeInv /\ [Next]_vars => StartShrinks
<1> SUFFICES ASSUME TypeInv, [Next]_vars, NEW a \in Attacks
             PROVE  /\ StartStep(a) => StartLeft(a)' < StartLeft(a)
                    /\ StartLeft(a)' <= StartLeft(a) \/ Prepare(a)
  BY DEF StartShrinks
<1> USE DEF TypeInv, TypeOK, StateType, StartType
<1> DEFINE n == Len(matchedKeys[a])
<1>1. n \in Nat /\ StartLeft(a) \in Nat /\ pos[a] \in Nat
  BY StartLeftType
<1>2. InStart(a) => pos[a] \in 1 .. n
  OBVIOUS
<1>3. ASSUME pc'[a] = pc[a], pos'[a] = pos[a], matchedKeys'[a] = matchedKeys[a]
      PROVE  StartLeft(a)' <= StartLeft(a)
  BY <1>1, <1>3 DEF StartLeft
<1>4. ASSUME pc'[a] \in {"failed", "running", "restore", "stopped"}
      PROVE  StartLeft(a)' = 0
  BY <1>4 DEF StartLeft
<1>5. ASSUME StartError(a), pc[a] \in {"prepared", "get", "lock"}
      PROVE  StartLeft(a)' < StartLeft(a)
  <2>1. StartLeft(a)' = 0
    BY <1>4, <1>5 DEF StartError
  <2>2. StartLeft(a) > 0
    BY <1>1, <1>2, <1>5 DEF StartLeft, InStart
  <2> QED
    BY <2>1, <2>2
<1>6. ASSUME StartPing(a) PROVE StartLeft(a)' < StartLeft(a)
  <2>1. CASE StartError(a)
    BY <1>5, <1>6, <2>1 DEF StartPing
  <2>2. CASE /\ pc' = [pc EXCEPT ![a] = IF a \in restoreOnStop THEN "get" ELSE "lock"]
             /\ UNCHANGED <<lockedKeys, persisted, startLocals>>
    <3>1. pos[a] = 1 /\ pc[a] = "prepared" /\ pc'[a] \in {"get", "lock"}
      BY <1>6, <2>2 DEF StartPing, Ready
    <3> QED
      BY <1>1, <2>2, <3>1 DEF StartLeft, persisted, startLocals
  <2> QED
    BY <1>6, <2>1, <2>2 DEF StartPing
<1>7. ASSUME NextBackup(a), pc[a] \in {"get", "ttl"}, matchedKeys' = matchedKeys
      PROVE  StartLeft(a)' < StartLeft(a)
  <2>1. pos[a] \in 1 .. n
    BY <1>2, <1>7 DEF InStart
  <2>2. CASE pos[a] = n
    <3>1. pc'[a] = "lock"
      BY <1>7, <2>2 DEF NextBackup, LastKey
    <3> QED
      BY <1>1, <1>7, <2>1, <2>2, <3>1 DEF StartLeft
  <2>3. CASE pos[a] # n
    <3>1. pc'[a] = "get" /\ pos'[a] = pos[a] + 1
      BY <1>7, <2>3 DEF NextBackup, LastKey
    <3> QED
      BY <1>1, <1>7, <2>1, <3>1 DEF StartLeft
  <2> QED
    BY <2>2, <2>3
<1>8. ASSUME BackupGet(a) PROVE StartLeft(a)' < StartLeft(a)
  <2>1. CASE StartError(a)
    BY <1>5, <1>8, <2>1 DEF BackupGet
  <2>2. CASE NextBackup(a) /\ UNCHANGED <<lockedKeys, persisted>>
    BY <1>7, <1>8, <2>2 DEF BackupGet, persisted
  <2>3. CASE pc' = [pc EXCEPT ![a] = "ttl"] /\ UNCHANGED <<matchedKeys, pos>>
    BY <1>1, <1>8, <2>3 DEF BackupGet, StartLeft
  <2> QED
    BY <1>8, <2>1, <2>2, <2>3 DEF BackupGet
<1>9. ASSUME BackupTTL(a) PROVE StartLeft(a)' < StartLeft(a)
  BY <1>7, <1>9 DEF BackupTTL
<1>10. ASSUME LockKeys(a) PROVE StartLeft(a)' < StartLeft(a)
  <2>1. CASE StartError(a)
    BY <1>5, <1>10, <2>1 DEF LockKeys
  <2>2. CASE pc' = [pc EXCEPT ![a] = "expire"] /\ UNCHANGED <<persisted, startLocals>>
    BY <1>1, <1>2, <1>10, <2>2 DEF LockKeys, StartLeft, InStart, persisted, startLocals
  <2> QED
    BY <1>10, <2>1, <2>2 DEF LockKeys
<1>11. ASSUME Expire(a) PROVE StartLeft(a)' < StartLeft(a)
  <2>1. pos[a] \in 1 .. n /\ matchedKeys' = matchedKeys /\ pc[a] = "expire"
    BY <1>2, <1>11 DEF Expire, InStart
  <2>2. CASE pos[a] = n
    <3>1. pc'[a] = "running"
      BY <1>11, <2>2 DEF Expire, LastKey
    <3> QED
      BY <1>1, <2>1, <2>2, <3>1 DEF StartLeft
  <2>3. CASE pos[a] # n
    <3>1. pc'[a] = "expire" /\ pos'[a] = pos[a] + 1
      BY <1>11, <2>3 DEF Expire, LastKey
    <3> QED
      BY <1>1, <2>1, <3>1 DEF StartLeft
  <2> QED
    BY <2>2, <2>3
<1>12. ASSUME StartStep(a) PROVE StartLeft(a)' < StartLeft(a)
  BY <1>6, <1>8, <1>9, <1>10, <1>11, <1>12 DEF StartStep
<1>13. StartLeft(a)' <= StartLeft(a) \/ Prepare(a)
  <2>1. ASSUME NEW b \in Attacks, b # a, Prepare(b) \/ StartStep(b)
        PROVE  pc'[a] = pc[a] /\ pos'[a] = pos[a] /\ matchedKeys'[a] = matchedKeys[a]
    BY <2>1 DEF Prepare, StartStep, StartPing, BackupGet, BackupTTL, LockKeys, Expire, StartError,
                NextBackup, persisted, startLocals
  <2>2. ASSUME NEW b \in Attacks, Stop(b) \/ StopStep(b)
        PROVE  StartLeft(a)' <= StartLeft(a)
    <3>1. /\ pc'[a] = pc[a] \/ pc'[a] \in {"restore", "stopped"}
          /\ pos'[a] = pos[a] /\ matchedKeys'[a] = matchedKeys[a]
      BY <2>2 DEF Stop, StopStep, RestoreExists, RestoreWrite, StopReturn, StopAnswer, persisted, startLocals
    <3> QED
      BY <1>1, <1>3, <1>4, <3>1
  <2>3. ASSUME NEW k \in Keys, Elapse(k) \/ AppSet(k) PROVE StartLeft(a)' <= StartLeft(a)
    BY <1>3, <2>3 DEF Elapse, AppSet, persisted, startLocals
  <2>4. ASSUME Restart PROVE StartLeft(a)' <= StartLeft(a)
    <3>1. CASE pc[a] = "prepared" \/ pc[a] = "new"
      <4>1. pc'[a] = pc[a] /\ pos'[a] = pos[a] /\ matchedKeys'[a] = matchedKeys[a]
        BY <2>4, <3>1 DEF Restart, InStart, Ready
      <4> QED
        BY <1>3, <4>1
    <3>2. CASE ~(pc[a] = "prepared" \/ pc[a] = "new")
      <4>1. pc'[a] \in {"failed", "running", "restore", "stopped"}
        BY <2>4, <3>2 DEF Restart, InStart, Phases
      <4> QED
        BY <1>1, <1>4, <4>1
    <3> QED
      BY <3>1, <3>2
  <2>5. CASE UNCHANGED vars
    BY <1>3, <2>5 DEF vars, persisted, startLocals
  <2>6. StartLeft(a)' < StartLeft(a) => StartLeft(a)' <= StartLeft(a)
    BY <1>1, StartLeftNext
  <2> QED
    BY <1>12, <2>1, <1>3, <2>2, <2>3, <2>4, <2>5, <2>6 DEF Next
<1> QED
  BY <1>12, <1>13

\* The same of a Stop, whose backups to come are finitely many.
StopShrinks ==
    \A a \in Attacks :
        /\ StopStep(a) => StopLeft(a)' < StopLeft(a)
        /\ StopLeft(a)' <= StopLeft(a) \/ Stop(a)

LEMMA StopLeftType ==
    ASSUME TypeInv, AllBytesCounted, NEW a \in Attacks
    PROVE  /\ pc[a] = "restore" => IsFiniteSet(todo[a]) /\ Cardinality(todo[a]) \in Nat
           /\ pc[a] = "restore" => StopLeft(a) \in 1 .. 2 * Cardinality(BackedUp(a)) + 2
<1> SUFFICES ASSUME pc[a] = "restore"
             PROVE  /\ IsFiniteSet(todo[a]) /\ Cardinality(todo[a]) \in Nat
                    /\ StopLeft(a) \in 1 .. 2 * Cardinality(BackedUp(a)) + 2
  OBVIOUS
<1>1. todo[a] \subseteq BackedUp(a) /\ IsFiniteSet(BackedUp(a))
  BY DEF TypeInv, Restoring, AllBytesCounted, BytesCounted
<1>2. IsFiniteSet(todo[a]) /\ Cardinality(todo[a]) <= Cardinality(BackedUp(a))
  BY <1>1, FS_Subset
<1>3. Cardinality(todo[a]) \in Nat /\ Cardinality(BackedUp(a)) \in Nat
  BY <1>1, <1>2, FS_CardinalityType
<1> QED
  BY <1>2, <1>3 DEF StopLeft

LEMMA StopNearer == TypeInv /\ AllBytesCounted /\ [Next]_vars => StopShrinks
<1> SUFFICES ASSUME TypeInv, AllBytesCounted, [Next]_vars, NEW a \in Attacks
             PROVE  /\ StopStep(a) => StopLeft(a)' < StopLeft(a)
                    /\ StopLeft(a)' <= StopLeft(a) \/ Stop(a)
  BY DEF StopShrinks
<1> USE DEF TypeInv, TypeOK, StateType, StopType
<1>1. StopLeft(a) \in Nat
  BY StopLeftType DEF StopLeft
<1>2. ASSUME pc'[a] = pc[a], todo'[a] = todo[a], probe'[a] = probe[a]
      PROVE  StopLeft(a)' = StopLeft(a)
  BY <1>2 DEF StopLeft
<1>3. ASSUME pc'[a] # "restore"
      PROVE  StopLeft(a)' = 0
  BY <1>3 DEF StopLeft
<1>4. ASSUME NEW k \in Keys, RestoreExists(a, k)
      PROVE  StopLeft(a)' \in Nat /\ StopLeft(a)' < StopLeft(a)
  <2>1. /\ pc[a] = "restore" /\ pc'[a] = "restore" /\ probe[a] = NoProbe /\ k \in todo[a]
        /\ todo'[a] = todo[a] \ {k}
    BY <1>4 DEF RestoreExists
  <2>2. /\ Cardinality(todo'[a]) = Cardinality(todo[a]) - 1
        /\ Cardinality(todo'[a]) \in Nat /\ Cardinality(todo[a]) \in Nat
    BY <2>1, StopLeftType, FS_RemoveElement, FS_CardinalityType
  <2> QED
    BY <2>1, <2>2 DEF StopLeft
<1>5. ASSUME RestoreWrite(a)
      PROVE  StopLeft(a)' \in Nat /\ StopLeft(a)' < StopLeft(a)
  <2>1. /\ pc[a] = "restore" /\ pc'[a] = "restore" /\ probe[a] # NoProbe /\ probe'[a] = NoProbe
        /\ todo'[a] = todo[a]
    BY <1>5 DEF RestoreWrite
  <2> QED
    BY <2>1, StopLeftType DEF StopLeft
<1>6. ASSUME StopReturn(a)
      PROVE  StopLeft(a)' \in Nat /\ StopLeft(a)' < StopLeft(a)
  <2>1. pc[a] = "restore" /\ StopLeft(a)' = 0
    BY <1>3, <1>6 DEF StopReturn, StopAnswer
  <2> QED
    BY <2>1, StopLeftType
<1>7. StopStep(a) => StopLeft(a)' \in Nat /\ StopLeft(a)' < StopLeft(a)
  BY <1>4, <1>5, <1>6 DEF StopStep
<1>8. StopLeft(a)' <= StopLeft(a) \/ Stop(a)
  <2>1. ASSUME NEW b \in Attacks, Prepare(b) \/ StartStep(b)
        PROVE  StopLeft(a)' <= StopLeft(a)
    <3>1. todo' = todo /\ probe' = probe /\ (pc'[a] = pc[a] \/ pc'[a] # "restore")
      BY <2>1 DEF Prepare, StartStep, StartPing, BackupGet, BackupTTL, LockKeys, Expire, StartError,
                  NextBackup, stopLocals
    <3> QED
      BY <1>1, <1>2, <1>3, <3>1
  <2>2. ASSUME NEW b \in Attacks, b # a, Stop(b) \/ StopStep(b)
        PROVE  pc'[a] = pc[a] /\ todo'[a] = todo[a] /\ probe'[a] = probe[a]
    BY <2>2 DEF Stop, StopStep, RestoreExists, RestoreWrite, StopReturn, StopAnswer
  <2>3. ASSUME NEW k \in Keys, Elapse(k) \/ AppSet(k)
        PROVE  pc'[a] = pc[a] /\ todo'[a] = todo[a] /\ probe'[a] = probe[a]
    BY <2>3 DEF Elapse, AppSet, stopLocals
  <2>4. ASSUME Restart PROVE StopLeft(a)' <= StopLeft(a)
    <3>1. pc'[a] # "restore"
      BY <2>4 DEF Restart
    <3> QED
      BY <1>1, <1>3, <3>1
  <2>5. CASE UNCHANGED vars
    BY <1>1, <1>2, <2>5 DEF vars, stopLocals
  <2> QED
    BY <1>1, <1>2, <1>7, <2>1, <2>2, <2>3, <2>4, <2>5 DEF Next
<1> QED
  BY <1>7, <1>8

\* Every handler ends after a bounded number of Redis commands, whatever the others do: a
\* Start of n matched keys after at most 3n + 2 steps, a Stop after at most two per backup
\* and one.  This is the part of StartedIsStopped that does not depend on fairness.
THEOREM HandlersEnd ==
    Spec => /\ [](\A a \in Attacks : StartLeft(a) \in 0 .. 3 * Len(matchedKeys[a]) + 2)
            /\ [](\A a \in Attacks : pc[a] = "restore" =>
                                       StopLeft(a) \in 1 .. 2 * Cardinality(BackedUp(a)) + 2)
            /\ [][StartShrinks /\ StopShrinks]_vars
<1>1. TypeInv => \A a \in Attacks : StartLeft(a) \in 0 .. 3 * Len(matchedKeys[a]) + 2
  BY StartLeftType
<1>2. TypeInv /\ AllBytesCounted =>
        \A a \in Attacks : pc[a] = "restore" => StopLeft(a) \in 1 .. 2 * Cardinality(BackedUp(a)) + 2
  BY StopLeftType
<1>3. TypeInv /\ AllBytesCounted /\ [Next]_vars => [StartShrinks /\ StopShrinks]_vars
  BY StartNearer, StopNearer
<1> QED
  BY <1>1, <1>2, <1>3, InitType, NextType, InitBytes, NextBytes, PTL DEF Spec
=============================================================================
