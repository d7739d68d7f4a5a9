SPECIFICATION Spec
CONSTANTS
    Keys <- TwoKeys
    Values <- MCValues
    ValueSize <- MCSize
    a1 = a1
    a2 = a2
    k1 = k1
    k2 = k2
    k3 = k3
    v1 = v1
    v2 = v2
    NoValue = NoValue
    Attacks <- TwoAttacks
    InitEntry <- LastingEntries
    MatchLists <- AnyLists
    AttackTTL = 1
    MaxTTL = 1
    MaxBackupBytes = 2
    CommandsMayFail = TRUE
    MaxStops = 1
    MaxRestarts = 0
    MaxAppWrites = 1
SYMMETRY AttackSymmetry
INVARIANTS TypeOK MutualExclusion LockedWhileAttacked AbortLeavesNoTrace BackupWithinLimit RestoredAsReported
PROPERTY KeyMutexSpec
CHECK_DEADLOCK FALSE
