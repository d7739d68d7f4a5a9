SPECIFICATION FairSpec
CONSTANTS
    Keys <- ThreeKeys
    Values <- MCValues
    ValueSize <- MCSize
    a1 = a1
    a2 = a2
    k1 = k1
    k2 = k2
    k3 = k3
    v1 = v1
    v2 = v2
    NoValue = NoValue
    Attacks <- TwoAttacks
    InitEntry <- MixedEntries
    MatchLists <- DisjointLists
    AttackTTL = 1
    MaxTTL = 1
    MaxBackupBytes = 3
    CommandsMayFail = FALSE
    MaxStops = 2
    MaxRestarts = 1
    MaxAppWrites = 0
INVARIANTS LockedMeansAttacked ModifiedKeysBackedUp RestoredAsReported OriginalsAfterAttacks
PROPERTIES StartedIsStopped LocksAreReleased
CHECK_DEADLOCK FALSE
