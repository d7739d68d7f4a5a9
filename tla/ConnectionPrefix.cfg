SPECIFICATION FairSpec
CONSTANTS
    a1 = a1
    a2 = a2
    plain = plain
    withDB = withDB
    Attacks <- MCAttacks
    URLs <- MCURLs
    IsPrefix <- MCIsPrefix
    URLOf <- PrefixURLs
    NumConnections = 1
    MaxMasters = 1
    MaxClients = 3
    FailLimit = 5
    MayFail = FALSE
    MaxStops = 1
    MaxDrops = 0
INVARIANT NothingLeftAfterStop
CHECK_DEADLOCK FALSE
