SPECIFICATION FairSpec
CONSTANTS
    a1 = a1
    a2 = a2
    plain = plain
    withDB = withDB
    Attacks <- MCAttacks
    URLs <- MCURLs
    IsPrefix <- MCIsPrefix
    URLOf <- SameURL
    NumConnections = 3
    MaxMasters = 2
    MaxClients = 3
    FailLimit = 1
    MayFail = FALSE
    MaxStops = 2
    MaxDrops = 1
INVARIANTS TypeOK OneHolder NothingLeftAfterStop AllAttempted Balanced
PROPERTIES ClosedForGood EventuallyClosed
CHECK_DEADLOCK FALSE
