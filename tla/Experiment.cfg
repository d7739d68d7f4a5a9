SPECIFICATION ExperimentSpec
CONSTANTS
    n1 = n1
    n2 = n2
    p1 = p1
    p2 = p2
    p3 = p3
    k1 = k1
    k2 = k2
    k3 = k3
    Check = Check
    Sleep = Sleep
    Discovering = Discovering
    Scanning = Scanning
    Nodes <- MCNodes
    Views <- MCViews
    Configured <- MCConfigured
    Databases = {{}, {0, 3}}
    Keys <- MCKeys
    StringKeys <- MCStringKeys
    MaxKeys = 2
    MaxFound = 3
    MaxMoves = 1
    Endpoint = n1
    Checked = n1
    Sleeper = n1
    Pauses <- MCPauses
    Requests <- MCRequests
    Experiments <- MCExperiments
    CallTimeout = 1
    MaxPauseStops = 1
    RedisMode = "standalone"
    SleepDurations = {1, 2}
    ReadTimeout = 1
    MaxRetries = 1
    CallsMayFail = TRUE
    Kinds <- AllKinds
    MaxPercent = 80
    MaxValue = 5
    RequireLinkUp = TRUE
    Values <- SomeValues
    Capacities = {0, 6}
    Duration = 2
    PollInterval = 1
    StatusTimeout = 1
    MaxTime = 3
INVARIANTS TypeOK PassedMeansBelow FailedMeansReason PausedUntilEnd PausesExpire NothingLeftPaused ShortSleepsOnly DisruptionFailsCheck TargetsComplete ScanComplete
PROPERTY CheckEnds
CHECK_DEADLOCK FALSE
