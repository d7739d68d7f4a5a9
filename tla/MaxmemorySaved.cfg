SPECIFICATION Spec
CONSTANTS
    n1 = n1
    n2 = n2
    n3 = n3
    Nodes <- MCNodes
    Instance = n1
    MaxFaults = 0
    MaxFailovers = 0
    MaxStops = 1
INVARIANT OriginalsSaved
CHECK_DEADLOCK FALSE
