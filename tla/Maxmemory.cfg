SPECIFICATION Spec
CONSTANTS
    n1 = n1
    n2 = n2
    n3 = n3
    Nodes <- MCNodes
    Instance = n1
    MaxFaults = 2
    MaxFailovers = 1
    MaxStops = 2
INVARIANTS TypeOK StartedEverywhere StopKeepsItsWord
CHECK_DEADLOCK FALSE
