SPECIFICATION Spec
CONSTANTS
    p1 = p1
    p2 = p2
    p3 = p3
    k1 = k1
    k2 = k2
    None = None
    Callers <- MCCallers
    Keys <- MCKeys
    MaxClients = 4
SYMMETRY Symmetry
INVARIANTS TypeOK SharedStaysOpen OpenAreHeld OnePerKey
PROPERTY AtomicGet
CHECK_DEADLOCK FALSE
