SPECIFICATION Spec
CONSTANTS
    c1 = c1  c2 = c2  k1 = k1  k2 = k2  k3 = k3
    Clients = {c1, c2}
    Keys = {k1, k2, k3}
    Elems = {1, 2, 3}
    Capacity = 2
    MaxHandshakes = 2
    MaxSessions = 4
INVARIANTS
    MapAndListAgree
    OfferedToIssuer
    DroppedStaysOut

    
SYMMETRY Names
CHECK_DEADLOCK FALSE
