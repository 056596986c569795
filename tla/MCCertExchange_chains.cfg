SPECIFICATION Spec
CONSTANTS
    c1 = c1  c2 = c2  c3 = c3  e1 = e1  e2 = e2  e3 = e3  d1 = d1  d2 = d2  none = none
    Conns = {c1, c2, c3}
    Callers = {c1, c2, c3}
    Roles = {"server", "client"}
    Sources = {"shared", "copy"}
    Pairs <- OnePair
    LeafAlg = "p256"
    Algs = {"p256", "p384"}
    Offers = {{}, {"p384"}}
    Ders = {d1}
    Entries = {e1, e2, e3}
    Chain <- OneCert
    DCMaxTTL = 1
    MaxTime = 2
INVARIANTS
    CacheInv
    
PROPERTIES
    RejectedForTime
    
SYMMETRY Sym
CHECK_DEADLOCK FALSE
