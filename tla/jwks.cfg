CONSTANTS
    Callers = {c1, c2}
    Kids = {k1, k2}
    Caches = {o1, o2}
    Ttl = 2
    FetchTime = 1
    MaxTime = 4
    MaxRotations = 1
    Nil = Nil
SPECIFICATION Spec
SYMMETRY Symmetry
INVARIANTS
    TypeOK
    WithdrawnKeysExpire
    
PROPERTIES
    FetchesApart
