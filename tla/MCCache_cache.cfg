SPECIFICATION MCSpec
CONSTANTS
    None = None
    k = k
    t = t
    r1 = r1
    r2 = r2
    r3 = r3
    b1 = b1
    o1 = o1
    o2 = o2
    i1 = i1
    i2 = i2
    Parts = {"keys", "chain", "forms", "tags", "leases", "three"}
SYMMETRY Symmetry
INVARIANTS
    InvalidatedStaysOut
    ReadsSeeInvalidations
    
