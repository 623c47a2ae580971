SPECIFICATION MCSpec
CONSTANTS
    None = None
    c1 = c1
    c2 = c2
    k1 = k1
    k2 = k2
    o1 = o1
    o2 = o2
    o3 = o3
    Parts = {"failing", "untracked", "leased", "versions", "limits", "faults", "policy", "memory"}
SYMMETRY Symmetry
INVARIANTS
    PrimaryAgrees
    RemovalWins
    ServedWithinTtl
PROPERTY
    PruningExact
