SPECIFICATION Spec
CONSTANTS
    Client = {c1, c2}
    Key = {k1, k2}
    Request = {r1, r2, r3}
    MaxConcurrent = 1
    MaxQueue = 1
    MaxKeys = 1
    MaxInstalls = 2
    Modes = {"infinite"}
    LateHooks = TRUE
SYMMETRY Symmetry
CHECK_DEADLOCK FALSE
INVARIANTS
    PermitsConserved
    RetentionBounded
