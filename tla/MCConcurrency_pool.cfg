SPECIFICATION Spec
CONSTANTS
    Client = {c1, c2}
    Key = {k1}
    Request = {r1, r2, r3, r4}
    MaxConcurrent = 2
    MaxQueue = 2
    MaxKeys = 1
    MaxInstalls = 1
    Modes = {"bypass", "finite"}
    LateHooks = TRUE
SYMMETRY Symmetry
CHECK_DEADLOCK FALSE
INVARIANT
    NoWaiterBesideFreePermit
PROPERTIES
    NoOvertaking
    RemovalIsScoped
    ImplementsPool
