SPECIFICATION Spec
CONSTANTS
    Client = {c1, c2}
    Key = {k1, k2}
    Request = {r1, r2, r3}
    MaxRequests = 1
    Interval = 2
    MaxQueue = 2
    MaxKeys = 1
    Delays = {1, 3}
    MaxRetryAfter = 2
    Modes = {"bypass", "finite"}
    MaxTime = 3
    MaxInstalls = 1
    LateHooks = FALSE
SYMMETRY Symmetry
CHECK_DEADLOCK FALSE
INVARIANTS
    WindowBounded
    WaiterHasTimer
PROPERTY
    GrantsInOrder
