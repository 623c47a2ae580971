SPECIFICATION FairSpec
CONSTANTS
    Client = {c1, c2}
    Key = {k1, k2}
    Request = {r1, r2, r3}
    FailureThreshold = 1
    SuccessThreshold = 1
    HalfOpenMaxRequests = 1
    MaxCircuits = 1
    MaxRecords = 2
    MaxInstalls = 1
    MaxResets = 0
    AsyncClassifier = FALSE
    LateHooks = FALSE
CHECK_DEADLOCK FALSE
INVARIANT
    LruKept
PROPERTIES
    BusyCircuitKept
    SaturationEnds
