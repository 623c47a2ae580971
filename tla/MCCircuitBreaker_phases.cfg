SPECIFICATION Spec
CONSTANTS
    Client = {c1}
    Key = {k1}
    Request = {r1, r2, r3, r4}
    FailureThreshold = 1
    SuccessThreshold = 2
    HalfOpenMaxRequests = 2
    MaxCircuits = 1
    MaxRecords = 2
    MaxInstalls = 2
    MaxResets = 1
    AsyncClassifier = TRUE
    LateHooks = TRUE
SYMMETRY Symmetry
CHECK_DEADLOCK FALSE
INVARIANTS
    SlotsConserved
    SuccessesEarned
PROPERTY
    OpensForCurrentFailure
