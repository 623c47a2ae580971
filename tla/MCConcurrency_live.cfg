SPECIFICATION FairSpec
CONSTANTS
    Client = {c1, c2}
    Key = {k1}
    Request = {r1, r2, r3}
    MaxConcurrent = 1
    MaxQueue = 2
    MaxKeys = 1
    MaxInstalls = 1
    Modes = {"infinite"}
    LateHooks = FALSE

CHECK_DEADLOCK FALSE
INVARIANT
    PermitReturned
PROPERTY
    QueueMoves
