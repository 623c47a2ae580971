SPECIFICATION MCSpec
CONSTANTS
    None = None
    r1 = r1
    r2 = r2
    r3 = r3
    i1 = i1
    i2 = i2
    f1 = f1
    f2 = f2
    Parts = {"refusals", "policy", "attempts", "routes", "recordings", "replays", "traces", "measures", "transfers"}
SYMMETRY Symmetry
INVARIANTS
    RefreshShared
    RetryWithinBudget
    CallsAccounted
    SpansAgree
    MetricsAgree
    TransferKept
PROPERTY
    RemovedStaysSilent
