SPECIFICATION MCSpec
CONSTANTS
    NumPlugins = 2
    MaxAttempts = 2
    MaxChanges = 1
    Fallbacks = TRUE
    Connections = 3
    MaxEvents = 4
    Undefined = Undefined
CHECK_DEADLOCK FALSE
INVARIANTS
    ResponseIsFresh
    SettledSeesOutcome
    StreamKept
PROPERTIES
    AbortWins
    Ends
    CloseEnds
