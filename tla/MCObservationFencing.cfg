SPECIFICATION MCSpec
CONSTANTS
    h1 = h1
    h2 = h2
    Handles <- MCHandles
    Keys <- MCKeys
    Bindings <- MCBindings
    Inputs <- MCInputs
    REPLAY_ROWS = 2
    WINDOW_SLOTS = 1
    SPOOL_SLOTS = 3
    RESERVE_SLOTS = 1
    PIN_LIMIT = 1
    EVICT_ROWS = 1
    GAP_LIMIT = 1
    LIFETIME = 1
    MaxCommits = 3
    MaxTime = 1
    MaxCrashes = 0
    None = None
INVARIANTS
    SoleOwner
CHECK_DEADLOCK FALSE
