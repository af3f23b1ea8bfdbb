SPECIFICATION MCObservationSpec
CONSTANTS
    h1 = h1
    h2 = h2
    Handles <- MCHandles
    Keys <- MCKeys
    Bindings <- MCBindings
    Inputs <- MCInputs
    REPLAY_ROWS = 2
    WINDOW_SLOTS = 1
    SPOOL_SLOTS = 3
    RESERVE_SLOTS = 1
    PIN_LIMIT = 1
    EVICT_ROWS = 1
    GAP_LIMIT = 1
    LIFETIME = 1
    MaxCommits = 3
    MaxTime = 1
    MaxCrashes = 1
    None = None
    Contexts <- MCContexts
    Reads <- MCReads
    LIMIT = 2
    MAX_AGE = 2
    MAX_WALL_SKEW = 1
    MaxReal = 2
    MaxSteps = 1
    MaxAllocations = 2
    Nothing = Nothing
INVARIANTS
    WindowAccounted
    AbsenceProven
    IdentityOnce
    ServedFit
PROPERTIES
    HeldRowsStay
CONSTRAINT Bounds
CHECK_DEADLOCK FALSE
