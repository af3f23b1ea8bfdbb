SPECIFICATION OperationsSpec
CHECK_DEADLOCK FALSE
CONSTANTS
    Openers = {p1, p2}
    MAX_CONNECTIONS = 2
    MaxFiles = 3
    NoFile = NoFile
    Tokens = {a, b}
    Entities = {e}
    Limits = {1, 3}
    MAX_REPLAY_ROWS = 2
    MAX_WAL = 1
    MAX_DB = 3
    MaxRows = 2
    MaxTickets = 2
    Absent = Absent
    Callers = {m1, m2}
    Keys = {"k1", "k2"}
    Secrets = {s}
    Requests <- MCRequests
    MaxTime = 1
    ReplayRows = 4
    NoBatch = NoBatch
    Registries = {m1, m2}
    Installed = {"e2"}
    Addresses = {"x"}
    Points <- MCPoints
    Candidates <- MCCandidates
    Operations = {o1, o2}
    Begun <- MCBegun
    MAX_REVISION = 4
    MaxHistory = 5
    MaxAccess = 1
    NoWork = NoWork
    Desks = {m1, m2}
    Recoveries <- MCRecoveries
    Strangers <- MCStrangers
    MaxLedger = 4
    MaxWithdrawn = 1
    NoIntent = NoIntent
    Sites <- MCSites
    MAX_BINDING_REVISION = 3
    Plans <- MCPlans
    Reports = {"r1", "r2"}
    MaxAttempts = 3
SYMMETRY Symmetry
INVARIANTS
    OneStore
    OutboxSound
    AccessSound
    BindingTruth
    RecoveryProven
    SemanticsSound
