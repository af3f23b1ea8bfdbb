SPECIFICATION JoinedSpec
CHECK_DEADLOCK FALSE
CONSTANTS
    o1 = o1
    o2 = o2
    ann = ann
    bob = bob
    Ops <- MCOps
    Actors <- MCActors
    Targets <- MCTargets
    Requests <- MCRequests
    RateMax = 2
    RateWindow = 1
    MaxTime = 1
    MaxTasks = 0
    Deadline = 1
    MaxRev = 2
    NoRow = NoRow
    NoOp = NoOp
    NoCall = NoCall
    Coordinators <- MCOps
    NoRequest = NoRequest
    Requested <- MCRequested
    PageSizes = {1, 2}
    MAX_WORK = 3
    MaxGrants = 1
SYMMETRY Symmetry
INVARIANTS
    GrantedOnce
    NothingForgotten
    HandoffSawPublication
    ApiJournalSound
PROPERTIES
    GrantsNewest
