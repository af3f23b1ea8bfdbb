SPECIFICATION ActionSpec
CONSTANTS
    o1 = o1
    o2 = o2
    o3 = o3
    Ops <- MCOps
    Actors = {"ann"}
    Targets = {"ahu"}
    Requests <- MCRequests
    RateMax = 2
    RateWindow = 1
    MaxTime = 2
    MaxTasks = 1
    NoRow = NoRow
    NoOp = NoOp
    Profiles = {"p", "q"}
    Drafts <- MCDrafts
    RANGE_MIN = 12
    RANGE_MAX = 24
    TOLERANCE = 2
    RealGrid = 2
    TextGrid = 6
    PRECONDITION_MAX_AGE = 1
    REQUIRED_PUBLISH_CEILING = 2
    NoProfile = NoProfile
    Admissions <- MCAdmissions
    Presented <- MCPresented
    Routes <- MCRoutes
    PeerPort = 4000
    ServicePorts = {8080}
    DEADLINE_SECS = 1
    DURATION_SECS = 2
    MaxAge = 2
    MaxBoots = 1
    Nil = Nil
CONSTRAINT Announced
SYMMETRY Symmetry
INVARIANTS
    RateBound
    GenerationLine
    SealMatchesProof
    DispatchSound
PROPERTIES
    HistoryKept
