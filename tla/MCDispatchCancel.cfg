SPECIFICATION CancelSpec
CHECK_DEADLOCK FALSE
CONSTANTS
    Profiles = {"p", "q"}
    Drafts <- MCDrafts
    RANGE_MIN = 12
    RANGE_MAX = 24
    TOLERANCE = 2
    RealGrid = 2
    TextGrid = 6
    PRECONDITION_MAX_AGE = 1
    REQUIRED_PUBLISH_CEILING = 2
    NoProfile = NoProfile
    Admissions <- MCAdmissions
    Presented <- MCPresented
    Routes <- MCRoutes
    PeerPort = 4000
    ServicePorts = {8080}
    DEADLINE_SECS = 1
    DURATION_SECS = 2
    MaxAge = 2
    MaxBoots = 1
    Nil = Nil
INVARIANT
    CancelledIsUnsent
