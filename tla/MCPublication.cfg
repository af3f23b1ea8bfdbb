SPECIFICATION PublicationSpec
CONSTANTS
    c1 = c1
    c2 = c2
    s1 = s1
    s2 = s2
    a1 = a1
    a2 = a2
    b1 = b1
    b2 = b2
    Callers <- MCCallers
    Ops <- MCOps
    Seals <- MCSeals
    AcceptRequests <- MCAcceptRequests
    ActivateRequests <- MCActivateRequests
    BindingOf <- MCBindingOf
    MaxAccepted = 2
    MaxRows = 2
    NoRequest = NoRequest
    Natives <- MCCallers
    RowKeys = {"f", "a", "c"}
    Children <- MCChildren
    Findings = {"f"}
    Later = {"a"}
    Publishes <- MCPublishes
    Releases = {"r"}
    MAX_LIVE_SEALS = 1
    MAX_HISTORY = 3
    MAX_NODES = 2
    MaxCheckpoints = 2
    MaxAuthority = 1
    MaxDeaths = 1
    NoTask = NoTask
CONSTRAINTS
    Alone
    OneTrouble
SYMMETRY Symmetry
INVARIANTS
    ChainsJoin
    ReadsNeverTorn
    AnswersTrue
    SealsRetained
PROPERTIES
    AcceptsAuthorized
    ImplementsPointer
