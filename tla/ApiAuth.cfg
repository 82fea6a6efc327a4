SPECIFICATION Spec
CONSTANTS
    Requests = {r1, r2}
    Clients = {c1, c2, c3, c4}
    Panels = {p1, p2}
    NoPanel = NoPanel
    Window = 1
    FailedWindow = 2
    MaxRequests = 2
    GlobalMax = 2
    HeavyMax = 1
    FailedMax = 1
    MaxBuckets = 2
    EvictTo = 1
    PruneEvery = 1
    LeaseSeconds = 1
    RefreshSeconds = 1
    MaxTime = 2
    MaxSent = 4
    MaxTrouble = 1
SYMMETRY Symmetric
INVARIANTS
    TypeOK
    GuessesAreBounded
    TablesStayBounded
PROPERTY
    OneOwner
CHECK_DEADLOCK FALSE
