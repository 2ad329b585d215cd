\* One credential with two seals and two threads; two providers, jobs and units;
\* a search over five cards, one per page, with two writes to the collection.
CONSTANTS
    p1 = p1
    p2 = p2
    Provider = {p1, p2}
    Model <- Offered
    Id = {p1, p2}
    Priority <- Priorities
    NeedsCredential = {p1}
    Small = {p2}
    Platform = {p2}
    Credential = {c1}
    Thread = {t1, t2}
    Job = {j1, j2}
    OldKey = OldKey
    NewKey = NewKey
    Nothing = Nothing
    NoLimit = NoLimit
    MaxSeals = 2
    MaxUnits = 2
    MaxActive = 2
    MaxQueued = 1
    tenant1 = tenant1
    All = All
    Global = All
    Lexical <- Words
    Order <- KeyOrder
    Cards <- SomeCards
    FirstPoints <- AtFirst
    LocalCards <- Local
    HasFallback = TRUE
    Queries <- SomeQueries
    Raw <- Scores
    PointOrder <- Points
    Semantic = TRUE
    Reranker = TRUE
    PageSize = 1
    MaxPages = 3
    CandidateK = 2
    RerankK = 1
    RrfK = 60
    Scale = 61000
    Thresholds <- FitBounds
    Values <- FitValues
    MaxWrites = 2
SYMMETRY Interchangeable
SPECIFICATION Spec
INVARIANTS
    DeletedIsUnusable
    BudgetIsKept
    RoutesAreJustified
    NothingIsResurrected
    TrustedWasStored
CHECK_DEADLOCK FALSE
