CONSTANTS
    d1 = d1
    d2 = d2
    own = own
    pinecone = pinecone
    r1 = r1
    r2 = r2
    w1 = w1
    w2 = w2
    Docs = {d1, d2}
    Workers = {w1, w2}
    Requests = {r1}
    Indexes = {own}
    External = {}
    MaxChunks = 1
    MaxRequests = 3
    MaxCrashes = 1
    Kinds = {"stale", "ingest"}
    ManualWhen = {"absent", "pending"}
    Deletable = {d1}
    PurgeMayFail = FALSE
SPECIFICATION FairSpec
INVARIANTS
    TypeOK
    NothingStranded
    RowLockIsTheRun
    ExclusiveIngestion
PROPERTIES
    KeepsTheLifecycle
    EverySettles
CHECK_DEADLOCK FALSE
