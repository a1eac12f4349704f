CONSTANTS
    d1 = d1
    d2 = d2
    own = own
    pinecone = pinecone
    r1 = r1
    r2 = r2
    w1 = w1
    w2 = w2
    Docs = {d1}
    Workers = {w1}
    Requests = {r1, r2}
    Indexes = {own, pinecone}
    External = {pinecone}
    MaxChunks = 1
    MaxRequests = 4
    MaxCrashes = 1
    Kinds = {"retry", "stale", "ingest"}
    ManualWhen = {"absent", "ready", "failed", "unsupported"}
    Deletable = {d1}
    PurgeMayFail = TRUE
SPECIFICATION FairSpec
INVARIANTS
    ReadyCountsItsRows
    ReadyIsSearchable
    NoStaleTail
    DeletionWins
PROPERTIES
    RequestsEnd
CHECK_DEADLOCK FALSE
