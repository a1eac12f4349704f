CONSTANTS
    k1 = k1
    k2 = k2
    c1 = c1
    c2 = c2
    e1 = e1
    e2 = e2
    e3 = e3
    e4 = e4
    Keys = {k1, k2}
    Callers = {c1, c2}
    Entries = {e1, e2, e3, e4}
    Fresh = 0
    MaxStale = 1
    RetryAfter = 1
    MaxEntries = 1
    RefreshWorkers = 1
    MaxTime = 2
    MaxVersion = 1
    MaxCalls = 3
    MayFail = TRUE
SPECIFICATION FairSpec
INVARIANTS
    OneLoadPerEntry
    InvalidationHolds
PROPERTIES
    CallsEnd
    NeverOlder
    InFlightIsKept
CHECK_DEADLOCK FALSE
