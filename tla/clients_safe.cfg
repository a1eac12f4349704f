CONSTANTS
    k1 = k1
    k2 = k2
    c1 = c1
    c2 = c2
    c3 = c3
    f1 = f1
    f2 = f2
    f3 = f3
    Keys = {k1, k2}
    Callers = {c1, c2, c3}
    Futures = {f1, f2, f3}
    MaxEntries = 1
    MaxInvalidations = 1
    MayFail = TRUE
SPECIFICATION FairSpec
INVARIANTS
    ClosedOnce
    NoneLeaks
    CachedIsOpen
PROPERTIES
    LookupsEnd
CHECK_DEADLOCK FALSE
