CONSTANTS
    r1 = r1
    r2 = r2
    d1 = d1
    d2 = d2
    Runs = {r1, r2}
    Docs = {d1}
    Plans <- OnePlan
    Concurrency = 2
    MaxCancels = 0
    MaxDeletions = 1
    MaxCrashes = 0
    MayFail = TRUE
    External = TRUE
SPECIFICATION FairSpec
INVARIANTS
    CorpusAttempted
PROPERTIES
    RunsEnd
CHECK_DEADLOCK FALSE
