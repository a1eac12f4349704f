CONSTANTS
    r1 = r1
    r2 = r2
    d1 = d1
    d2 = d2
    Runs = {r1}
    Docs = {d1, d2}
    Plans <- TwoPlans
    Concurrency = 2
    MaxCancels = 1
    MaxDeletions = 1
    MaxCrashes = 1
    MayFail = TRUE
    External = TRUE
SPECIFICATION Spec
INVARIANTS
    CompleteIsComplete
    CancelIsHeeded
CHECK_DEADLOCK FALSE
