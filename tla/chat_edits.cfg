CONSTANTS
    t1 = t1
    t2 = t2
    t3 = t3
    s1 = s1
    s2 = s2
    Turns = {t1, t2, t3}
    Sessions = {s1}
    Streaming = {t1}
    Preferences <- NoPreferences
    HistoryLimit = 4
    MaxIterations = 1
    MaxCalls = 1
    MaxBranches = 0
    MaxDeletions = 0
    MayFail = TRUE
SPECIFICATION Spec
INVARIANTS
    AsksTheQuestion
    ImagesAreStored
PROPERTIES
    PruneIsReplaced
SYMMETRY Symmetry
CHECK_DEADLOCK FALSE
