CONSTANTS
    t1 = t1
    t2 = t2
    t3 = t3
    s1 = s1
    s2 = s2
    Turns = {t1, t2}
    Sessions = {s1}
    Streaming = {t1, t2}
    Preferences <- TwoPreferences
    HistoryLimit = 4
    MaxIterations = 1
    MaxCalls = 1
    MaxBranches = 0
    MaxDeletions = 1
    MayFail = TRUE
SPECIFICATION FairSpec
PROPERTY
    TurnsEnd
CHECK_DEADLOCK FALSE
