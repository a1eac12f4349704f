CONSTANTS
  t1 = t1
  t2 = t2
  Threads = {t1, t2}
  Kinds = {"upload", "reingest", "delete", "refresh"}
  MinChunks = 2
  MaxChanges = 3
  MaxSnapshots = 3
  MaxCrashes = 1
  MayAge = TRUE
  MayFail = TRUE
  ChainMayFail = TRUE
SPECIFICATION FairSpec
INVARIANTS
    PointsExist
    ExtendsItsOwnLayout
PROPERTIES
    OnlyRecheckLosesTheMap
    MarkersResolve
    CatchesUp
CHECK_DEADLOCK FALSE
