CONSTANTS
  c1 = c1
  c2 = c2
  Callers = {c1, c2}
  Limits = {1, 2}
  First = 2
  Rpm = 2
  Window = 2
  Attempts = 2
  MaxDelay = 1
  MaxEdits = 1
  MaxCalls = 4
  Horizon = 3
SPECIFICATION FairSpec
INVARIANTS
    StartsPaced
PROPERTIES
    CallsEnd
CHECK_DEADLOCK FALSE
