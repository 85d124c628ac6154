SPECIFICATION Spec
CONSTANTS
  k1 = k1
  k2 = k2
  w1 = w1
  w2 = w2
  e1 = e1
  p1 = p1
  p2 = p2
  NoKey = NoKey
  Key = {k1, k2}
  Worker = {w1, w2}
  ProcessOf <- Apart
  EntityOf <- OneEntity
  Action = {"RETRY_NOW", "ESCALATE_HUMAN"}
  StickyRefusal = TRUE
  MAX_ATTEMPTS = 2
  MaxStray = 1
  MaxCrashes = 1
PROPERTIES
  ExactlyOnceRefinement
CHECK_DEADLOCK FALSE
