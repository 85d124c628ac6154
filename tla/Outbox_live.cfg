SPECIFICATION FairSpec
CONSTANTS
  k1 = k1
  k2 = k2
  w1 = w1
  w2 = w2
  e1 = e1
  p1 = p1
  p2 = p2
  NoKey = NoKey
  Key = {k1, k2}
  Worker = {w1, w2}
  ProcessOf <- Together
  EntityOf <- OneEntity
  Action = {"RETRY_NOW"}
  StickyRefusal = FALSE
  MAX_ATTEMPTS = 1
  MaxStray = 0
  MaxCrashes = 1
INVARIANTS
  TypeInvariant
  NoEffectWithoutIntent
  AtMostOneReceipt
  OutcomeWithReceipt
PROPERTIES
  DanglingIsResolved
CHECK_DEADLOCK FALSE
