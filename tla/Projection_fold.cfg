SPECIFICATION FairSpec
CONSTANTS
  f1 = f1
  f2 = f2
  e1 = e1
  e2 = e2
  NoEntity = NoEntity
  Entity = {e1, e2}
  EventType = {"PaymentFailed", "CustomerContacted", "PromiseMade", "PromiseMade without due_at", "PromiseBroken"}
  MaxId = 3
  Serial = TRUE
  Folder = {f1}
INVARIANTS
  TypeInvariant
  NoDrift
PROPERTIES
  WatermarkMonotone
  EventuallyCovered
CHECK_DEADLOCK FALSE
