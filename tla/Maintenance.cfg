SPECIFICATION Spec
CONSTANTS
  e1 = e1
  e2 = e2
  Entity = {e1, e2}
  EventType = {"PaymentFailed", "CardExpiring"}
  Late = {"CardExpiring"}
  MaxId = 3
  MaxTime = 2
  Retention = 0
  Window = 0
  MaxRare = 1
INVARIANTS
  TypeInvariant
  HotChainVerified
  AuditVerifies
  NothingLost
  
PROPERTIES
  DriftExplained
SYMMETRY Entities
CHECK_DEADLOCK FALSE
