SPECIFICATION Spec
CONSTANTS
  s1 = s1
  s2 = s2
  s3 = s3
  e1 = e1
  e2 = e2
  d1 = d1
  d2 = d2
  NoSource = NoSource
  NoEntity = NoEntity
  Session = {s1, s2, s3}
  Entity = {e1, e2}
  Source = {d1}
  EventType = {"PaymentFailed"}
  Locked = {s1, s2, s3}
  Serial = TRUE
  MaxId = 3
INVARIANTS
  TypeInvariant
  ChainVerified
  SourceOnce
  LinkedToRecorded
PROPERTIES
  AppendOnly
