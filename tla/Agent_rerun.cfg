SPECIFICATION FairSpec
CONSTANTS
  w1 = w1
  w2 = w2
  p1 = p1
  p2 = p2
  e1 = e1
  e2 = e2
  NoEntity = NoEntity
  Entity = {e1}
  Cause = {"insufficient_funds"}
  Channel = {"sms"}
  Worker = {w1}
  ProcessOf <- OneSession
  Serial = TRUE
  Taxonomy <- DefaultTaxonomy
  Rules <- DefaultRules
  DoNotContact = {}
  Proposals <- RetryLater
  Answers = {"completed", "failed"}
  Observed = {}
  Delays = {0}
  MaxTime = 0
  MaxFailures = 1
  MaxObserved = 0
  MaxAborts = 1
PROPERTIES
  QueueDrains
CHECK_DEADLOCK FALSE
