SPECIFICATION Spec
CONSTANTS
  w1 = w1
  w2 = w2
  p1 = p1
  p2 = p2
  e1 = e1
  e2 = e2
  NoEntity = NoEntity
  Entity = {e1}
  Cause = {"network_timeout"}
  Channel = {"sms"}
  Worker = {w1, w2}
  ProcessOf <- Together
  Serial = TRUE
  Taxonomy <- DefaultTaxonomy
  Rules <- DefaultRules
  DoNotContact = {}
  Proposals <- Retries
  Answers = {"failed"}
  Observed = {}
  Delays = {0}
  MaxTime = 2
  MaxFailures = 3
  MaxObserved = 0
  MaxAborts = 0
INVARIANTS
  GatedAttemptsWithinLimit
SYMMETRY Sessions
CHECK_DEADLOCK FALSE
