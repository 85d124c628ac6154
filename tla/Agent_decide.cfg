SPECIFICATION FairSpec
CONSTANTS
  w1 = w1
  w2 = w2
  p1 = p1
  p2 = p2
  e1 = e1
  e2 = e2
  NoEntity = NoEntity
  Entity = {e1}
  Cause = {"network_timeout"}
  Channel = {"sms"}
  Worker = {w1, w2}
  ProcessOf <- Apart
  Serial = FALSE
  Taxonomy <- DefaultTaxonomy
  Rules <- DefaultRules
  DoNotContact = {}
  Proposals <- Retries
  Answers = {"completed", "unknown"}
  Observed = {}
  Delays = {0}
  MaxTime = 0
  MaxFailures = 2
  MaxObserved = 0
  MaxAborts = 1
PROPERTIES
  OneDecisionEach
  EveryFailureDecided
CHECK_DEADLOCK FALSE
