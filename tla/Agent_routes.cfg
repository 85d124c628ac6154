SPECIFICATION Spec
CONSTANTS
  w1 = w1
  w2 = w2
  p1 = p1
  p2 = p2
  e1 = e1
  e2 = e2
  NoEntity = NoEntity
  Entity = {e1}
  Cause = {"fraud_block", "by_decree", "card_expired"}
  Channel = {"sms"}
  Worker = {w1}
  ProcessOf <- OneSession
  Serial = TRUE
  Taxonomy <- DefaultTaxonomy
  Rules <- DefaultRules
  DoNotContact = {e1}
  Proposals <- Everything
  Answers = {"completed"}
  Observed = {"PaymentMethodChanged"}
  Delays = {0}
  MaxTime = 2
  MaxFailures = 2
  MaxObserved = 1
  MaxAborts = 1
INVARIANTS
  TypeInvariant
  NewMethodFirst
CHECK_DEADLOCK FALSE
