SPECIFICATION ServicesSpec
CONSTANTS
  Delivery <- SomeDeliveries
  NoId = NoId
  Handler = {"h1", "h2"}
  MaxLost = 1
  Operator = {"o1", "o2"}
  MaxTasks = 2
  MaxArrivals = 1
  Arrivals = {"PaymentFailed", "RetrySucceeded"}
  Watcher = {"retry_count_7d", "open_ptp_due"}
  Subject = {"s1", "s2"}
  Facts <- SomeFacts
  Cooldown = 2
  Scanner = {"k1", "k2"}
  MaxOverlaps = 1
  MaxScanCrashes = 1
  RuledType = {"subscription", "payment"}
  CaseType = "subscription"
  Context <- SomeContexts
  Overrides <- SecondContact
  MaxVersion = 2
  MaxCounted = 2
  MaxDecisions = 1
  MaxDay = 1
  MonthLength <- Months
  IN_BANK_HOLIDAYS <- Holidays
  Zone <- Zones
  Timing <- Timings
  Paydays <- Histories
  AskedAt <- Moments
  BreakerCaller = {"b1", "b2", "b3"}
  Threshold = 2
  OpenFor = 2
  MaxFailures = 5
  Spender = {"c1", "c2", "c3"}
  Payer <- Payers
  max_in_flight = 1
  Budget = 3
  Estimate = {0, 1}
  MaxCost = 2
  BucketKey = {"reads", "writes"}
  Capacity = 2
  Scale = 3
  MaxTicks = 4
INVARIANTS
  TypeInvariant
  TaskAndEvent
  OneRecoveryPerTrouble
  
  ReplayIsTheGate
  DueInWorkingHours
  PaydayAhead
  OneProbePerOpening
  OverrunBounded
  RateHeld
PROPERTIES
  
  EventuallyTold
  ClosesAgain
  EveryDeliveryCaptured
CHECK_DEADLOCK FALSE
