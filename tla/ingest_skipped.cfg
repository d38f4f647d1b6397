SPECIFICATION Spec
CONSTANTS
  cancel = cancel  renew = renew  noise = noise  w1 = w1  w2 = w2
  NItems = 3
  FactsOf <- Again
  Excluded = {}
  Malformed = {}
  Weaker <- Renewal
  Processes <- OneThread
  Claiming = {}
  SlowJobs = FALSE
  MAX_ATTEMPTS = 2
  MaxOutages = 0
  MaxCrashes = 0
  MaxRequeues = 0
  MaxClaims = 6
INVARIANT SkippedIsOpen
CHECK_DEADLOCK FALSE
