SPECIFICATION WorkersSpec
CONSTANTS
  cancel = cancel  renew = renew  noise = noise  w1 = w1  w2 = w2
  NItems = 2
  FactsOf <- Twice
  Excluded = {}
  Malformed = {noise}
  Weaker <- Nobody
  Processes <- TwoWorkers
  Claiming = {w1, w2}
  SlowJobs = FALSE
  MAX_ATTEMPTS = 2
  MaxOutages = 1
  MaxCrashes = 2
  MaxRequeues = 1
  MaxClaims = 8
  Component = {"mailer"}
  Plan = {"retry", "restart", "reboot"}
  Permitted = {"retry", "restart"}
  Thread = {w1, w2}
  MAX_ATTEMPTS_PER_FINGERPRINT = 1
  BUDGET_MAX_RECOVERIES = 2
  MaxReports = 4
  MaxFaults = 1
 
INVARIANT SlotsHold
PROPERTY JobsSettle
CHECK_DEADLOCK FALSE
