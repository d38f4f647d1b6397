SPECIFICATION MemorySpec
CONSTANTS
  cancel = cancel  renew = renew  noise = noise  w1 = w1  w2 = w2
  NItems = 2
  FactsOf <- Short
  Excluded = {}
  Malformed = {}
  Weaker <- Renewal
  Processes <- OneProcess
  Claiming = {}
  SlowJobs = FALSE
  MAX_ATTEMPTS = 2
  MaxOutages = 1
  MaxCrashes = 1
  MaxRequeues = 0
  MaxClaims = 5
  Thread = {w1, w2}
  Memory = {1, 2, 3, 4}
  BeliefOf <- Tellings
  Opposed = {{"p", "np"}}
  EvidenceOf <- Findings
  Early = {1, 2, 3}
  MaxScans = 2
  MaxItems = 2
  MaxTroubles = 1
  Projected = {"token", "bare", "plain"}
  Relational = {"token", "bare"}
  Proved = {"token"}
  FormedAs <- AgainstOrder
  Observed = {"bare"}
  MaxUpsets = 3
 
INVARIANT CompletedIsWhole
INVARIANT CorrectionsHold
INVARIANT ProjectionsHold
CHECK_DEADLOCK FALSE
SYMMETRY Threads
