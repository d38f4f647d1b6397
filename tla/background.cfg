SPECIFICATION BackSpec
CONSTANTS
  p1 = p1  p2 = p2  p3 = p3  near = near  far = far
  Proc = {p1, p2, p3}
  Host <- MCHost
  Worker = {}
  Stale = 2
  Prompt = TRUE
  InFlight = TRUE
  Supervised = {p3}
  MaxCrashes = 2
  scheduler = scheduler  request = request
  Edge <- MCEdges
  Said <- Asserted
  Rule <- MCRules
  Runner = {scheduler}
  Sweeper = scheduler
  MAX_PASSES = 3
  MAX_NEW_PER_RUN = 2
  MaxClaims = 4
  MaxTroubles = 1
  Relation = {1, 2, 3}
  EdgeOf <- Works
  Constraint <- OneJob
  Thread = {scheduler, request}
  Scheduler = scheduler
  MaxSwitches = 3
INVARIANT TypesOK
INVARIANT HolderOwnsRow
INVARIANT WithdrawnForCause
PROPERTY DecisionStands
PROPERTY ResolvedIsSettled
PROPERTY Unlocked
 
PROPERTY QuestionsFollow
CHECK_DEADLOCK FALSE
