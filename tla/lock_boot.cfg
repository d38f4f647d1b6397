SPECIFICATION Spec
CONSTANTS
  p1 = p1  p2 = p2  p3 = p3  near = near  far = far
  Proc = {p1, p3}
  Host <- MCHost
  Worker = {}
  Stale = 2
  Prompt = TRUE
  InFlight = FALSE
  Supervised = {p3}
  MaxCrashes = 2
INVARIANT ServingEngineIsWhole
CHECK_DEADLOCK FALSE
