SPECIFICATION Spec
CONSTANTS
  e1 = e1  v1 = v1  g1 = g1  h1 = h1  h2 = h2
  a1 = a1  a2 = a2  a3 = a3  d1 = d1  d2 = d2  d3 = d3
  p = p  np = np
  RETRACTED = RETRACTED  COREF = COREF
  EntityId = {e1}
  EventId = {v1}
  AgentId = {g1}
  AssertionId = {a1, a2, a3}
  DerivationId = {d1, d2}
  Prop = {p, np}
  Neg <- MCNeg
  Time <- MCTime
  Handler = {h1, h2}
  Ent = e1  Agt = g1  Evt = v1
  ClaimProps = {p}
  RequestKinds = {"assert", "derive", "supersede", "retract"}
  BecauseSets <- ClaimSupport
  AntecedentSets <- ClaimSupport
  RequireGrounded = FALSE
  MaxClock = 3
  MaxLog = 6
  MaxCrashes = 1
  MaxShared = 5
INVARIANT TypeOK
INVARIANT RestartChangesNothing
 
 
CHECK_DEADLOCK FALSE
SYMMETRY ServerSymmetry
