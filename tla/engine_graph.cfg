SPECIFICATION Spec
CONSTANTS
  e1 = e1  e2 = e2  v1 = v1  g1 = g1
  a1 = a1  a2 = a2  a3 = a3  d1 = d1  d2 = d2
  p = p  np = np
  RETRACTED = RETRACTED  COREF = COREF
  EntityId = {e1}
  EventId = {v1}
  AgentId = {g1}
  AssertionId = {a1, a2, a3}
  DerivationId = {d1, a3}
  Prop = {p, np}
  MaxTime = 1
  Time <- MCTime
  Neg <- MCNeg
  ClaimProps = {p}
  SubjectSets <- MCSubjectSets
  OldLists <- MCOldLists
  AntecedentSets <- SingleAntecedents
INVARIANT TypeOK
INVARIANT NothingDangles
INVARIANT DerivationsAcyclic
PROPERTY GroundedForEver
CHECK_DEADLOCK FALSE
SYMMETRY IdSymmetry
