SPECIFICATION ErasuresSpec
CONSTANTS
  alice = alice  acme = acme  g1 = g1  v1 = v1  v2 = v2
  a1 = a1  a2 = a2  a3 = a3  d1 = d1  d2 = d2  d3 = d3
  pays = pays  unpaid = unpaid  quits = quits  stays = stays
  RETRACTED = RETRACTED  COREF = COREF  ERASURE_NOTE = ERASURE_NOTE
  EntityId = {alice, acme}
  EventId = {v1, v2}
  AgentId = {g1}
  AssertionId = {a1, a2, a3}
  DerivationId = {d1, d2, d3}
  Prop = {pays, unpaid, quits, stays}
  Neg <- MCNeg
  Time <- MCTime
  Agt = g1
  Messages <- MCMessages
  Weaker <- MCWeaker
  ClaimProps = {pays}
  Citable = {alice, v1, a1, a2}
  RequestKinds = {"retract", "supersede", "derive", "corefer", "split"}
  MaxLog = 9
  MaxCrashes = 1
  MaxShared = 6
  Project = {"a"}
  Hand = {"t1", "t2"}
  Grant = {"cli"}
  MaxRows = 2
  MaxBoots = 1
INVARIANT TypeOK
INVARIANT ForgottenIsGone
 
INVARIANT ServesItsLog
INVARIANT TenantsHold
PROPERTY OnlyDependentsGo
CHECK_DEADLOCK FALSE
