SPECIFICATION Spec
CONSTANTS
  alice = alice  acme = acme  g1 = g1  v1 = v1  v2 = v2
  a1 = a1  a2 = a2  a3 = a3  d1 = d1  d2 = d2  d3 = d3
  pays = pays  unpaid = unpaid  quits = quits  stays = stays
  RETRACTED = RETRACTED  COREF = COREF  ERASURE_NOTE = ERASURE_NOTE
  EntityId = {alice, acme}
  EventId = {v1, v2}
  AgentId = {g1}
  AssertionId = {a1, a2}
  DerivationId = {d1, d2}
  Prop = {pays, unpaid, quits, stays}
  Neg <- MCNeg
  Time <- MCTime
  Agt = g1
  Messages <- WordsMessages
  Weaker <- MCWeaker
  ClaimProps = {pays}
  Citable = {alice, v1, a1, a2}
  RequestKinds = {}
  MaxLog = 9
  MaxCrashes = 0
  MaxShared = 7
INVARIANT WordsAreGone
CHECK_DEADLOCK FALSE
