SPECIFICATION PaySafeSpec
CONSTANTS
  m1 = m1
  m2 = m2
  m3 = m3
  p1 = p1
  p2 = p2
  s1 = s1
  s2 = s2
  Messages = {m1, m2, m3}
  KindOf <- MixedKinds
  Pods = {p1, p2}
  Slots = {s1, s2}
  PodOf <- OneSlotEach
  BatchMax = 1
  MaxReceives = 4
  MaxSent = 1
  MaxStops = 1
  RedisFails = TRUE
  MaxLost = 2
  MaxKills = 1
  NoJob = NoJob
INVARIANTS
  OneOutcomePerMessage
  LostOutcomesNeedStrandedClaims
CHECK_DEADLOCK FALSE
