SPECIFICATION FraudSafeSpec
CONSTANTS
  m1 = m1
  m2 = m2
  m3 = m3
  m4 = m4
  p1 = p1
  p2 = p2
  s1 = s1
  s2 = s2
  ua = ua
  NoJob = NoJob
  Messages = {m1, m2, m3, m4}
  KindOf <- MixedKinds
  Users = {ua}
  UserOf <- OneUser
  Threshold = 1
  Pods = {p1}
  Slots = {s1, s2}
  PodOf <- TwoSlots
  BatchMax = 1
  MaxReceives = 2
  MaxSent = 2
  MaxStops = 1
  MaxKills = 1
  MaxWindows = 1
  RedisFails = TRUE
SYMMETRY DetectorSymmetry
INVARIANTS
  CountedOnce
  CountsAreBounded
  LostEventsNeedAborts
CHECK_DEADLOCK FALSE
