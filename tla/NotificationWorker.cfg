SPECIFICATION NoticeSpec
CONSTANTS
  m1 = m1
  m2 = m2
  p1 = p1
  p2 = p2
  s1 = s1
  s2 = s2
  NoJob = NoJob
  Messages = {m1, m2}
  KindOf <- TwoKinds
  Pods = {p1, p2}
  Slots = {s1, s2}
  PodOf <- OneSlotEach
  BatchMax = 2
  MaxReceives = 2
  MaxSent = 2
  MaxStops = 1
  MaxKills = 1
  RedisFails = TRUE
INVARIANTS
  OneNoticePerMessage
  LostNoticesNeedCuts
  OverlapsAreTimeouts
PROPERTIES
  AckAfterSuccess
  NoticesArrive
CHECK_DEADLOCK FALSE
