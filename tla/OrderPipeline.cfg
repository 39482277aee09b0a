SPECIFICATION PipelineSpec
CONSTANTS
  m1 = m1
  m2 = m2
  p1 = p1
  s1 = s1
  o1 = o1
  w1 = w1
  NoJob = NoJob
  NoRow = NoRow
  Messages = {m1, m2}
  Relays = {w1}
  MaxReceives = 2
  MaxSent = 2
  MaxStops = 1
  MaxKills = 1
  MaxFaults = 1
  MaxTrouble = 1
  KindOf <- OnlyOrders
  Pods = {p1}
  Slots = {s1}
  PodOf <- OneSlot
  BatchMax = 1
  RedisFails = FALSE
  MaxLost = 1
  Rows = {o1}
  CreatedAt <- SameAge
  OrderIn <- OneOrder
  BatchSize = 1
  Poison = {}
INVARIANTS
  OneOutcomePerOrder
PROPERTIES
  StatusFlipsNeedFaults
  OrdersSettle
CHECK_DEADLOCK FALSE
