SPECIFICATION LifeSpec
CONSTANTS
  s1 = s1
  s2 = s2
  Slots = {s1, s2}
  OrderSlots = {s1}
  BatchMax = 2
  LongPoll = 2
  HandlerTimeout = 6
  MaxAge = 6
  ServiceDrain = 2
  WorkerDrain = 1
  InitialDelay = 2
  ProbePeriod = 3
  Threshold = 3
  Grace = 6
  MaxFaults = 1
  MaxStops = 1
INVARIANTS
  RestartsHaveReasons
  StopsInTime
  CleanExitsLoseNothing
PROPERTIES
  HalfDeadIsReplaced
