SPECIFICATION Spec
CONSTANTS
  ra = ra
  rb = rb
  c1 = c1
  c2 = c2
  c3 = c3
  c4 = c4
  NoCall = NoCall
  Rules = {ra, rb}
  Calls = {c1, c2, c3, c4}
  RulesOf <- SharedRule
  ByName = {c4}
  Copies <- TwiceOrOnce
  MaxTries = 2
  MaxFaults = 2
  MaxCloses = 1
INVARIANTS
  HandledMeansClosed
  RevocationsAreAnnounced
PROPERTIES
  OpenRulesAreClosed
CHECK_DEADLOCK FALSE
