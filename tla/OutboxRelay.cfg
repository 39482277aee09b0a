SPECIFICATION RelaySpec
CONSTANTS
  o1 = o1
  o2 = o2
  o3 = o3
  w1 = w1
  w2 = w2
  Rows = {o1, o2, o3}
  Relays = {w1, w2}
  CreatedAt <- CreatedAtOf3
  BatchSize = 2
  Poison = {o3}
  MaxFaults = 3
  NoRow = NoRow
INVARIANTS
  DuplicatesNeedFaults
PROPERTIES
  PromiseKept
