SPECIFICATION CatalogSpec
CONSTANTS
  r1 = r1
  r2 = r2
  r3 = r3
  r4 = r4
  pa = pa
  pb = pb
  w1 = w1
  w2 = w2
  NoRow = NoRow
  Requests = {r1, r2, r3, r4}
  Rows = {pa, pb}
  ProductOf <- SameProductOf
  PriceOf <- PricesOf
  Int32Max = 3
  Relays = {w1, w2}
  CreatedAt <- SameAge
  BatchSize = 2
  Poison = {}
  MaxFaults = 1
INVARIANTS
  IndexMirrorsProducts
  AnswersAreStored
PROPERTIES
  ProductsAreIndexed
CHECK_DEADLOCK FALSE
