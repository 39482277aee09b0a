SPECIFICATION SafeSpec
CONSTANTS
  r1 = r1
  r2 = r2
  r3 = r3
  oa = oa
  ob = ob
  ia = ia
  ib = ib
  Requests = {r1, r2, r3}
  Orders = {oa, ob}
  Items = {ia}
  OrderOf <- SameOrderOf
  ItemOf <- SameItemOf
  QtyOf <- SameQtyOf
  MaxAttempts = 2
  Int32Max = 7
  StockLevels = {0, 2}
  MaxSetStocks = 1
  MaxExpiries = 1
INVARIANTS
  OneGrantPerOrder
  NoOversell
  StockLeaksNeedFailures
CHECK_DEADLOCK FALSE
