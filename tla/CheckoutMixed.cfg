SPECIFICATION Spec
CONSTANTS
  r1 = r1
  r2 = r2
  r3 = r3
  oa = oa
  ob = ob
  ia = ia
  ib = ib
  Requests = {r1, r2, r3}
  Orders = {oa, ob}
  Items = {ia, ib}
  OrderOf <- SameOrderOf
  ItemOf <- MixedItemOf
  QtyOf <- MixedQtyOf
  MaxAttempts = 3
  Int32Max = 1
  StockLevels = {2}
  MaxSetStocks = 1
  MaxExpiries = 1
INVARIANTS
  OrdersAreBacked
  OutboxMirrorsOrders
  CreatedMeansSaved
PROPERTIES
  OrdersNeverRewritten
  EveryRequestEnds
CHECK_DEADLOCK FALSE
