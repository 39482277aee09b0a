------------------------------ MODULE Checkout -------------------------------
(***************************************************************************)
(* Placing an order: POST /orders in order-service, the /reserve call it   *)
(* makes to inventory-service with its timeouts and retries, the Lua       *)
(* script that reserves stock in Redis, and the transaction that saves the *)
(* order together with its outbox event.                                   *)
(*                                                                         *)
(* A call the client gave up on is still running somewhere: it may reserve *)
(* at any later time, or never.  Handlers die with their replica or their  *)
(* client between any two steps.  Two requests that carry the same         *)
(* idempotency key work on the same order.                                 *)
(***************************************************************************)
EXTENDS Integers, FiniteSets

CONSTANTS
  Requests,     \* POST /orders requests, the clients' own retries included
  Orders,       \* order ids
  Items,
  OrderOf,      \* the order id of each request: its idempotency key, or new
  ItemOf,
  QtyOf,        \* the requested quantity, any Go int
  MaxAttempts,  \* maxAttempts of inventoryClient.Reserve (3 in the code)
  Int32Max,     \* greatest value of the column orders.quantity (2^31-1)
  StockLevels,  \* the quantities an operator sets
  MaxSetStocks, \* bound on the number of POST /items/<item>/stock calls
  MaxExpiries   \* bound on how often a reservation reaches its TTL of 24 h

ASSUME CheckoutAssumption ==
  /\ OrderOf \in [Requests -> Orders]
  /\ ItemOf \in [Requests -> Items]
  /\ QtyOf \in [Requests -> Int]
  /\ "none" \notin Items
  /\ MaxAttempts \in Nat \ {0}
  /\ Int32Max \in Nat \ {0}
  /\ StockLevels \subseteq Nat
  /\ MaxSetStocks \in Nat
  /\ MaxExpiries \in Nat

VARIABLES
  stock,        \* Redis stock:<item>
  reservation,  \* Redis reservation:<order>, 0 when the key does not exist
  orders,       \* table orders
  outbox,       \* table outbox
  pc,           \* where the handler of each request is
  attempt,      \* Reserve's loop variable
  call,         \* the reserve call the handler waits for
  late,         \* reserve calls given up on that inventory-service still runs
  answer,       \* the HTTP answer of each request
  supply,       \* history: units ever put up for sale, sold ones included
  granted,      \* history: the <<item, quantity>> pairs reserved for each order
  grants,       \* history: how often stock was taken for each order
  expiries,     \* history: how often each reservation expired
  setStocks     \* bound: POST /items/<item>/stock calls so far

redis == <<stock, reservation, supply, granted, grants>>
database == <<orders, outbox>>
handler == <<pc, attempt, call, late, answer>>
bounds == <<expiries, setStocks>>
vars == <<redis, database, handler, bounds>>

NoOrder == [item |-> "none", qty |-> 0, status |-> "absent"]
NoEvent == [item |-> "none", qty |-> 0]

Statuses == {"pending_payment", "confirmed", "payment_failed"}
Answers == {"none", "400", "201", "409", "500", "lost"}

\* Go's int32(x): the low bits, read as a signed number
Int32(n) ==
  LET range == 2 * (Int32Max + 1)
  IN  ((n + Int32Max + 1) % range) - (Int32Max + 1)

RedisTypeOK ==
  /\ stock \in [Items -> Nat]
  /\ reservation \in [Orders -> Nat]
  /\ supply \in [Items -> Nat]
  /\ granted \in [Orders -> SUBSET (Items \X Int)]
  /\ grants \in [Orders -> Nat]

DatabaseTypeOK ==
  /\ orders \in [Orders -> [item : Items, qty : Int, status : Statuses] \cup {NoOrder}]
  /\ outbox \in [Orders -> [item : Items, qty : Int] \cup {NoEvent}]

HandlerTypeOK ==
  /\ pc \in [Requests -> {"new", "reserving", "saving", "done"}]
  /\ attempt \in [Requests -> 0 .. MaxAttempts]
  /\ call \in [Requests -> {"none", "sent", "ok", "conflict"}]
  /\ late \in [Requests -> Nat]
  /\ answer \in [Requests -> Answers]

TypeOK ==
  /\ RedisTypeOK /\ DatabaseTypeOK /\ HandlerTypeOK
  /\ expiries \in [Orders -> 0 .. MaxExpiries]
  /\ setStocks \in 0 .. MaxSetStocks

Init ==
  /\ stock \in [Items -> StockLevels]
  /\ supply = stock
  /\ reservation = [o \in Orders |-> 0]
  /\ orders = [o \in Orders |-> NoOrder]
  /\ outbox = [o \in Orders |-> NoEvent]
  /\ pc = [r \in Requests |-> "new"]
  /\ attempt = [r \in Requests |-> 0]
  /\ call = [r \in Requests |-> "none"]
  /\ late = [r \in Requests |-> 0]
  /\ answer = [r \in Requests |-> "none"]
  /\ granted = [o \in Orders |-> {}]
  /\ grants = [o \in Orders |-> 0]
  /\ expiries = [o \in Orders |-> 0]
  /\ setStocks = 0

-----------------------------------------------------------------------------
(* inventory-service.  Redis runs reserve.lua as one step.                  *)

Held_NoKey(r) == FALSE
Held(r) == reservation[OrderOf[r]] > 0
EnoughStock_AnyLeft(r) == stock[ItemOf[r]] > 0
EnoughStock(r) == stock[ItemOf[r]] >= QtyOf[r]

TakeStock(r) ==
  LET o == OrderOf[r]
      i == ItemOf[r]
  IN  /\ stock' = [stock EXCEPT ![i] = @ - QtyOf[r]]
      /\ reservation' = [reservation EXCEPT ![o] = QtyOf[r]]
      /\ granted' = [granted EXCEPT ![o] = @ \cup {<<i, QtyOf[r]>>}]
      /\ grants' = [grants EXCEPT ![o] = @ + 1]
      /\ UNCHANGED supply

\* The script and the HTTP status handleReserve makes of its result
Reserve(r, status) ==
  \/ Held(r) /\ status = "ok" /\ UNCHANGED redis
  \/ ~Held(r) /\ ~EnoughStock(r) /\ status = "conflict" /\ UNCHANGED redis
  \/ ~Held(r) /\ EnoughStock(r) /\ status = "ok" /\ TakeStock(r)

\* handleReserve serves the call the handler of r is waiting for
ServeReserve(r) ==
  /\ call[r] = "sent"
  /\ \E status \in {"ok", "conflict"} :
        /\ Reserve(r, status)
        /\ call' = [call EXCEPT ![r] = status]
  /\ UNCHANGED <<database, pc, attempt, late, answer, bounds>>

\* ... or one nobody is waiting for any more
ServeLate(r) ==
  /\ late[r] > 0
  /\ late' = [late EXCEPT ![r] = @ - 1]
  /\ \E status \in {"ok", "conflict"} : Reserve(r, status)
  /\ UNCHANGED <<database, pc, attempt, call, answer, bounds>>

\* handleSetStock: SET, whatever was reserved meanwhile
SetStock(i, n) ==
  /\ setStocks < MaxSetStocks
  /\ setStocks' = setStocks + 1
  /\ stock' = [stock EXCEPT ![i] = n]
  /\ supply' = [supply EXCEPT ![i] = @ + n - stock[i]]
  /\ UNCHANGED <<reservation, granted, grants, database, handler, expiries>>

\* EX 86400
ReservationExpires(o) ==
  /\ reservation[o] > 0
  /\ expiries[o] < MaxExpiries
  /\ expiries' = [expiries EXCEPT ![o] = @ + 1]
  /\ reservation' = [reservation EXCEPT ![o] = 0]
  /\ UNCHANGED <<stock, supply, granted, grants, database, handler, setStocks>>

-----------------------------------------------------------------------------
(* order-service: handleCreateOrder.                                       *)

Finish(r, a) ==
  /\ pc' = [pc EXCEPT ![r] = "done"]
  /\ answer' = [answer EXCEPT ![r] = a]

\* nobody reads the reply of the current call any more
HangUp(r) ==
  /\ call' = [call EXCEPT ![r] = "none"]
  /\ late' = [late EXCEPT ![r] = IF call[r] = "sent" THEN @ + 1 ELSE @]

Arrive(r) ==
  /\ pc[r] = "new"
  /\ QtyOf[r] > 0
  /\ pc' = [pc EXCEPT ![r] = "reserving"]
  /\ attempt' = [attempt EXCEPT ![r] = 1]
  /\ call' = [call EXCEPT ![r] = "sent"]
  /\ UNCHANGED <<redis, database, late, answer, bounds>>

ArriveInvalid(r) ==
  /\ pc[r] = "new"
  /\ QtyOf[r] <= 0
  /\ Finish(r, "400")
  /\ UNCHANGED <<redis, database, attempt, call, late, bounds>>

\* doReserve returns with 200
Reserved(r) ==
  /\ pc[r] = "reserving" /\ call[r] = "ok"
  /\ pc' = [pc EXCEPT ![r] = "saving"]
  /\ call' = [call EXCEPT ![r] = "none"]
  /\ UNCHANGED <<redis, database, attempt, late, answer, bounds>>

\* doReserve returns with ErrInsufficientStock, which is not retried
Refused(r) ==
  /\ pc[r] = "reserving" /\ call[r] = "conflict"
  /\ Finish(r, "409")
  /\ call' = [call EXCEPT ![r] = "none"]
  /\ UNCHANGED <<redis, database, attempt, late, bounds>>

RetryReserve_SameAttempt(r) ==
  /\ pc[r] = "reserving"
  /\ attempt[r] < MaxAttempts
  /\ call' = [call EXCEPT ![r] = "sent"]
  /\ late' = [late EXCEPT ![r] = 1]
  /\ UNCHANGED <<redis, database, pc, attempt, answer, bounds>>
\* doReserve fails: connection error, 5 s without an answer, or a 5xx
RetryReserve(r) ==
  /\ pc[r] = "reserving"
  /\ attempt[r] < MaxAttempts
  /\ attempt' = [attempt EXCEPT ![r] = @ + 1]
  /\ call' = [call EXCEPT ![r] = "sent"]
  /\ late' = [late EXCEPT ![r] = IF call[r] = "sent" THEN @ + 1 ELSE @]
  /\ UNCHANGED <<redis, database, pc, answer, bounds>>

GiveUp_NoReturn(r) ==
  /\ pc[r] = "reserving"
  /\ attempt[r] = MaxAttempts
  /\ pc' = [pc EXCEPT ![r] = "saving"]
  /\ HangUp(r)
  /\ UNCHANGED <<redis, database, attempt, answer, bounds>>
\* Reserve fails for good
GiveUp(r) ==
  /\ pc[r] = "reserving"
  /\ attempt[r] = MaxAttempts
  /\ Finish(r, "500")
  /\ HangUp(r)
  /\ UNCHANGED <<redis, database, attempt, bounds>>

OrderRow(r) == [item |-> ItemOf[r], qty |-> Int32(QtyOf[r]), status |-> "pending_payment"]
EventRow(r) == [item |-> ItemOf[r], qty |-> QtyOf[r]]

CreateOrder_Upsert(r) == orders' = [orders EXCEPT ![OrderOf[r]] = OrderRow(r)]
\* CreateOrder: INSERT .. ON CONFLICT (id) DO UPDATE SET id = EXCLUDED.id
CreateOrder(r) ==
  orders' = IF orders[OrderOf[r]] = NoOrder
              THEN [orders EXCEPT ![OrderOf[r]] = OrderRow(r)]
              ELSE orders

InsertOutboxEvent_Upsert(r) == outbox' = [outbox EXCEPT ![OrderOf[r]] = EventRow(r)]
\* InsertOutboxEvent: INSERT .. ON CONFLICT (id) DO NOTHING
InsertOutboxEvent(r) ==
  outbox' = IF outbox[OrderOf[r]] = NoEvent
              THEN [outbox EXCEPT ![OrderOf[r]] = EventRow(r)]
              ELSE outbox

\* BEGIN .. COMMIT: one step, because the two inserts of concurrent requests
\* for one id wait for each other in Postgres
Commit(r) == CreateOrder(r) /\ InsertOutboxEvent(r)

Save(r) ==
  /\ pc[r] = "saving"
  /\ Commit(r)
  /\ Finish(r, "201")
  /\ UNCHANGED <<redis, attempt, call, late, bounds>>

SaveFails_NoReturn(r) ==
  /\ pc[r] = "saving"
  /\ UNCHANGED database \/ Commit(r)
  /\ Finish(r, "201")
  /\ UNCHANGED <<redis, attempt, call, late, bounds>>
\* Any database error: rolled back, or committed with the reply lost
SaveFails(r) ==
  /\ pc[r] = "saving"
  /\ UNCHANGED database \/ Commit(r)
  /\ Finish(r, "500")
  /\ UNCHANGED <<redis, attempt, call, late, bounds>>

\* The replica stops, or the client goes away and ctx is cancelled
Abandon(r) ==
  /\ pc[r] \in {"reserving", "saving"}
  /\ UNCHANGED database \/ (pc[r] = "saving" /\ Commit(r))
  /\ Finish(r, "lost")
  /\ HangUp(r)
  /\ UNCHANGED <<redis, attempt, bounds>>

\* The client never sees a 201: WriteTimeout (10 s) is shorter than Reserve's
\* three calls of 5 s
AnswerLost(r) ==
  /\ answer[r] = "201"
  /\ answer' = [answer EXCEPT ![r] = "lost"]
  /\ UNCHANGED <<redis, database, pc, attempt, call, late, bounds>>

\* handleStatusEvent: UPDATE orders SET status = $2 WHERE id = $1
UpdateOrderStatus(o, s) ==
  /\ outbox[o] # NoEvent
  /\ s \in {"confirmed", "payment_failed"}
  /\ orders' = IF orders[o] = NoOrder THEN orders ELSE [orders EXCEPT ![o].status = s]
  /\ UNCHANGED <<redis, outbox, handler, bounds>>

-----------------------------------------------------------------------------
Handler(r) ==
  \/ Arrive(r) \/ ArriveInvalid(r)
  \/ Reserved(r) \/ Refused(r) \/ RetryReserve(r) \/ GiveUp(r)
  \/ Save(r) \/ SaveFails(r)

Next ==
  \/ \E r \in Requests :
        Handler(r) \/ Abandon(r) \/ AnswerLost(r) \/ ServeReserve(r) \/ ServeLate(r)
  \/ \E i \in Items, n \in StockLevels : SetStock(i, n)
  \/ \E o \in Orders :
        ReservationExpires(o) \/ \E s \in Statuses : UpdateOrderStatus(o, s)

SafeSpec == Init /\ [][Next]_vars

\* Every wait of the handler ends: calls to inventory have a timeout of 5 s and
\* Postgres answers or fails.  Nothing is assumed of inventory-service.
Spec == SafeSpec /\ \A r \in Requests : WF_vars(Handler(r))

-----------------------------------------------------------------------------
(* What placing an order guarantees.                                       *)

(* "did we save the order" and "did we record intent to publish" never     *)
(* diverge, whichever requests with the same key met, in whatever order,   *)
(* and with whatever error: both rows exist or none does, and they come    *)
(* from the same request.                                                  *)
OutboxMirrorsOrders ==
  \A o \in Orders :
     /\ orders[o] = NoOrder <=> outbox[o] = NoEvent
     /\ orders[o].item = outbox[o].item
     /\ orders[o].qty = Int32(outbox[o].qty)

(* The client may believe a 201: the order and its event are stored.       *)
CreatedMeansSaved ==
  \A r \in Requests : answer[r] = "201" => orders[OrderOf[r]] # NoOrder

(* Stock is taken once for an order, however many attempts, late calls and *)
(* concurrent requests there are, unless the reservation expired.          *)
OneGrantPerOrder == \A o \in Orders : grants[o] <= 1 + expiries[o]

\* what the valid requests that came with the key of order o have asked for
Asked(o) ==
  {<<ItemOf[r], QtyOf[r]>> : r \in {q \in Requests : OrderOf[q] = o /\ attempt[q] > 0}}

\* nothing in the code compares them: the script and both inserts look at the key
KeyReused(o) == \E p, q \in Asked(o) : p # q

(* Stock was taken for every order whose event goes out: of that item, and *)
(* as much of it, unless the key was used again for something else.  Then  *)
(* the reservation may be for one request and the order for another.       *)
OrdersAreBacked ==
  \A o \in Orders : outbox[o] # NoEvent =>
     /\ granted[o] # {}
     /\ <<outbox[o].item, outbox[o].qty>> \in granted[o] \/ KeyReused(o)

\* n units for order o, numbered
Units(o, n) == {o} \X (1 .. n)

UnitsOrdered(i) ==
  UNION {Units(o, outbox[o].qty) : o \in {p \in Orders : outbox[p].item = i /\ ~KeyReused(p)}}

(* Nothing is sold twice: all orders of an item together are for no more   *)
(* units than were ever put up for sale, whatever expires, comes late or   *)
(* is tried again.  Orders whose key was used for something else do not    *)
(* count: the code gives no such bound for them.                           *)
NoOversell == \A i \in Items : Cardinality(UnitsOrdered(i)) <= supply[i]

(* Stock is held without an order only while a request works on it, or     *)
(* after a failure: a handler that ended in 500 or lost its client, or a   *)
(* call that was given up on and ran late.                                 *)
StockLeaksNeedFailures ==
  \A o \in Orders : grants[o] > 0 /\ orders[o] = NoOrder =>
     \E r \in Requests :
        /\ OrderOf[r] = o
        /\ \/ pc[r] \in {"reserving", "saving"}
           \/ answer[r] \in {"500", "lost"}
           \/ attempt[r] > 1

(* A client's retry never rewrites an order, nor takes back a payment      *)
(* result: once saved, only the status changes, and never to pending.      *)
OrdersNeverRewritten ==
  [][\A o \in Orders : orders[o] # NoOrder =>
        /\ orders'[o].item = orders[o].item /\ orders'[o].qty = orders[o].qty
        /\ orders'[o].status # orders[o].status => orders'[o].status # "pending_payment"]_vars

(* Every request is answered although inventory-service may stay silent.   *)
EveryRequestEnds == \A r \in Requests : pc[r] = "reserving" ~> pc[r] = "done"

(* "a positive quantity [is] required": so a stored order has one.  That   *)
(* is not so for quantities beyond int32: no run checks this, TLC refutes  *)
(* it.                                                                     *)
StoredQuantityIsPositive ==
  \A o \in Orders : orders[o] # NoOrder => orders[o].qty > 0

-----------------------------------------------------------------------------
(* The inductive invariant behind the safety properties.                   *)

HandlerPhases ==
  \A r \in Requests :
     /\ pc[r] # "new" /\ answer[r] # "400" => QtyOf[r] > 0 /\ attempt[r] >= 1
     /\ pc[r] = "done" <=> answer[r] # "none"
     /\ call[r] # "none" => pc[r] = "reserving"
     /\ pc[r] = "new" => attempt[r] = 0 /\ late[r] = 0
     /\ late[r] > 0 =>
          QtyOf[r] > 0 /\ (attempt[r] > 1 \/ answer[r] \in {"500", "lost"})

StockWithinSupply == \A i \in Items : stock[i] <= supply[i]

GrantsCounted ==
  \A o \in Orders : grants[o] = expiries[o] + IF reservation[o] > 0 THEN 1 ELSE 0

\* what was granted was asked for, and whoever relies on a grant finds one
GrantsFound ==
  /\ \A o \in Orders : granted[o] \subseteq Asked(o)
  /\ \A o \in Orders : reservation[o] > 0 => granted[o] # {}
  /\ \A r \in Requests : call[r] = "ok" \/ pc[r] = "saving" => granted[OrderOf[r]] # {}

\* the units of item i that were reserved for an order, which the stock lacks
UnitsGranted(i) ==
  UNION {UNION {Units(o, p[2]) : p \in {g \in granted[o] : g[1] = i}} : o \in Orders}

UnitsAccounted ==
  \A i \in Items : /\ IsFiniteSet(UnitsGranted(i))
                   /\ Cardinality(UnitsGranted(i)) <= supply[i] - stock[i]

\* an order comes from one of its requests, after a grant
OrdersFromRequests ==
  \A o \in Orders : outbox[o] # NoEvent =>
     /\ <<outbox[o].item, outbox[o].qty>> \in Asked(o)
     /\ granted[o] # {}

\* the request that answers for stock taken for an order nobody saved
LeaksTraced ==
  \A o \in Orders : grants[o] > 0 /\ orders[o] = NoOrder =>
     \E r \in Requests :
        /\ OrderOf[r] = o
        /\ \/ pc[r] = "saving"
           \/ pc[r] = "reserving" /\ call[r] = "ok"
           \/ answer[r] \in {"500", "lost"}
           \/ attempt[r] > 1

IInv ==
  /\ TypeOK
  /\ HandlerPhases
  /\ StockWithinSupply
  /\ GrantsCounted
  /\ GrantsFound
  /\ UnitsAccounted
  /\ OutboxMirrorsOrders
  /\ OrdersFromRequests
  /\ CreatedMeansSaved
  /\ LeaksTraced
==============================================================================
