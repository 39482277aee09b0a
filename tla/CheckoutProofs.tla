--------------------------- MODULE CheckoutProofs ----------------------------
(***************************************************************************)
(* Theorems about Checkout, for any requests, orders and items, any number *)
(* of attempts, and any number of calls that run late.                     *)
(***************************************************************************)
EXTENDS Checkout, FiniteSetTheorems, TLAPS

\* the part of the invariant every other part rests on
Basics == TypeOK /\ HandlerPhases /\ StockWithinSupply

(* Conversion to int32 yields an integer, and the same one when it fits.   *)
LEMMA Int32Type ==
  ASSUME NEW n \in Int
  PROVE  Int32(n) \in Int
BY CheckoutAssumption DEF CheckoutAssumption, Int32

(* A quantity that fits is stored as it is.                                *)
LEMMA Int32Fits ==
  ASSUME NEW n \in 0 .. Int32Max
  PROVE  Int32(n) = n
BY CheckoutAssumption DEF CheckoutAssumption, Int32

(* The script leaves Redis and the ledger well typed.                      *)
LEMMA ReserveTypes ==
  ASSUME RedisTypeOK, StockWithinSupply, NEW r \in Requests, QtyOf[r] > 0,
         NEW status, Reserve(r, status)
  PROVE  RedisTypeOK' /\ StockWithinSupply'
<1> USE CheckoutAssumption DEF CheckoutAssumption, RedisTypeOK, StockWithinSupply
<1>1. CASE UNCHANGED redis
  BY <1>1 DEF redis
<1>2. CASE EnoughStock(r) /\ TakeStock(r)
  <2>1. /\ stock[ItemOf[r]] - QtyOf[r] \in Nat
        /\ stock[ItemOf[r]] - QtyOf[r] <= stock[ItemOf[r]]
    BY <1>2 DEF EnoughStock
  <2> QED
    BY <1>2, <2>1 DEF TakeStock
<1> QED
  BY <1>1, <1>2 DEF Reserve

(* The transaction leaves the tables well typed.                           *)
LEMMA CommitTypes ==
  ASSUME DatabaseTypeOK, NEW r \in Requests, Commit(r)
  PROVE  DatabaseTypeOK'
<1> USE CheckoutAssumption DEF CheckoutAssumption, DatabaseTypeOK
<1>1. /\ OrderRow(r) \in [item : Items, qty : Int, status : Statuses]
      /\ EventRow(r) \in [item : Items, qty : Int]
  BY Int32Type DEF OrderRow, EventRow, Statuses
<1> QED
  BY <1>1 DEF Commit, CreateOrder, InsertOutboxEvent

(* Every step keeps the types, the phases of the handlers and the ledger.  *)
LEMMA BasicsStep == Basics /\ [Next]_vars => Basics'
<1> SUFFICES ASSUME Basics, [Next]_vars
             PROVE  Basics'
  OBVIOUS
<1> DEFINE Handlers == HandlerTypeOK /\ HandlerPhases
           Rest     == RedisTypeOK /\ StockWithinSupply
           Counters == expiries \in [Orders -> 0 .. MaxExpiries] /\ setStocks \in 0 .. MaxSetStocks
<1>a. Basics <=> Handlers /\ Rest /\ DatabaseTypeOK /\ Counters
  BY DEF Basics, TypeOK
<1>b. UNCHANGED redis => Rest'
  BY <1>a DEF RedisTypeOK, StockWithinSupply, redis
<1>c. UNCHANGED database => DatabaseTypeOK'
  BY <1>a DEF DatabaseTypeOK, database
<1>d. UNCHANGED bounds => Counters'
  BY <1>a DEF bounds
<1>e. UNCHANGED handler => Handlers'
  BY <1>a DEF HandlerTypeOK, HandlerPhases, handler
<1>f. Basics' <=> (Handlers /\ Rest /\ DatabaseTypeOK /\ Counters)'
  BY DEF Basics, TypeOK
<1> HIDE DEF Rest, Counters
<1>1. ASSUME NEW r \in Requests, Arrive(r) PROVE Basics'
  <2>1. Handlers'
    BY <1>1, <1>a, CheckoutAssumption DEF Arrive, HandlerTypeOK, HandlerPhases, Answers, CheckoutAssumption
  <2> QED
    BY <1>1, <2>1, <1>b, <1>c, <1>d, <1>f DEF Arrive
<1>2. ASSUME NEW r \in Requests, ArriveInvalid(r) PROVE Basics'
  <2>1. Handlers'
    BY <1>2, <1>a, CheckoutAssumption DEF ArriveInvalid, Finish, HandlerTypeOK, HandlerPhases, Answers, CheckoutAssumption
  <2> QED
    BY <1>2, <2>1, <1>b, <1>c, <1>d, <1>f DEF ArriveInvalid
<1>3. ASSUME NEW r \in Requests, Reserved(r) PROVE Basics'
  <2>1. Handlers'
    BY <1>3, <1>a, CheckoutAssumption DEF Reserved, HandlerTypeOK, HandlerPhases, Answers, CheckoutAssumption
  <2> QED
    BY <1>3, <2>1, <1>b, <1>c, <1>d, <1>f DEF Reserved
<1>4. ASSUME NEW r \in Requests, Refused(r) PROVE Basics'
  <2>1. Handlers'
    BY <1>4, <1>a, CheckoutAssumption DEF Refused, Finish, HandlerTypeOK, HandlerPhases, Answers, CheckoutAssumption
  <2> QED
    BY <1>4, <2>1, <1>b, <1>c, <1>d, <1>f DEF Refused
<1>5. ASSUME NEW r \in Requests, RetryReserve(r) PROVE Basics'
  <2>1. Handlers'
    BY <1>5, <1>a, CheckoutAssumption DEF RetryReserve, HandlerTypeOK, HandlerPhases, Answers, CheckoutAssumption
  <2> QED
    BY <1>5, <2>1, <1>b, <1>c, <1>d, <1>f DEF RetryReserve
<1>6. ASSUME NEW r \in Requests, GiveUp(r) PROVE Basics'
  <2>1. Handlers'
    BY <1>6, <1>a, CheckoutAssumption DEF GiveUp, Finish, HangUp, HandlerTypeOK, HandlerPhases, Answers, CheckoutAssumption
  <2> QED
    BY <1>6, <2>1, <1>b, <1>c, <1>d, <1>f DEF GiveUp
<1>7. ASSUME NEW r \in Requests, Save(r) PROVE Basics'
  <2>1. Handlers'
    BY <1>7, <1>a, CheckoutAssumption DEF Save, Finish, HandlerTypeOK, HandlerPhases, Answers, CheckoutAssumption
  <2>2. DatabaseTypeOK'
    BY <1>7, <1>a, <1>c, CommitTypes DEF Save
  <2> QED
    BY <1>7, <2>1, <2>2, <1>b, <1>d, <1>f DEF Save
<1>8. ASSUME NEW r \in Requests, SaveFails(r) PROVE Basics'
  <2>1. Handlers'
    BY <1>8, <1>a, CheckoutAssumption DEF SaveFails, Finish, HandlerTypeOK, HandlerPhases, Answers, CheckoutAssumption
  <2>2. DatabaseTypeOK'
    BY <1>8, <1>a, <1>c, CommitTypes DEF SaveFails
  <2> QED
    BY <1>8, <2>1, <2>2, <1>b, <1>d, <1>f DEF SaveFails
<1>9. ASSUME NEW r \in Requests, Abandon(r) PROVE Basics'
  <2>1. Handlers'
    BY <1>9, <1>a, CheckoutAssumption DEF Abandon, Finish, HangUp, HandlerTypeOK, HandlerPhases, Answers, CheckoutAssumption
  <2>2. DatabaseTypeOK'
    BY <1>9, <1>a, <1>c, CommitTypes DEF Abandon
  <2> QED
    BY <1>9, <2>1, <2>2, <1>b, <1>d, <1>f DEF Abandon
<1>10. ASSUME NEW r \in Requests, AnswerLost(r) PROVE Basics'
  <2>1. Handlers'
    BY <1>10, <1>a, CheckoutAssumption DEF AnswerLost, HandlerTypeOK, HandlerPhases, Answers, CheckoutAssumption
  <2> QED
    BY <1>10, <2>1, <1>b, <1>c, <1>d, <1>f DEF AnswerLost
<1>11. ASSUME NEW r \in Requests, ServeReserve(r) PROVE Basics'
  <2>1. Handlers' /\ QtyOf[r] > 0
    BY <1>11, <1>a DEF ServeReserve, HandlerTypeOK, HandlerPhases, Answers
  <2>2. Rest'
    BY <1>11, <2>1, <1>a, ReserveTypes DEF ServeReserve, Rest
  <2> QED
    BY <1>11, <2>1, <2>2, <1>c, <1>d, <1>f DEF ServeReserve
<1>12. ASSUME NEW r \in Requests, ServeLate(r) PROVE Basics'
  <2>1. Handlers' /\ QtyOf[r] > 0
    BY <1>12, <1>a DEF ServeLate, HandlerTypeOK, HandlerPhases, Answers
  <2>2. Rest'
    BY <1>12, <2>1, <1>a, ReserveTypes DEF ServeLate, Rest
  <2> QED
    BY <1>12, <2>1, <2>2, <1>c, <1>d, <1>f DEF ServeLate
<1>13. ASSUME NEW i \in Items, NEW k \in StockLevels, SetStock(i, k) PROVE Basics'
  <2>1. Rest' /\ Counters'
    BY <1>13, <1>a, CheckoutAssumption
       DEF SetStock, Rest, Counters, RedisTypeOK, StockWithinSupply, CheckoutAssumption
  <2> QED
    BY <1>13, <2>1, <1>c, <1>e, <1>f DEF SetStock
<1>14. ASSUME NEW o \in Orders, ReservationExpires(o) PROVE Basics'
  <2>1. Rest' /\ Counters'
    BY <1>14, <1>a, CheckoutAssumption
       DEF ReservationExpires, Rest, Counters, RedisTypeOK, StockWithinSupply, CheckoutAssumption
  <2> QED
    BY <1>14, <2>1, <1>c, <1>e, <1>f DEF ReservationExpires
<1>15. ASSUME NEW o \in Orders, NEW s \in Statuses, UpdateOrderStatus(o, s) PROVE Basics'
  <2>1. DatabaseTypeOK'
    BY <1>15, <1>a DEF UpdateOrderStatus, DatabaseTypeOK
  <2> QED
    BY <1>15, <2>1, <1>b, <1>d, <1>e, <1>f DEF UpdateOrderStatus
<1>16. CASE UNCHANGED vars
  BY <1>16, <1>b, <1>c, <1>d, <1>e, <1>f DEF vars
<1> QED
  BY <1>1, <1>2, <1>3, <1>4, <1>5, <1>6, <1>7, <1>8,
     <1>9, <1>10, <1>11, <1>12, <1>13, <1>14,
     <1>15, <1>16 DEF Next, Handler

-----------------------------------------------------------------------------
(* Grants.                                                                 *)

Grants == GrantsCounted /\ GrantsFound

(* What was asked for once stays asked for.                                *)
LEMMA AskedStays == Basics /\ [Next]_vars => \A o \in Orders : Asked(o) \subseteq Asked(o)'
<1> SUFFICES ASSUME Basics, [Next]_vars, NEW q \in Requests, attempt[q] > 0
             PROVE  attempt'[q] > 0
  BY DEF Asked
<1> USE DEF Basics, TypeOK, HandlerTypeOK
<1>1. ASSUME NEW r \in Requests, Arrive(r) PROVE attempt'[q] > 0
  BY <1>1 DEF Arrive
<1>2. ASSUME NEW r \in Requests, RetryReserve(r) PROVE attempt'[q] > 0
  <2>1. attempt[q] \in Nat /\ (attempt'[q] = attempt[q] \/ attempt'[q] = attempt[q] + 1)
    BY <1>2, CheckoutAssumption DEF CheckoutAssumption, RetryReserve
  <2> QED
    BY <2>1
<1>3. \/ attempt' = attempt
      \/ \E r \in Requests : Arrive(r) \/ RetryReserve(r)
  BY DEF Next, Handler, vars, handler, ArriveInvalid, Reserved, Refused, GiveUp, Save, SaveFails,
         Abandon, AnswerLost, ServeReserve, ServeLate, SetStock, ReservationExpires,
         UpdateOrderStatus
<1> QED
  BY <1>1, <1>2, <1>3

(* Whoever waits for a reserve call, or has one running late, has asked.   *)
LEMMA CallersAsked ==
  ASSUME Basics, NEW r \in Requests, call[r] # "none" \/ pc[r] = "saving" \/ late[r] > 0
  PROVE  QtyOf[r] > 0 /\ <<ItemOf[r], QtyOf[r]>> \in Asked(OrderOf[r])
<1> USE DEF Basics, TypeOK, HandlerTypeOK, HandlerPhases
<1>1. QtyOf[r] > 0 /\ attempt[r] >= 1 /\ attempt[r] \in Nat
  <2>1. attempt[r] \in Nat
    BY CheckoutAssumption DEF CheckoutAssumption
  <2>2. pc[r] # "new" /\ (answer[r] # "400" \/ attempt[r] > 1)
    BY <2>1
  <2> QED
    BY <2>1, <2>2
<1> QED
  BY <1>1 DEF Asked

(* The script grants at most once per reservation, and whoever is told ok  *)
(* has a grant.                                                            *)
LEMMA ReserveGrants ==
  ASSUME RedisTypeOK, Grants, NEW r \in Requests, <<ItemOf[r], QtyOf[r]>> \in Asked(OrderOf[r]),
         QtyOf[r] > 0, NEW status, Reserve(r, status), UNCHANGED expiries,
         expiries \in [Orders -> 0 .. MaxExpiries]
  PROVE  /\ GrantsCounted'
         /\ \A o \in Orders : granted'[o] \subseteq Asked(o)
         /\ \A o \in Orders : reservation'[o] > 0 => granted'[o] # {}
         /\ \A o \in Orders : granted[o] \subseteq granted'[o]
         /\ status = "ok" => granted'[OrderOf[r]] # {}
<1> USE CheckoutAssumption DEF CheckoutAssumption, RedisTypeOK, Grants, GrantsCounted, GrantsFound
<1>1. CASE UNCHANGED redis /\ (status = "ok" => Held(r))
  BY <1>1 DEF redis, Held
<1>2. CASE ~Held(r) /\ TakeStock(r)
  <2>1. granted' = [granted EXCEPT ![OrderOf[r]] = @ \cup {<<ItemOf[r], QtyOf[r]>>}]
    BY <1>2 DEF TakeStock
  <2>2. \A o \in Orders : granted[o] \subseteq granted'[o]
    BY <2>1
  <2>3. granted'[OrderOf[r]] # {}
    BY <2>1
  <2>4. \A o \in Orders : granted'[o] \subseteq Asked(o)
    BY <2>1
  <2>5. \A o \in Orders : reservation'[o] > 0 => granted'[o] # {}
    BY <1>2, <2>2, <2>3 DEF TakeStock
  <2>6. GrantsCounted'
    BY <1>2 DEF TakeStock, Held
  <2> QED
    BY <2>2, <2>3, <2>4, <2>5, <2>6
<1> QED
  BY <1>1, <1>2 DEF Reserve

(* Every step keeps the grants counted and found, and forgets no grant.    *)
LEMMA GrantsStep ==
  Basics /\ Grants /\ [Next]_vars =>
    Grants' /\ \A o \in Orders : granted[o] \subseteq granted'[o]
<1> DEFINE Kept == \A o \in Orders : granted[o] \subseteq granted'[o]
<1> SUFFICES ASSUME Basics, Grants, [Next]_vars
             PROVE  Grants' /\ Kept
  OBVIOUS
<1>0. \A o \in Orders : Asked(o) \subseteq Asked(o)'
  BY AskedStays
<1>a. ASSUME UNCHANGED redis, UNCHANGED expiries,
             \A r \in Requests : call'[r] = "ok" \/ pc'[r] = "saving" =>
                                 call[r] = "ok" \/ pc[r] = "saving"
      PROVE  Grants' /\ Kept
  BY <1>0, <1>a DEF Grants, GrantsCounted, GrantsFound, redis
<1>1. ASSUME NEW r \in Requests, Arrive(r) PROVE Grants' /\ Kept
  BY <1>1, <1>a DEF Arrive, bounds, Basics, TypeOK, HandlerTypeOK
<1>2. ASSUME NEW r \in Requests, ArriveInvalid(r) PROVE Grants' /\ Kept
  BY <1>2, <1>a DEF ArriveInvalid, Finish, bounds, Basics, TypeOK, HandlerTypeOK
<1>3. ASSUME NEW r \in Requests, Reserved(r) PROVE Grants' /\ Kept
  BY <1>3, <1>a DEF Reserved, bounds, Basics, TypeOK, HandlerTypeOK
<1>4. ASSUME NEW r \in Requests, Refused(r) PROVE Grants' /\ Kept
  BY <1>4, <1>a DEF Refused, Finish, bounds, Basics, TypeOK, HandlerTypeOK
<1>5. ASSUME NEW r \in Requests, RetryReserve(r) PROVE Grants' /\ Kept
  BY <1>5, <1>a DEF RetryReserve, bounds, Basics, TypeOK, HandlerTypeOK
<1>6. ASSUME NEW r \in Requests, GiveUp(r) PROVE Grants' /\ Kept
  BY <1>6, <1>a DEF GiveUp, Finish, HangUp, bounds, Basics, TypeOK, HandlerTypeOK
<1>7. ASSUME NEW r \in Requests, Save(r) PROVE Grants' /\ Kept
  BY <1>7, <1>a DEF Save, Finish, bounds, Basics, TypeOK, HandlerTypeOK
<1>8. ASSUME NEW r \in Requests, SaveFails(r) PROVE Grants' /\ Kept
  BY <1>8, <1>a DEF SaveFails, Finish, bounds, Basics, TypeOK, HandlerTypeOK
<1>9. ASSUME NEW r \in Requests, Abandon(r) PROVE Grants' /\ Kept
  BY <1>9, <1>a DEF Abandon, Finish, HangUp, bounds, Basics, TypeOK, HandlerTypeOK
<1>10. ASSUME NEW r \in Requests, AnswerLost(r) PROVE Grants' /\ Kept
  BY <1>10, <1>a DEF AnswerLost, bounds, Basics, TypeOK, HandlerTypeOK
<1>11. ASSUME NEW r \in Requests, ServeReserve(r) PROVE Grants' /\ Kept
  <2>1. QtyOf[r] > 0 /\ <<ItemOf[r], QtyOf[r]>> \in Asked(OrderOf[r])
    BY <1>11, CallersAsked DEF ServeReserve
  <2>2. PICK status \in {"ok", "conflict"} :
           Reserve(r, status) /\ call' = [call EXCEPT ![r] = status]
    BY <1>11 DEF ServeReserve
  <2>3. UNCHANGED <<pc, expiries>>
    BY <1>11 DEF ServeReserve, bounds
  <2>4. /\ GrantsCounted' /\ Kept
        /\ \A o \in Orders : granted'[o] \subseteq Asked(o)
        /\ \A o \in Orders : reservation'[o] > 0 => granted'[o] # {}
        /\ status = "ok" => granted'[OrderOf[r]] # {}
    BY <2>1, <2>2, <2>3, ReserveGrants DEF Basics, TypeOK
  <2>5. \A q \in Requests : call'[q] = "ok" \/ pc'[q] = "saving" => granted'[OrderOf[q]] # {}
    BY <2>2, <2>3, <2>4, CheckoutAssumption
       DEF Grants, GrantsFound, Basics, TypeOK, HandlerTypeOK, RedisTypeOK, CheckoutAssumption
  <2> QED
    BY <1>0, <2>4, <2>5 DEF Grants, GrantsFound
<1>12. ASSUME NEW r \in Requests, ServeLate(r) PROVE Grants' /\ Kept
  <2>1. QtyOf[r] > 0 /\ <<ItemOf[r], QtyOf[r]>> \in Asked(OrderOf[r])
    BY <1>12, CallersAsked DEF ServeLate
  <2>2. PICK status \in {"ok", "conflict"} : Reserve(r, status)
    BY <1>12 DEF ServeLate
  <2>3. UNCHANGED <<pc, call, expiries>>
    BY <1>12 DEF ServeLate, bounds
  <2>4. /\ GrantsCounted' /\ Kept
        /\ \A o \in Orders : granted'[o] \subseteq Asked(o)
        /\ \A o \in Orders : reservation'[o] > 0 => granted'[o] # {}
        /\ status = "ok" => granted'[OrderOf[r]] # {}
    BY <2>1, <2>2, <2>3, ReserveGrants DEF Basics, TypeOK
  <2>5. \A q \in Requests : call'[q] = "ok" \/ pc'[q] = "saving" => granted'[OrderOf[q]] # {}
    BY <2>2, <2>3, <2>4, CheckoutAssumption
       DEF Grants, GrantsFound, Basics, TypeOK, HandlerTypeOK, RedisTypeOK, CheckoutAssumption
  <2> QED
    BY <1>0, <2>4, <2>5 DEF Grants, GrantsFound
<1>13. ASSUME NEW i \in Items, NEW k \in StockLevels, SetStock(i, k) PROVE Grants' /\ Kept
  BY <1>0, <1>13 DEF SetStock, Grants, GrantsCounted, GrantsFound, handler
<1>14. ASSUME NEW o \in Orders, ReservationExpires(o) PROVE Grants' /\ Kept
  BY <1>0, <1>14 DEF ReservationExpires, Grants, GrantsCounted, GrantsFound, handler,
                Basics, TypeOK, RedisTypeOK
<1>15. ASSUME NEW o \in Orders, NEW s \in Statuses, UpdateOrderStatus(o, s) PROVE Grants' /\ Kept
  BY <1>15, <1>a DEF UpdateOrderStatus, handler, bounds
<1>16. CASE UNCHANGED vars
  BY <1>16, <1>a DEF vars, handler, bounds
<1> QED
  BY <1>1, <1>2, <1>3, <1>4, <1>5, <1>6, <1>7, <1>8,
     <1>9, <1>10, <1>11, <1>12, <1>13, <1>14,
     <1>15, <1>16 DEF Next, Handler

-----------------------------------------------------------------------------
(* Units.                                                                  *)

(* n units are n.                                                          *)
LEMMA UnitsCounted ==
  ASSUME NEW o, NEW n \in Nat
  PROVE  IsFiniteSet(Units(o, n)) /\ Cardinality(Units(o, n)) = n
<1>1. IsFiniteSet({o}) /\ Cardinality({o}) = 1
  BY FS_Singleton
<1>2. IsFiniteSet(1 .. n) /\ Cardinality(1 .. n) = n
  BY FS_Interval
<1>3. /\ IsFiniteSet({o} \X (1 .. n))
      /\ Cardinality({o} \X (1 .. n)) = Cardinality({o}) * Cardinality(1 .. n)
  BY <1>1, <1>2, FS_Product, Zenon
<1> QED
  BY <1>1, <1>2, <1>3 DEF Units

(* Adding n units, new or not, to a set makes it greater by n at most.     *)
LEMMA UnitsAdded ==
  ASSUME NEW S, IsFiniteSet(S), NEW o, NEW n \in Nat
  PROVE  /\ IsFiniteSet(S \cup Units(o, n))
         /\ Cardinality(S \cup Units(o, n)) <= Cardinality(S) + n
<1>1. IsFiniteSet(Units(o, n)) /\ Cardinality(Units(o, n)) = n
  BY UnitsCounted
<1>2. IsFiniteSet(S \cap Units(o, n))
  BY FS_Intersection
<1>3. /\ Cardinality(S) \in Nat
      /\ Cardinality(S \cap Units(o, n)) \in Nat
  BY <1>2, FS_CardinalityType
<1> QED
  BY <1>1, <1>3, FS_Union

(* The script takes as much from the stock as it grants.                   *)
LEMMA ReserveUnits ==
  ASSUME RedisTypeOK, UnitsAccounted, NEW r \in Requests, QtyOf[r] > 0,
         NEW status, Reserve(r, status)
  PROVE  UnitsAccounted'
<1> USE CheckoutAssumption DEF CheckoutAssumption, RedisTypeOK
<1>1. CASE UNCHANGED redis
  <2>1. \A i : UnitsGranted(i)' = UnitsGranted(i)
    BY <1>1 DEF redis, UnitsGranted
  <2> QED
    BY <1>1, <2>1 DEF redis, UnitsAccounted
<1>2. CASE EnoughStock(r) /\ TakeStock(r)
  <2> SUFFICES ASSUME NEW i \in Items
               PROVE  /\ IsFiniteSet(UnitsGranted(i)')
                      /\ Cardinality(UnitsGranted(i)') <= supply'[i] - stock'[i]
    BY DEF UnitsAccounted
  <2> DEFINE o == OrderOf[r]
             n == QtyOf[r]
             new == <<ItemOf[r], n>>
             Of(q) == {g \in granted[q] : g[1] = i}
  <2>1. /\ IsFiniteSet(UnitsGranted(i))
        /\ Cardinality(UnitsGranted(i)) <= supply[i] - stock[i]
    BY DEF UnitsAccounted
  <2>2. /\ o \in Orders /\ n \in Nat
        /\ granted' = [granted EXCEPT ![o] = @ \cup {new}]
    BY <1>2 DEF TakeStock
  <2>3. CASE i # ItemOf[r]
    <3>1. \A q \in Orders : Of(q)' = Of(q)
      BY <2>2, <2>3
    <3>2. UnitsGranted(i)' = UnitsGranted(i)
      BY <3>1 DEF UnitsGranted
    <3>3. supply'[i] = supply[i] /\ stock'[i] = stock[i]
      BY <1>2, <2>3 DEF TakeStock
    <3> QED
      BY <2>1, <3>2, <3>3
  <2>4. CASE i = ItemOf[r]
    <3>1. \A q \in Orders : Of(q)' = IF q = o THEN Of(q) \cup {new} ELSE Of(q)
      BY <2>2, <2>4
    <3>2. UnitsGranted(i)' = UnitsGranted(i) \cup Units(o, n)
      <4>1. ASSUME NEW u \in UnitsGranted(i)'
            PROVE  u \in UnitsGranted(i) \cup Units(o, n)
        <5>1. PICK q \in Orders : \E p \in Of(q)' : u \in Units(q, p[2])
          BY <4>1 DEF UnitsGranted, Units
        <5>2. PICK p \in Of(q)' : u \in Units(q, p[2])
          BY <5>1
        <5>3. p \in Of(q) \/ (q = o /\ p = new)
          BY <5>2, <3>1
        <5> QED
          BY <5>2, <5>3 DEF UnitsGranted
      <4>2. ASSUME NEW u \in UnitsGranted(i)
            PROVE  u \in UnitsGranted(i)'
        <5>1. PICK q \in Orders : \E p \in Of(q) : u \in Units(q, p[2])
          BY <4>2 DEF UnitsGranted
        <5>2. PICK p \in Of(q) : u \in Units(q, p[2])
          BY <5>1
        <5>3. p \in Of(q)'
          BY <5>2, <3>1
        <5> QED
          BY <5>2, <5>3 DEF UnitsGranted, Units
      <4>3. ASSUME NEW u \in Units(o, n)
            PROVE  u \in UnitsGranted(i)'
        <5>1. new \in Of(o)' /\ new[2] = n
          BY <2>2, <3>1
        <5> QED
          BY <5>1, <2>2, <4>3 DEF UnitsGranted, Units
      <4> QED
        BY <4>1, <4>2, <4>3
    <3>3. /\ IsFiniteSet(UnitsGranted(i)')
          /\ Cardinality(UnitsGranted(i)') <= Cardinality(UnitsGranted(i)) + n
      <4>1. /\ IsFiniteSet(UnitsGranted(i) \cup Units(o, n))
            /\ Cardinality(UnitsGranted(i) \cup Units(o, n)) <= Cardinality(UnitsGranted(i)) + n
        BY <2>1, <2>2, UnitsAdded, Zenon
      <4> QED
        BY <3>2, <4>1
    <3>4. /\ supply'[i] = supply[i] /\ stock'[i] = stock[i] - n
          /\ supply[i] \in Nat /\ stock[i] \in Nat
      BY <1>2, <2>4 DEF TakeStock
    <3>5. Cardinality(UnitsGranted(i)) \in Nat /\ Cardinality(UnitsGranted(i)') \in Nat
      BY <2>1, <3>3, FS_CardinalityType
    <3> QED
      BY <2>1, <2>2, <3>3, <3>4, <3>5
  <2> QED
    BY <2>3, <2>4
<1> QED
  BY <1>1, <1>2 DEF Reserve

(* Every step keeps the units accounted for.                               *)
LEMMA UnitsStep == Basics /\ UnitsAccounted /\ [Next]_vars => UnitsAccounted'
<1> SUFFICES ASSUME Basics, UnitsAccounted, [Next]_vars
             PROVE  UnitsAccounted'
  OBVIOUS
<1>a. UNCHANGED <<granted, supply, stock>> => UnitsAccounted'
  BY DEF UnitsAccounted, UnitsGranted
<1>1. ASSUME NEW r \in Requests, ServeReserve(r) \/ ServeLate(r) PROVE UnitsAccounted'
  <2>1. QtyOf[r] > 0
    BY <1>1 DEF ServeReserve, ServeLate, Basics, TypeOK, HandlerTypeOK, HandlerPhases
  <2>2. PICK status \in {"ok", "conflict"} : Reserve(r, status)
    BY <1>1 DEF ServeReserve, ServeLate
  <2> QED
    BY <2>1, <2>2, ReserveUnits DEF Basics, TypeOK
<1>2. ASSUME NEW i \in Items, NEW k \in StockLevels, SetStock(i, k) PROVE UnitsAccounted'
  <2> SUFFICES ASSUME NEW j \in Items
               PROVE  /\ IsFiniteSet(UnitsGranted(j)')
                      /\ Cardinality(UnitsGranted(j)') <= supply'[j] - stock'[j]
    BY DEF UnitsAccounted
  <2>1. UnitsGranted(j)' = UnitsGranted(j)
    BY <1>2 DEF SetStock, UnitsGranted
  <2>2. supply'[j] - stock'[j] = supply[j] - stock[j]
    BY <1>2, CheckoutAssumption DEF SetStock, Basics, TypeOK, RedisTypeOK, CheckoutAssumption
  <2> QED
    BY <2>1, <2>2 DEF UnitsAccounted
<1>3. CASE UNCHANGED redis
  BY <1>3, <1>a DEF redis
<1>4. ASSUME NEW o \in Orders, ReservationExpires(o) PROVE UnitsAccounted'
  BY <1>4, <1>a DEF ReservationExpires
<1>5. \/ UNCHANGED redis
      \/ \E r \in Requests : ServeReserve(r) \/ ServeLate(r)
      \/ \E i \in Items, k \in StockLevels : SetStock(i, k)
      \/ \E o \in Orders : ReservationExpires(o)
  BY DEF Next, Handler, vars, Arrive, ArriveInvalid, Reserved, Refused, RetryReserve, GiveUp,
         Save, SaveFails, Abandon, AnswerLost, UpdateOrderStatus
<1> QED
  BY <1>1, <1>2, <1>3, <1>4, <1>5

-----------------------------------------------------------------------------
(* Orders and their events.                                                *)

Saved == OutboxMirrorsOrders /\ OrdersFromRequests /\ CreatedMeansSaved

(* The transaction writes both rows, or finds both; it leaves the others.  *)
LEMMA CommitSaves ==
  ASSUME DatabaseTypeOK, OutboxMirrorsOrders, OrdersFromRequests,
         NEW r \in Requests, granted'[OrderOf[r]] # {},
         \A o \in Orders : granted[o] \subseteq granted'[o],
         <<ItemOf[r], QtyOf[r]>> \in Asked(OrderOf[r])',
         \A o \in Orders : Asked(o) \subseteq Asked(o)',
         Commit(r)
  PROVE  /\ OutboxMirrorsOrders' /\ OrdersFromRequests'
         /\ orders'[OrderOf[r]] # NoOrder
         /\ \A o \in Orders : orders[o] # NoOrder => orders'[o] = orders[o]
<1> USE CheckoutAssumption DEF CheckoutAssumption, DatabaseTypeOK
<1>1. OrderRow(r) # NoOrder /\ EventRow(r) # NoEvent
  BY DEF OrderRow, NoOrder, EventRow, NoEvent
<1>2. orders[OrderOf[r]] = NoOrder <=> outbox[OrderOf[r]] = NoEvent
  BY DEF OutboxMirrorsOrders
<1>3. CASE orders[OrderOf[r]] = NoOrder
  <2>1. /\ orders' = [orders EXCEPT ![OrderOf[r]] = OrderRow(r)]
        /\ outbox' = [outbox EXCEPT ![OrderOf[r]] = EventRow(r)]
    BY <1>2, <1>3 DEF Commit, CreateOrder, InsertOutboxEvent
  <2>2. OrderRow(r).item = EventRow(r).item /\ OrderRow(r).qty = Int32(EventRow(r).qty)
    BY DEF OrderRow, EventRow
  <2>3. OutboxMirrorsOrders'
    BY <2>1, <2>2, <1>1 DEF OutboxMirrorsOrders
  <2>4. OrdersFromRequests'
    BY <2>1 DEF OrdersFromRequests, EventRow
  <2> QED
    BY <2>1, <2>3, <2>4, <1>1, <1>3
<1>4. CASE orders[OrderOf[r]] # NoOrder
  BY <1>2, <1>4 DEF Commit, CreateOrder, InsertOutboxEvent, OutboxMirrorsOrders,
                    OrdersFromRequests, EventRow
<1> QED
  BY <1>3, <1>4

(* Every step keeps orders and events together and the 201s true.          *)
LEMMA SavedStep ==
  Basics /\ Grants /\ Saved /\ [Next]_vars => Saved'
<1> SUFFICES ASSUME Basics, Grants, Saved, [Next]_vars
             PROVE  Saved'
  OBVIOUS
<1> USE DEF Basics, TypeOK
<1>g. \A o \in Orders : granted[o] \subseteq granted'[o] /\ Asked(o) \subseteq Asked(o)'
  BY GrantsStep, AskedStays
<1>a. ASSUME UNCHANGED database,
             \A r \in Requests : answer'[r] = "201" => answer[r] = "201"
      PROVE  Saved'
  BY <1>a, <1>g, CheckoutAssumption
     DEF Saved, OutboxMirrorsOrders, OrdersFromRequests, CreatedMeansSaved, database,
         EventRow, CheckoutAssumption
<1>b. ASSUME NEW r \in Requests, pc[r] = "saving", UNCHANGED redis, Commit(r),
             \A q \in Requests : answer'[q] = "201" => answer[q] = "201" \/ q = r
      PROVE  Saved'
  <2>1. <<ItemOf[r], QtyOf[r]>> \in Asked(OrderOf[r])'
    BY <1>b, <1>g, CallersAsked, CheckoutAssumption DEF CheckoutAssumption
  <2>2. granted'[OrderOf[r]] # {}
    BY <1>b DEF Grants, GrantsFound, redis
  <2>3. /\ OutboxMirrorsOrders' /\ OrdersFromRequests'
        /\ orders'[OrderOf[r]] # NoOrder
        /\ \A o \in Orders : orders[o] # NoOrder => orders'[o] = orders[o]
    BY <1>b, <1>g, <2>1, <2>2, CommitSaves DEF Saved
  <2>4. CreatedMeansSaved'
    BY <1>b, <2>3, CheckoutAssumption DEF Saved, CreatedMeansSaved, CheckoutAssumption
  <2> QED
    BY <2>3, <2>4 DEF Saved
<1>1. ASSUME NEW r \in Requests, Arrive(r) PROVE Saved'
  BY <1>1, <1>a DEF Arrive, HandlerTypeOK
<1>2. ASSUME NEW r \in Requests, ArriveInvalid(r) PROVE Saved'
  BY <1>2, <1>a DEF ArriveInvalid, Finish, HandlerTypeOK
<1>3. ASSUME NEW r \in Requests, Reserved(r) PROVE Saved'
  BY <1>3, <1>a DEF Reserved, HandlerTypeOK
<1>4. ASSUME NEW r \in Requests, Refused(r) PROVE Saved'
  BY <1>4, <1>a DEF Refused, Finish, HandlerTypeOK
<1>5. ASSUME NEW r \in Requests, RetryReserve(r) PROVE Saved'
  BY <1>5, <1>a DEF RetryReserve, HandlerTypeOK
<1>6. ASSUME NEW r \in Requests, GiveUp(r) PROVE Saved'
  BY <1>6, <1>a DEF GiveUp, Finish, HandlerTypeOK
<1>7. ASSUME NEW r \in Requests, Save(r) PROVE Saved'
  BY <1>7, <1>b DEF Save, Finish, HandlerTypeOK
<1>8. ASSUME NEW r \in Requests, SaveFails(r) PROVE Saved'
  BY <1>8, <1>a, <1>b DEF SaveFails, Finish, HandlerTypeOK
<1>9. ASSUME NEW r \in Requests, Abandon(r) PROVE Saved'
  BY <1>9, <1>a, <1>b DEF Abandon, Finish, HandlerTypeOK
<1>10. ASSUME NEW r \in Requests, AnswerLost(r) PROVE Saved'
  BY <1>10, <1>a DEF AnswerLost, HandlerTypeOK
<1>11. ASSUME NEW r \in Requests, ServeReserve(r) PROVE Saved'
  BY <1>11, <1>a DEF ServeReserve, HandlerTypeOK
<1>12. ASSUME NEW r \in Requests, ServeLate(r) PROVE Saved'
  BY <1>12, <1>a DEF ServeLate, HandlerTypeOK
<1>13. ASSUME NEW i \in Items, NEW k \in StockLevels, SetStock(i, k) PROVE Saved'
  BY <1>13, <1>a DEF SetStock, handler
<1>14. ASSUME NEW o \in Orders, ReservationExpires(o) PROVE Saved'
  BY <1>14, <1>a DEF ReservationExpires, handler
<1>15. ASSUME NEW o \in Orders, NEW s \in Statuses, UpdateOrderStatus(o, s) PROVE Saved'
  <2>1. CASE orders' = orders
    BY <2>1, <1>15, <1>a DEF UpdateOrderStatus, handler, database
  <2>2. CASE orders[o] # NoOrder /\ orders' = [orders EXCEPT ![o].status = s]
    <3>1. \A x \in Orders : /\ orders'[x].item = orders[x].item
                            /\ orders'[x].qty = orders[x].qty
                            /\ orders[x] = NoOrder <=> orders'[x] = NoOrder
      BY <2>2, <1>15 DEF UpdateOrderStatus, DatabaseTypeOK, NoOrder
    <3>2. UNCHANGED <<outbox, answer, granted>>
      BY <1>15 DEF UpdateOrderStatus, handler, redis
    <3> QED
      BY <3>1, <3>2, <1>g, CheckoutAssumption
         DEF Saved, OutboxMirrorsOrders, OrdersFromRequests, CreatedMeansSaved,
             EventRow, CheckoutAssumption
  <2> QED
    BY <2>1, <2>2, <1>15 DEF UpdateOrderStatus
<1>16. CASE UNCHANGED vars
  BY <1>16, <1>a DEF vars, handler
<1> QED
  BY <1>1, <1>2, <1>3, <1>4, <1>5, <1>6, <1>7, <1>8,
     <1>9, <1>10, <1>11, <1>12, <1>13, <1>14,
     <1>15, <1>16 DEF Next, Handler

-----------------------------------------------------------------------------
(* Stock held for orders nobody saved.                                     *)

\* request r answers for stock taken for o
Traces(r, o) ==
  /\ OrderOf[r] = o
  /\ \/ pc[r] = "saving"
     \/ pc[r] = "reserving" /\ call[r] = "ok"
     \/ answer[r] \in {"500", "lost"}
     \/ attempt[r] > 1

(* Every step keeps the trace of each leak: a request that answers for     *)
(* stock goes on doing so until its order is saved.                        *)
LEMMA LeaksStep ==
  Basics /\ Grants /\ Saved /\ LeaksTraced /\ [Next]_vars => LeaksTraced'
<1> SUFFICES ASSUME Basics, Grants, Saved, LeaksTraced, [Next]_vars
             PROVE  LeaksTraced'
  OBVIOUS
<1> USE DEF Basics, TypeOK
<1>t. LeaksTraced <=> \A o \in Orders : grants[o] > 0 /\ orders[o] = NoOrder =>
                                         \E r \in Requests : Traces(r, o)
  BY DEF LeaksTraced, Traces
<1>u. LeaksTraced' <=> \A o \in Orders : grants'[o] > 0 /\ orders'[o] = NoOrder =>
                                          \E r \in Requests : Traces(r, o)'
  BY DEF LeaksTraced, Traces
<1>a. ASSUME \A o \in Orders : grants'[o] = grants[o],
             \A o \in Orders : orders'[o] = NoOrder => orders[o] = NoOrder,
             \A r \in Requests, o \in Orders :
                orders'[o] = NoOrder /\ Traces(r, o) => Traces(r, o)'
      PROVE  LeaksTraced'
  BY <1>a, <1>t, <1>u
<1>b. ASSUME NEW r \in Requests, NEW status, Reserve(r, status),
             UNCHANGED <<orders, pc, answer, attempt>>,
             status = "ok" => Traces(r, OrderOf[r])',
             \A q \in Requests : q # r => call'[q] = call[q],
             \A o \in Orders : Traces(r, o) => Traces(r, o)'
      PROVE  LeaksTraced'
  <2>1. \A q \in Requests, o \in Orders : Traces(q, o) => Traces(q, o)'
    BY <1>b DEF Traces
  <2>2. CASE UNCHANGED redis
    BY <1>a, <1>b, <2>1, <2>2 DEF redis
  <2>3. CASE status = "ok" /\ TakeStock(r)
    <3>1. \A o \in Orders : o # OrderOf[r] => grants'[o] = grants[o]
      BY <2>3 DEF TakeStock, RedisTypeOK
    <3> QED
      BY <1>b, <1>t, <1>u, <2>1, <2>3, <3>1
  <2> QED
    BY <1>b, <2>2, <2>3 DEF Reserve
<1>1. ASSUME NEW r \in Requests, Arrive(r) PROVE LeaksTraced'
  <2>1. \A q \in Requests, o \in Orders : Traces(q, o) => Traces(q, o)'
    BY <1>1, CheckoutAssumption
       DEF Arrive, Traces, HandlerTypeOK, HandlerPhases, CheckoutAssumption
  <2> QED
    BY <1>1, <2>1, <1>a DEF Arrive, redis, database
<1>2. ASSUME NEW r \in Requests, ArriveInvalid(r) PROVE LeaksTraced'
  <2>1. \A q \in Requests, o \in Orders : Traces(q, o) => Traces(q, o)'
    BY <1>2, CheckoutAssumption
       DEF ArriveInvalid, Finish, Traces, HandlerTypeOK, HandlerPhases, CheckoutAssumption
  <2> QED
    BY <1>2, <2>1, <1>a DEF ArriveInvalid, redis, database
<1>3. ASSUME NEW r \in Requests, Reserved(r) PROVE LeaksTraced'
  <2>1. \A q \in Requests, o \in Orders : Traces(q, o) => Traces(q, o)'
    BY <1>3, CheckoutAssumption
       DEF Reserved, Traces, HandlerTypeOK, HandlerPhases, CheckoutAssumption
  <2> QED
    BY <1>3, <2>1, <1>a DEF Reserved, redis, database
<1>4. ASSUME NEW r \in Requests, Refused(r) PROVE LeaksTraced'
  <2>1. \A q \in Requests, o \in Orders : Traces(q, o) => Traces(q, o)'
    BY <1>4, CheckoutAssumption
       DEF Refused, Finish, Traces, HandlerTypeOK, HandlerPhases, CheckoutAssumption
  <2> QED
    BY <1>4, <2>1, <1>a DEF Refused, redis, database
<1>5. ASSUME NEW r \in Requests, RetryReserve(r) PROVE LeaksTraced'
  <2>1. \A q \in Requests, o \in Orders : Traces(q, o) => Traces(q, o)'
    BY <1>5, CheckoutAssumption
       DEF RetryReserve, Traces, HandlerTypeOK, HandlerPhases, CheckoutAssumption
  <2> QED
    BY <1>5, <2>1, <1>a DEF RetryReserve, redis, database
<1>6. ASSUME NEW r \in Requests, GiveUp(r) PROVE LeaksTraced'
  <2>1. \A q \in Requests, o \in Orders : Traces(q, o) => Traces(q, o)'
    BY <1>6, CheckoutAssumption
       DEF GiveUp, Finish, HangUp, Traces, HandlerTypeOK, HandlerPhases, CheckoutAssumption
  <2> QED
    BY <1>6, <2>1, <1>a DEF GiveUp, redis, database
<1>7. ASSUME NEW r \in Requests, AnswerLost(r) PROVE LeaksTraced'
  <2>1. \A q \in Requests, o \in Orders : Traces(q, o) => Traces(q, o)'
    BY <1>7, CheckoutAssumption
       DEF AnswerLost, Traces, HandlerTypeOK, HandlerPhases, CheckoutAssumption
  <2> QED
    BY <1>7, <2>1, <1>a DEF AnswerLost, redis, database
<1>8. ASSUME NEW r \in Requests, Save(r) PROVE LeaksTraced'
  <2>1. \A q \in Requests, o \in Orders : q # r /\ Traces(q, o) => Traces(q, o)'
    BY <1>8 DEF Save, Finish, Traces, HandlerTypeOK
  <2>2. \A o \in Orders : orders'[o] = NoOrder => orders[o] = NoOrder
    BY <1>8, CheckoutAssumption
       DEF Save, Commit, CreateOrder, database, DatabaseTypeOK, OrderRow, NoOrder,
           CheckoutAssumption
  <2>3. orders'[OrderOf[r]] # NoOrder
    BY <1>8, CheckoutAssumption
       DEF Save, Commit, CreateOrder, DatabaseTypeOK, OrderRow, NoOrder, CheckoutAssumption
  <2>4. \A o \in Orders : orders'[o] = NoOrder /\ Traces(r, o) => Traces(r, o)'
    BY <2>3 DEF Traces
  <2> QED
    BY <1>8, <2>1, <2>2, <2>4, <1>a DEF Save, redis
<1>9. ASSUME NEW r \in Requests, SaveFails(r) PROVE LeaksTraced'
  <2>1. \A q \in Requests, o \in Orders : q # r /\ Traces(q, o) => Traces(q, o)'
    BY <1>9 DEF SaveFails, Finish, Traces, HandlerTypeOK
  <2>2. \A o \in Orders : orders'[o] = NoOrder => orders[o] = NoOrder
    BY <1>9, CheckoutAssumption
       DEF SaveFails, Commit, CreateOrder, database, DatabaseTypeOK, OrderRow, NoOrder,
           CheckoutAssumption
  <2>4. \A o \in Orders : Traces(r, o) => Traces(r, o)'
    BY <1>9 DEF SaveFails, Finish, Traces, HandlerTypeOK
  <2> QED
    BY <1>9, <2>1, <2>2, <2>4, <1>a DEF SaveFails, redis
<1>10. ASSUME NEW r \in Requests, Abandon(r) PROVE LeaksTraced'
  <2>1. \A q \in Requests, o \in Orders : q # r /\ Traces(q, o) => Traces(q, o)'
    BY <1>10 DEF Abandon, Finish, HangUp, Traces, HandlerTypeOK
  <2>2. \A o \in Orders : orders'[o] = NoOrder => orders[o] = NoOrder
    BY <1>10, CheckoutAssumption
       DEF Abandon, Commit, CreateOrder, database, DatabaseTypeOK, OrderRow, NoOrder,
           CheckoutAssumption
  <2>4. \A o \in Orders : Traces(r, o) => Traces(r, o)'
    BY <1>10 DEF Abandon, Finish, HangUp, Traces, HandlerTypeOK
  <2> QED
    BY <1>10, <2>1, <2>2, <2>4, <1>a DEF Abandon, redis
<1>11. ASSUME NEW r \in Requests, ServeReserve(r) PROVE LeaksTraced'
  <2>1. PICK status \in {"ok", "conflict"} :
           Reserve(r, status) /\ call' = [call EXCEPT ![r] = status]
    BY <1>11 DEF ServeReserve
  <2>2. pc[r] = "reserving" /\ UNCHANGED <<orders, pc, answer, attempt>>
    BY <1>11 DEF ServeReserve, HandlerPhases, HandlerTypeOK, database
  <2>3. status = "ok" => Traces(r, OrderOf[r])'
    BY <2>1, <2>2 DEF Traces, HandlerTypeOK
  <2>4. \A o \in Orders : Traces(r, o) => Traces(r, o)'
    BY <1>11, <2>1, <2>2 DEF ServeReserve, Traces
  <2> QED
    BY <2>1, <2>2, <2>3, <2>4, <1>b DEF HandlerTypeOK
<1>12. ASSUME NEW r \in Requests, ServeLate(r) PROVE LeaksTraced'
  <2>1. PICK status \in {"ok", "conflict"} : Reserve(r, status)
    BY <1>12 DEF ServeLate
  <2>2. UNCHANGED <<orders, pc, call, answer, attempt>>
    BY <1>12 DEF ServeLate, database
  <2>3. Traces(r, OrderOf[r])'
    BY <1>12, <2>2 DEF ServeLate, Traces, HandlerPhases
  <2>4. \A o \in Orders : Traces(r, o) => Traces(r, o)'
    BY <2>2 DEF Traces
  <2> QED
    BY <2>1, <2>2, <2>3, <2>4, <1>b
<1>13. ASSUME NEW i \in Items, NEW k \in StockLevels, SetStock(i, k) PROVE LeaksTraced'
  BY <1>13, <1>a DEF SetStock, Traces, handler, database
<1>14. ASSUME NEW o \in Orders, ReservationExpires(o) PROVE LeaksTraced'
  BY <1>14, <1>a DEF ReservationExpires, Traces, handler, database
<1>15. ASSUME NEW o \in Orders, NEW s \in Statuses, UpdateOrderStatus(o, s) PROVE LeaksTraced'
  <2>1. \A x \in Orders : orders'[x] = NoOrder => orders[x] = NoOrder
    BY <1>15 DEF UpdateOrderStatus, DatabaseTypeOK, NoOrder
  <2> QED
    BY <1>15, <2>1, <1>a DEF UpdateOrderStatus, Traces, handler, redis
<1>16. CASE UNCHANGED vars
  BY <1>16, <1>a DEF vars, Traces, redis, database, handler
<1> QED
  BY <1>1, <1>2, <1>3, <1>4, <1>5, <1>6, <1>7, <1>8,
     <1>9, <1>10, <1>11, <1>12,
     <1>13, <1>14, <1>15, <1>16 DEF Next, Handler

-----------------------------------------------------------------------------
(* The results.                                                            *)

(* The initial states satisfy every part of the invariant.                 *)
LEMMA InitHolds == Init => Basics /\ Grants /\ UnitsAccounted /\ Saved /\ LeaksTraced
<1> SUFFICES ASSUME Init PROVE Basics /\ Grants /\ UnitsAccounted /\ Saved /\ LeaksTraced
  OBVIOUS
<1> USE CheckoutAssumption DEF CheckoutAssumption, Init
<1>1. RedisTypeOK /\ StockWithinSupply
  <2>1. stock \in [Items -> Nat] /\ supply = stock
    OBVIOUS
  <2>2. granted \in [Orders -> SUBSET (Items \X Int)]
    OBVIOUS
  <2> QED
    BY <2>1, <2>2 DEF RedisTypeOK, StockWithinSupply
<1>2. DatabaseTypeOK
  BY DEF DatabaseTypeOK
<1>3. HandlerTypeOK /\ HandlerPhases
  BY DEF HandlerTypeOK, HandlerPhases, Answers
<1>4. Basics
  BY <1>1, <1>2, <1>3 DEF Basics, TypeOK
<1>5. Grants
  BY DEF Grants, GrantsCounted, GrantsFound
<1>6. Int32(0) = 0
  BY Int32Fits
<1>7. Saved
  BY <1>6 DEF Saved, OutboxMirrorsOrders, OrdersFromRequests, CreatedMeansSaved,
              NoOrder, NoEvent
<1>8. LeaksTraced
  BY DEF LeaksTraced
<1>9. UnitsAccounted
  <2>1. \A i \in Items : UnitsGranted(i) = {}
    BY DEF UnitsGranted
  <2>2. \A i \in Items : supply[i] - stock[i] = 0
    BY <1>1 DEF RedisTypeOK
  <2>3. IsFiniteSet({}) /\ Cardinality({}) = 0
    BY FS_EmptySet
  <2> SUFFICES ASSUME NEW i \in Items
               PROVE  /\ IsFiniteSet(UnitsGranted(i))
                      /\ Cardinality(UnitsGranted(i)) <= supply[i] - stock[i]
    BY DEF UnitsAccounted
  <2>4. IsFiniteSet(UnitsGranted(i)) /\ Cardinality(UnitsGranted(i)) = 0
    BY <2>1, <2>3, Zenon
  <2> QED
    BY <2>2, <2>4
<1> QED
  BY <1>4, <1>5, <1>7, <1>8, <1>9

(* IInv is an inductive invariant of placing orders.                       *)
THEOREM Inductive == SafeSpec => []IInv
<1> DEFINE Inv == Basics /\ Grants /\ UnitsAccounted /\ Saved /\ LeaksTraced
<1>1. Init => Inv
  BY InitHolds
<1>2. Inv /\ [Next]_vars => Inv'
  BY BasicsStep, GrantsStep, UnitsStep, SavedStep, LeaksStep
<1>3. Inv => IInv
  BY DEF IInv, Basics, Grants, Saved
<1> QED
  BY <1>1, <1>2, <1>3, PTL DEF SafeSpec

(* Variables keep their types: in particular stock never goes negative.    *)
THEOREM TypeCorrect == SafeSpec => []TypeOK
BY Inductive, PTL DEF IInv

(* The order row and the outbox row of an order come and stay together,    *)
(* for any interleaving of any requests, failures included.                *)
THEOREM NeverDiverge == SafeSpec => []OutboxMirrorsOrders
BY Inductive, PTL DEF IInv

(* A 201 is only sent for an order that is stored.                         *)
THEOREM CreatedIsSaved == SafeSpec => []CreatedMeansSaved
BY Inductive, PTL DEF IInv

(* Retries, late calls and repeated requests take stock for an order once  *)
(* per lifetime of its reservation.                                        *)
THEOREM ReserveIsIdempotent == SafeSpec => []OneGrantPerOrder
<1>1. IInv => OneGrantPerOrder
  BY DEF IInv, TypeOK, RedisTypeOK, GrantsCounted, OneGrantPerOrder
<1> QED
  BY <1>1, Inductive, PTL

(* What is ordered was reserved, of that item and as much of it, unless    *)
(* the key was used for something else too.                                *)
LEMMA OrdersBacked == IInv => OrdersAreBacked
<1> SUFFICES ASSUME IInv, NEW o \in Orders, outbox[o] # NoEvent
             PROVE  /\ granted[o] # {}
                    /\ <<outbox[o].item, outbox[o].qty>> \in granted[o] \/ KeyReused(o)
  BY DEF OrdersAreBacked
<1>1. granted[o] # {} /\ <<outbox[o].item, outbox[o].qty>> \in Asked(o)
  BY DEF IInv, OrdersFromRequests
<1>2. PICK p \in granted[o] : p \in Asked(o)
  BY <1>1 DEF IInv, GrantsFound
<1> QED
  BY <1>1, <1>2 DEF KeyReused

(* Stock was taken for every order, and for what the order says, whatever  *)
(* times out, runs late or expires; but for keys used for two things.      *)
THEOREM OrderedIsReserved == SafeSpec => []OrdersAreBacked
BY OrdersBacked, Inductive, PTL

(* All orders of an item together are for no more units than were put up   *)
(* for sale, but for orders whose key was used for two things.             *)
THEOREM NothingIsOversold == SafeSpec => []NoOversell
<1>1. IInv => NoOversell
  <2> SUFFICES ASSUME IInv, NEW i \in Items
               PROVE  Cardinality(UnitsOrdered(i)) <= supply[i]
    BY DEF NoOversell
  <2>1. /\ IsFiniteSet(UnitsGranted(i))
        /\ Cardinality(UnitsGranted(i)) <= supply[i] - stock[i]
    BY DEF IInv, UnitsAccounted
  <2>2. UnitsOrdered(i) \subseteq UnitsGranted(i)
    <3> SUFFICES ASSUME NEW u \in UnitsOrdered(i)
                 PROVE  u \in UnitsGranted(i)
      OBVIOUS
    <3>1. PICK o \in Orders : outbox[o].item = i /\ ~KeyReused(o) /\ u \in Units(o, outbox[o].qty)
      BY DEF UnitsOrdered
    <3>2. outbox[o] # NoEvent
      BY <3>1, CheckoutAssumption DEF CheckoutAssumption, NoEvent
    <3>3. <<outbox[o].item, outbox[o].qty>> \in {g \in granted[o] : g[1] = i}
      BY <3>1, <3>2, OrdersBacked DEF OrdersAreBacked
    <3> QED
      BY <3>1, <3>3 DEF UnitsGranted
  <2>3. /\ IsFiniteSet(UnitsOrdered(i))
        /\ Cardinality(UnitsOrdered(i)) <= Cardinality(UnitsGranted(i))
    BY <2>1, <2>2, FS_Subset
  <2>4. /\ Cardinality(UnitsOrdered(i)) \in Nat /\ Cardinality(UnitsGranted(i)) \in Nat
        /\ supply[i] \in Nat /\ stock[i] \in Nat
    BY <2>1, <2>3, FS_CardinalityType DEF IInv, TypeOK, RedisTypeOK
  <2> QED
    BY <2>1, <2>3, <2>4
<1> QED
  BY <1>1, Inductive, PTL

(* Stock without an order is always the trace of a failure or of a request *)
(* still at work.                                                          *)
THEOREM LeaksAreExplained == SafeSpec => []StockLeaksNeedFailures
<1>1. IInv => StockLeaksNeedFailures
  BY DEF IInv, LeaksTraced, StockLeaksNeedFailures
<1> QED
  BY <1>1, Inductive, PTL

(* No step rewrites a stored order or takes its status back to pending.    *)
THEOREM OrdersAreFinal == SafeSpec => OrdersNeverRewritten
<1>1. IInv /\ [Next]_vars =>
        [\A o \in Orders : orders[o] # NoOrder =>
           /\ orders'[o].item = orders[o].item /\ orders'[o].qty = orders[o].qty
           /\ orders'[o].status # orders[o].status => orders'[o].status # "pending_payment"]_vars
  <2> SUFFICES ASSUME IInv, [Next]_vars, NEW o \in Orders, orders[o] # NoOrder
               PROVE  /\ orders'[o].item = orders[o].item /\ orders'[o].qty = orders[o].qty
                      /\ orders'[o].status # orders[o].status =>
                           orders'[o].status # "pending_payment"
    OBVIOUS
  <2>0. DatabaseTypeOK
    BY DEF IInv, TypeOK
  <2>1. CASE orders' = orders
    BY <2>1
  <2>2. ASSUME NEW r \in Requests, CreateOrder(r) PROVE orders'[o] = orders[o]
    BY <2>0, <2>2, CheckoutAssumption DEF CreateOrder, DatabaseTypeOK, CheckoutAssumption
  <2>3. ASSUME NEW r \in Requests, Save(r) \/ SaveFails(r) \/ Abandon(r)
        PROVE  orders'[o] = orders[o]
    BY <2>2, <2>3 DEF Save, SaveFails, Abandon, Commit, database
  <2>4. ASSUME NEW x \in Orders, NEW s \in Statuses, UpdateOrderStatus(x, s)
        PROVE  /\ orders'[o].item = orders[o].item /\ orders'[o].qty = orders[o].qty
               /\ orders'[o].status # orders[o].status =>
                    orders'[o].status # "pending_payment"
    BY <2>0, <2>4 DEF UpdateOrderStatus, DatabaseTypeOK, NoOrder
  <2>5. \/ orders' = orders
        \/ \E r \in Requests : Save(r) \/ SaveFails(r) \/ Abandon(r)
        \/ \E x \in Orders, s \in Statuses : UpdateOrderStatus(x, s)
    BY DEF Next, Handler, vars, database, Arrive, ArriveInvalid, Reserved, Refused,
           RetryReserve, GiveUp, AnswerLost, ServeReserve, ServeLate, SetStock,
           ReservationExpires
  <2> QED
    BY <2>1, <2>3, <2>4, <2>5
<1> QED
  BY <1>1, Inductive, PTL DEF SafeSpec, OrdersNeverRewritten
==============================================================================
