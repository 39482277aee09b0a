-------------------------- MODULE MCPaymentWorker ---------------------------
(* Small instances of PaymentWorker for TLC.                                *)
EXTENDS PaymentWorker, TLC

CONSTANTS m1, m2, m3, p1, p2, s1, s2

OneSlotEach == s1 :> p1 @@ s2 :> p2
OneSlot == s1 :> p1

OnlyOrders == [m \in Messages |-> "OrderPlaced"]
MixedKinds == m1 :> "OrderPlaced" @@ m2 :> "other" @@ m3 :> "garbled"
==============================================================================
