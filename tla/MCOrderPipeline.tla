-------------------------- MODULE MCOrderPipeline ---------------------------
(* Small instances of OrderPipeline for TLC.                                *)
EXTENDS OrderPipeline, TLC

CONSTANTS m1, m2, p1, s1, o1, w1

OneSlot == s1 :> p1
OnlyOrders == [m \in Messages |-> "OrderPlaced"]
OneOrder == [m \in Messages |-> o1]
SameAge == [o \in Rows |-> 1]
==============================================================================
