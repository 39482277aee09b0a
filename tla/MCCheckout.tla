----------------------------- MODULE MCCheckout ------------------------------
(* Small instances of Checkout for TLC.                                     *)
EXTENDS Checkout, TLC

CONSTANTS r1, r2, r3, oa, ob, ia, ib

\* r2 repeats r1 under the same key; r3 is another order for the same item
SameOrderOf == r1 :> oa @@ r2 :> oa @@ r3 :> ob
SameItemOf == r1 :> ia @@ r2 :> ia @@ r3 :> ia
SameQtyOf == r1 :> 2 @@ r2 :> 2 @@ r3 :> 1

\* r2 reuses the key of r1 for another item and a quantity beyond int32
\* (Int32Max is 1 in these runs); r3 is not valid
MixedItemOf == r1 :> ia @@ r2 :> ib @@ r3 :> ib
MixedQtyOf == r1 :> 1 @@ r2 :> 2 @@ r3 :> 0

ASSUME Int32(0) = 0 /\ Int32(Int32Max) = Int32Max /\ Int32(Int32Max + 1) = -(Int32Max + 1)
==============================================================================
