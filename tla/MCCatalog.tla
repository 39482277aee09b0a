----------------------------- MODULE MCCatalog ------------------------------
(* Small instances of Catalog for TLC.                                      *)
EXTENDS Catalog, TLC

CONSTANTS r1, r2, r3, r4, pa, pb, w1, w2

\* r2 reuses the key of r1 for another price; r3 is another product, at a
\* price beyond int32 (Int32Max is 3); r4 is not valid
SameProductOf == r1 :> pa @@ r2 :> pa @@ r3 :> pb @@ r4 :> pb
PricesOf == r1 :> 1 @@ r2 :> 2 @@ r3 :> 5 @@ r4 :> 0

SameAge == [p \in Products |-> 1]
==============================================================================
