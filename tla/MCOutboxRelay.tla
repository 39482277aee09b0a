--------------------------- MODULE MCOutboxRelay ----------------------------
(* Small instances of OutboxRelay for TLC.                                  *)
EXTENDS OutboxRelay, TLC

CONSTANTS o1, o2, o3, w1, w2

\* three rows: the first two carry the same created_at
CreatedAtOf3 == o1 :> 1 @@ o2 :> 1 @@ o3 :> 2
==============================================================================
