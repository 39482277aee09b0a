----------------------------- MODULE MCGuardrail -----------------------------
(* Small instances of Guardrail for TLC.                                    *)
EXTENDS Guardrail, TLC

CONSTANTS ra, rb, c1, c2, c3, c4

\* two calls that share a rule, one that opens nothing to the world, and one
\* (c4) that names the group and may open the shared rule first
SharedRule == c1 :> {ra, rb} @@ c2 :> {rb} @@ c3 :> {} @@ c4 :> {rb}
TwiceOrOnce == c1 :> 2 @@ c2 :> 1 @@ c3 :> 1 @@ c4 :> 1
==============================================================================
