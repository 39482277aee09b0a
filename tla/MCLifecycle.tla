----------------------------- MODULE MCLifecycle -----------------------------
(* Small instances of Lifecycle for TLC.                                    *)
EXTENDS Lifecycle, TLC

CONSTANTS s1, s2
==============================================================================
