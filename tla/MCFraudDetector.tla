-------------------------- MODULE MCFraudDetector ---------------------------
(* Small instances of FraudDetector for TLC.                                *)
EXTENDS FraudDetector, TLC

CONSTANTS m1, m2, m3, m4, p1, p2, s1, s2, ua

TwoSlots == s1 :> p1 @@ s2 :> p1

OneUser == [m \in Messages |-> ua]

\* the two events, and the slots of one pod, are interchangeable
DetectorSymmetry == Permutations({m1, m2}) \cup Permutations({s1, s2})

MixedKinds == m1 :> "event" @@ m2 :> "event" @@ m3 :> "FraudFlagged" @@ m4 :> "garbled"
==============================================================================
