------------------------------ MODULE MCReaper -------------------------------
(* Small instances of Reaper for TLC.                                       *)
EXTENDS Reaper, TLC

CONSTANTS v1, e1, i1, i2

OneOfEach == v1 :> "volume" @@ e1 :> "eip"
OneVolume == v1 :> "volume"
==============================================================================
