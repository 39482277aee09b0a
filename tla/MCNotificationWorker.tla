------------------------ MODULE MCNotificationWorker -------------------------
(* Small instances of NotificationWorker for TLC.                           *)
EXTENDS NotificationWorker, TLC

CONSTANTS m1, m2, p1, p2, s1, s2

OneSlotEach == s1 :> p1 @@ s2 :> p2
TwoKinds == m1 :> "notified" @@ m2 :> "garbled"
==============================================================================
