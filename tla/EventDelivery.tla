---------------------------- MODULE EventDelivery ----------------------------
(***************************************************************************)
(* What a transactional outbox promises, free of databases, locks and      *)
(* retries: an event that was recorded is told to the rest of the system   *)
(* at least once, nothing is told that was not recorded, and an event is   *)
(* settled (never told again on purpose) only after it was told.           *)
(* OutboxRelay, SqsConsumer and OrderPipeline implement this.              *)
(***************************************************************************)
CONSTANT Rows    \* the events that may ever be recorded

VARIABLES
  recorded,      \* events committed together with the change they describe
  told,          \* events the sink has accepted at least once
  settled        \* events the relay will not take up again

vars == <<recorded, told, settled>>

TypeOK ==
  /\ recorded \subseteq Rows
  /\ told \subseteq Rows
  /\ settled \subseteq Rows

Init ==
  /\ recorded = {}
  /\ told = {}
  /\ settled = {}

Record(o) ==
  /\ o \notin recorded
  /\ recorded' = recorded \cup {o}
  /\ UNCHANGED <<told, settled>>

Tell(o) ==
  /\ o \in recorded
  /\ told' = told \cup {o}
  /\ UNCHANGED <<recorded, settled>>

Settle(o) ==
  /\ o \in told
  /\ settled' = settled \cup {o}
  /\ UNCHANGED <<recorded, told>>

Next == \E o \in Rows : Record(o) \/ Tell(o) \/ Settle(o)

SafeSpec == Init /\ [][Next]_vars

Spec == SafeSpec /\ \A o \in Rows : WF_vars(Tell(o)) /\ WF_vars(Settle(o))
==============================================================================
