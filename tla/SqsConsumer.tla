----------------------------- MODULE SqsConsumer -----------------------------
(***************************************************************************)
(* internal/sqsconsumer: the loop that receives a batch of messages, hands *)
(* each to a handler goroutine once a semaphore slot is free, and deletes  *)
(* the message when the handler returned no error; with the SQS queue it   *)
(* reads, its visibility timeout and its dead letter queue.                *)
(*                                                                         *)
(* The visibility timeout (30 s) runs from the receive, the handler's      *)
(* timeout (30 s as well) only from the dispatch, so a message may become  *)
(* visible again while it waits for a slot, is handled or is deleted.      *)
(*                                                                         *)
(* What a handler does is left open here; PaymentWorker, FraudDetector and *)
(* NotificationWorker fill it in.                                          *)
(***************************************************************************)
EXTENDS Naturals, FiniteSets

CONSTANTS
  Messages,
  Pods,         \* the replicas, each with one consumer
  Slots,        \* the semaphore slots of all pods (CONCURRENCY each)
  PodOf,        \* the pod of each slot
  BatchMax,     \* MaxNumberOfMessages (10 in the code)
  MaxReceives,  \* maxReceiveCount of the redrive policy (5)
  MaxSent,      \* bound on the messages that are sent
  MaxStops,     \* bound on SIGTERMs
  MaxKills,     \* bound on pods killed
  NoJob

ASSUME ConsumerAssumption ==
  /\ PodOf \in [Slots -> Pods]
  /\ BatchMax \in Nat \ {0}
  /\ MaxReceives \in Nat \ {0}
  /\ MaxSent \in Nat
  /\ MaxStops \in Nat
  /\ MaxKills \in Nat
  /\ NoJob \notin Messages \X Nat

VARIABLES
  queue,       \* each message unsent, visible, inflight, deleted or dead
  receives,    \* SQS's receive count; the count names the receipt handle
  inbox,       \* deliveries received but not yet handed to a goroutine
  stopping,    \* is the pod's ctx cancelled?
  slot,        \* what the goroutine holding each slot is doing
  job,         \* the delivery it works on: <<message, receipt>>
  expired,     \* is the context of the call it is in done? (handlerCtx in the
               \* handler, ctx for the deletion)
  stops,       \* bound: SIGTERMs so far
  kills,       \* bound: kills so far
  handled,     \* history: messages some handler call returned nil for
  overlapped   \* history: messages that got visible while a pod held them

consumerVars ==
  <<queue, receives, inbox, stopping, slot, job, expired, stops, kills, handled, overlapped>>

ConsumerTypeOK ==
  /\ queue \in [Messages -> {"unsent", "visible", "inflight", "deleted", "dead"}]
  /\ receives \in [Messages -> 0 .. MaxReceives]
  /\ inbox \in [Pods -> SUBSET (Messages \X Nat)]
  /\ stopping \in [Pods -> BOOLEAN]
  /\ slot \in [Slots -> {"free", "handling", "deleting"}]
  /\ job \in [Slots -> (Messages \X Nat) \cup {NoJob}]
  /\ expired \in [Slots -> BOOLEAN]
  /\ stops \in 0 .. MaxStops
  /\ kills \in 0 .. MaxKills
  /\ handled \subseteq Messages
  /\ overlapped \subseteq Messages

ConsumerInit ==
  /\ queue = [m \in Messages |-> "unsent"]
  /\ receives = [m \in Messages |-> 0]
  /\ inbox = [p \in Pods |-> {}]
  /\ stopping = [p \in Pods |-> FALSE]
  /\ slot = [s \in Slots |-> "free"]
  /\ job = [s \in Slots |-> NoJob]
  /\ expired = [s \in Slots |-> FALSE]
  /\ stops = 0
  /\ kills = 0
  /\ handled = {}
  /\ overlapped = {}

Waiting(m) == \E p \in Pods : \E d \in inbox[p] : d[1] = m
Busy(s, m) == slot[s] # "free" /\ job[s][1] = m
Holds(m) == Waiting(m) \/ \E s \in Slots : Busy(s, m)

-----------------------------------------------------------------------------
(* SQS.                                                                    *)

Send(m) ==
  /\ queue[m] = "unsent"
  /\ Cardinality({n \in Messages : queue[n] # "unsent"}) < MaxSent
  /\ queue' = [queue EXCEPT ![m] = "visible"]
  /\ UNCHANGED <<receives, inbox, stopping, slot, job, expired, stops, kills, handled, overlapped>>

Receivable == {m \in Messages : queue[m] = "visible" /\ receives[m] < MaxReceives}

\* A long poll returns the batch B
Hand(B) ==
  /\ B # {} /\ Cardinality(B) <= BatchMax
  /\ queue' = [m \in Messages |-> IF m \in B THEN "inflight" ELSE queue[m]]
  /\ receives' = [m \in Messages |-> IF m \in B THEN receives[m] + 1 ELSE receives[m]]

VisibilityExpires(m) ==
  /\ queue[m] = "inflight"
  /\ queue' = [queue EXCEPT ![m] = "visible"]
  /\ overlapped' = IF Holds(m) THEN overlapped \cup {m} ELSE overlapped
  /\ UNCHANGED <<receives, inbox, stopping, slot, job, expired, stops, kills, handled>>

\* The receive after the last allowed one moves the message to the DLQ
Redrive(m) ==
  /\ queue[m] = "visible" /\ receives[m] = MaxReceives
  /\ queue' = [queue EXCEPT ![m] = "dead"]
  /\ UNCHANGED <<receives, inbox, stopping, slot, job, expired, stops, kills, handled, overlapped>>

\* A current receipt handle deletes; a stale one may or may not
Remove(d) ==
  LET gone == [queue EXCEPT ![d[1]] = "deleted"]
  IN  IF queue[d[1]] \notin {"visible", "inflight"}
        THEN queue' = queue
        ELSE queue' = gone \/ (receives[d[1]] # d[2] /\ queue' = queue)

-----------------------------------------------------------------------------
(* The consumer.                                                           *)

\* Run: ReceiveMessage, once the whole previous batch has been dispatched
Receive(p) ==
  /\ ~stopping[p] /\ inbox[p] = {}
  /\ \E B \in SUBSET Receivable :
        /\ Hand(B)
        /\ inbox' = [inbox EXCEPT ![p] = {<<m, receives'[m]>> : m \in B}]
  /\ UNCHANGED <<stopping, slot, job, expired, stops, kills, handled, overlapped>>

\* ... whose reply the pod does not get: an error, or ctx is cancelled
ReceiveFails(p) ==
  /\ inbox[p] = {}
  /\ \E B \in SUBSET Receivable : Hand(B)
  /\ UNCHANGED <<inbox, stopping, slot, job, expired, stops, kills, handled, overlapped>>

Dispatch_KeepsDelivery(s) ==
  LET p == PodOf[s]
  IN  /\ slot[s] = "free"
      /\ \E d \in inbox[p] : job' = [job EXCEPT ![s] = d]
      /\ slot' = [slot EXCEPT ![s] = "handling"]
      /\ expired' = [expired EXCEPT ![s] = stopping[p]]
      /\ UNCHANGED <<queue, receives, inbox, stopping, stops, kills, handled, overlapped>>
\* sem <- struct{}{} and wg.Go; also when ctx is already cancelled
Dispatch(s) ==
  LET p == PodOf[s]
  IN  /\ slot[s] = "free"
      /\ \E d \in inbox[p] :
            /\ inbox' = [inbox EXCEPT ![p] = @ \ {d}]
            /\ job' = [job EXCEPT ![s] = d]
      /\ slot' = [slot EXCEPT ![s] = "handling"]
      /\ expired' = [expired EXCEPT ![s] = stopping[p]]
      /\ UNCHANGED <<queue, receives, stopping, stops, kills, handled, overlapped>>

\* 30 s in the handler
HandlerTimeout(s) ==
  /\ slot[s] = "handling"
  /\ ~expired[s]
  /\ expired' = [expired EXCEPT ![s] = TRUE]
  /\ UNCHANGED <<queue, receives, inbox, stopping, slot, job, stops, kills, handled, overlapped>>

Release(s) ==
  /\ slot' = [slot EXCEPT ![s] = "free"]
  /\ job' = [job EXCEPT ![s] = NoJob]
  /\ expired' = [expired EXCEPT ![s] = FALSE]

\* The handler returns nil; the deletion starts, on ctx and not on handlerCtx
HandlerOK(s) ==
  /\ slot[s] = "handling"
  /\ slot' = [slot EXCEPT ![s] = "deleting"]
  /\ expired' = [expired EXCEPT ![s] = stopping[PodOf[s]]]
  /\ handled' = handled \cup {job[s][1]}
  /\ UNCHANGED <<queue, receives, inbox, stopping, job, stops, kills, overlapped>>

HandlerError_Acks(s) ==
  /\ slot[s] = "handling"
  /\ slot' = [slot EXCEPT ![s] = "deleting"]
  /\ expired' = [expired EXCEPT ![s] = stopping[PodOf[s]]]
  /\ UNCHANGED <<queue, receives, inbox, stopping, job, stops, kills, handled, overlapped>>
\* The handler returns an error: the message stays for a redelivery
HandlerError(s) ==
  /\ slot[s] = "handling"
  /\ Release(s)
  /\ UNCHANGED <<queue, receives, inbox, stopping, stops, kills, handled, overlapped>>

DeleteMessage(s) ==
  /\ slot[s] = "deleting"
  /\ ~expired[s]
  /\ Remove(job[s])
  /\ Release(s)
  /\ UNCHANGED <<receives, inbox, stopping, stops, kills, handled, overlapped>>

\* always so after SIGTERM: what is handled during the shutdown comes again
DeleteFails(s) ==
  /\ slot[s] = "deleting"
  /\ Release(s)
  /\ UNCHANGED <<queue, receives, inbox, stopping, stops, kills, handled, overlapped>>

\* SIGTERM cancels ctx, and with it the context of every running handler
Stop(p) ==
  /\ ~stopping[p]
  /\ stops < MaxStops
  /\ stops' = stops + 1
  /\ stopping' = [stopping EXCEPT ![p] = TRUE]
  /\ expired' = [s \in Slots |-> IF PodOf[s] = p /\ slot[s] = "handling" THEN TRUE ELSE expired[s]]
  /\ UNCHANGED <<queue, receives, inbox, slot, job, kills, handled, overlapped>>

\* wg.Wait is over, Run returns, and a new replica takes the pod's place
Exit(p) ==
  /\ stopping[p]
  /\ inbox[p] = {}
  /\ \A s \in Slots : PodOf[s] = p => slot[s] = "free"
  /\ stopping' = [stopping EXCEPT ![p] = FALSE]
  /\ UNCHANGED <<queue, receives, inbox, slot, job, expired, stops, kills, handled, overlapped>>

\* The process dies between any two steps; a new replica starts
Kill(p) ==
  /\ kills < MaxKills
  /\ kills' = kills + 1
  /\ stopping' = [stopping EXCEPT ![p] = FALSE]
  /\ inbox' = [inbox EXCEPT ![p] = {}]
  /\ slot' = [s \in Slots |-> IF PodOf[s] = p THEN "free" ELSE slot[s]]
  /\ job' = [s \in Slots |-> IF PodOf[s] = p THEN NoJob ELSE job[s]]
  /\ expired' = [s \in Slots |-> IF PodOf[s] = p THEN FALSE ELSE expired[s]]
  /\ UNCHANGED <<queue, receives, stops, handled, overlapped>>

-----------------------------------------------------------------------------
(* The consumer with an arbitrary handler.                                 *)

QueueStep(m) == VisibilityExpires(m) \/ Redrive(m)
PodStep(p) == Receive(p) \/ Exit(p)
SlotStep(s) ==
  Dispatch(s) \/ HandlerOK(s) \/ HandlerError(s) \/ DeleteMessage(s) \/ DeleteFails(s)

ConsumerNext ==
  \/ \E m \in Messages : Send(m) \/ QueueStep(m)
  \/ \E p \in Pods : PodStep(p) \/ ReceiveFails(p) \/ Stop(p) \/ Kill(p)
  \/ \E s \in Slots : SlotStep(s) \/ HandlerTimeout(s)

ConsumerSafeSpec == ConsumerInit /\ [][ConsumerNext]_consumerVars

-----------------------------------------------------------------------------
(* What the consumer guarantees.                                           *)

(* A message is deleted only after a handler accepted it: the consumer     *)
(* keeps the promise of EventDelivery, with "told" read as "handled".      *)
Delivery == INSTANCE EventDelivery WITH
  Rows     <- Messages,
  recorded <- {m \in Messages : queue[m] # "unsent"},
  told     <- handled,
  settled  <- {m \in Messages : queue[m] = "deleted"}

AckAfterSuccess == Delivery!SafeSpec

(* Two goroutines hold the same message, or one holds a message the queue  *)
(* offers again, only when its visibility timeout ran out on a pod.        *)
OverlapsAreTimeouts ==
  \A m \in Messages \ overlapped :
     /\ Holds(m) => queue[m] # "visible"
     /\ Waiting(m) => \A s \in Slots : ~Busy(s, m)
     /\ \A s, t \in Slots : Busy(s, m) /\ Busy(t, m) => s = t

-----------------------------------------------------------------------------
(* The inductive invariant behind the safety properties.                   *)

UnsentAreUnheld == \A m \in Messages : queue[m] = "unsent" => ~Holds(m)

\* a pod has one delivery at most of a message that never overlapped
DeliveriesAreSingle ==
  \A m \in Messages \ overlapped : \A p, q \in Pods :
     \A d \in inbox[p], e \in inbox[q] : d[1] = m /\ e[1] = m => p = q /\ d = e

BusySlotsHaveJobs == \A s \in Slots : slot[s] # "free" => job[s] \in Messages \X Nat

DeletionsAreEarned ==
  /\ \A s \in Slots : slot[s] = "deleting" => job[s][1] \in handled
  /\ \A m \in Messages : queue[m] = "deleted" => m \in handled

ConsumerIInv ==
  /\ ConsumerTypeOK
  /\ OverlapsAreTimeouts
  /\ UnsentAreUnheld
  /\ DeliveriesAreSingle
  /\ BusySlotsHaveJobs
  /\ DeletionsAreEarned
==============================================================================
