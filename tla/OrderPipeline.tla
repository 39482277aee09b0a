---------------------------- MODULE OrderPipeline ----------------------------
(***************************************************************************)
(* The way of an order from the outbox to its final status.  The relays of *)
(* order-service publish the order's event; the topic fans it out to the   *)
(* payments queue; payment-worker announces an outcome on the same topic;  *)
(* the topic fans that out to the status queue of order-service, whose     *)
(* consumer writes it into the order.                                      *)
(*                                                                         *)
(* OutboxRelay and PaymentWorker are composed as they are.  Each event the *)
(* topic accepts becomes a message with an id of its own, and claims are   *)
(* taken by message id: what is published twice is paid for twice.         *)
(*                                                                         *)
(* The status queue is read by the same consumer as the payments queue     *)
(* (SqsConsumer); its handler is a single UPDATE.  What that consumer does *)
(* to one message comes down to: any number of UPDATEs, in any order with  *)
(* those of other messages, one of them before it is deleted, some perhaps *)
(* after it, by a delivery that overlaps the one that deleted it.          *)
(*                                                                         *)
(* The topic delivers what it accepted once to each queue; the repetitions *)
(* of its clients, which it accepts anew, are modelled.                    *)
(***************************************************************************)
EXTENDS PaymentWorker, OutboxRelay

CONSTANTS
  OrderIn,     \* the order each message of the payments queue is about
  MaxTrouble   \* bound on the faults on an order's way, stops and kills of pods included

VARIABLES
  announced,   \* outcomes the topic accepted, per order and kind
  statusQueue, \* outcomes in the status queue, per order and kind
  statusDead,  \* history: orders with an outcome in the dead letter queue
  status       \* orders.status

statusVars == <<announced, statusQueue, statusDead, status>>
pipelineVars == <<relayVars, payVars, statusVars>>

Outcomes == {"confirmed", "payment_failed"}

ASSUME PipelineAssumption ==
  /\ OrderIn \in [Messages -> Rows]
  /\ \A m \in Messages : KindOf[m] = "OrderPlaced"
  /\ MaxTrouble \in Nat

PipelineTypeOK ==
  /\ RelayTypeOK
  /\ PayTypeOK
  /\ announced \in [Rows -> [Outcomes -> Nat]]
  /\ statusQueue \in [Rows -> [Outcomes -> Nat]]
  /\ statusDead \subseteq Rows
  /\ status \in [Rows -> {"pending_payment"} \cup Outcomes]

NoOutcome == [k \in Outcomes |-> 0]

PipelineInit ==
  /\ RelayInit
  /\ PayInit
  /\ announced = [o \in Rows |-> NoOutcome]
  /\ statusQueue = [o \in Rows |-> NoOutcome]
  /\ statusDead = {}
  /\ status = [o \in Rows |-> "pending_payment"]

-----------------------------------------------------------------------------
(* The topic.                                                              *)

Sent(o) == {m \in Messages : OrderIn[m] = o /\ queue[m] # "unsent"}

\* An accepted OrderPlaced reaches the payments queue, sooner or later
FanOut(m) ==
  /\ Cardinality(Sent(OrderIn[m])) < delivered[OrderIn[m]]
  /\ SendOrder(m)
  /\ UNCHANGED <<relayVars, statusVars>>

\* one event of the worker, as often as the topic accepted it
Announce(o, k, n) ==
  /\ announced' = [announced EXCEPT ![o][k] = @ + n]
  /\ statusQueue' = [statusQueue EXCEPT ![o][k] = @ + n]
  /\ UNCHANGED <<statusDead, status>>

-----------------------------------------------------------------------------
(* The services.                                                           *)

\* order-service: the relays
RelayWorks == RelayNext /\ UNCHANGED <<payVars, statusVars>>

\* payment-worker: what it publishes is drawn at random by each call
Pay(s) ==
  /\ Handle(s)
  /\ IF published' = published
       THEN UNCHANGED statusVars
       ELSE LET m == Msg(s)
            IN  \E k \in Outcomes : Announce(OrderIn[m], k, published'[m] - published[m])
  /\ UNCHANGED relayVars

PayQueueWorks ==
  /\ Around \/ \E p \in Pods : Die(p)
  /\ UNCHANGED <<relayVars, statusVars>>

\* order-service: handleStatusEvent.  UPDATE orders SET status = $2 WHERE id = $1
UpdateOrderStatus(o, k) == status' = [status EXCEPT ![o] = k]

\* ... and the message is deleted, or comes again
ApplyOutcome(o, k) ==
  /\ statusQueue[o][k] > 0
  /\ UpdateOrderStatus(o, k)
  /\ statusQueue' \in {statusQueue, [statusQueue EXCEPT ![o][k] = @ - 1]}
  /\ UNCHANGED <<announced, statusDead, relayVars, payVars>>

\* by an overlapping delivery, when the message is gone already
ApplyLate(o, k) ==
  /\ announced[o][k] > statusQueue[o][k]
  /\ UpdateOrderStatus(o, k)
  /\ UNCHANGED <<announced, statusQueue, statusDead, relayVars, payVars>>

\* all its receives ended in an error
DropOutcome(o, k) ==
  /\ statusQueue[o][k] > 0
  /\ statusQueue' = [statusQueue EXCEPT ![o][k] = @ - 1]
  /\ statusDead' = statusDead \cup {o}
  /\ UNCHANGED <<announced, status, relayVars, payVars>>

StatusStep(o) == \E k \in Outcomes : ApplyOutcome(o, k) \/ DropOutcome(o, k)

StatusWorks == \E o \in Rows : StatusStep(o) \/ \E k \in Outcomes : ApplyLate(o, k)

\* the first count[m] of whatever is counted for each message of M
Numbered(M, count) == UNION {{m} \X (1 .. count[m]) : m \in M}

\* everything that went wrong with order o on its way to an outcome
Faults(o) == strikes[o] + Cardinality(Numbered(Sent(o), unreported))

PipelineNext ==
  /\ \/ RelayWorks
     \/ \E m \in Messages : FanOut(m)
     \/ \E s \in Slots : Pay(s)
     \/ PayQueueWorks
     \/ StatusWorks
  /\ \A o \in Rows : (Faults(o) + stops + kills)' <= MaxTrouble

PipelineSafeSpec == PipelineInit /\ [][PipelineNext]_pipelineVars

\* each service and queue as in its own module; the topic delivers
PipelineSpec ==
  /\ PipelineSafeSpec
  /\ \A w \in Relays : WF_pipelineVars(RelayStep(w) /\ UNCHANGED <<payVars, statusVars>>)
  /\ \A m \in Messages : WF_pipelineVars(FanOut(m))
  /\ \A m \in Messages :
        WF_pipelineVars(QueueStep(m) /\ UNCHANGED <<workerVars, relayVars, statusVars>>)
  /\ \A p \in Pods :
        WF_pipelineVars(PodStep(p) /\ UNCHANGED <<workerVars, relayVars, statusVars>>)
  /\ \A s \in Slots : WF_pipelineVars(
        Pay(s) \/ ((DeleteMessage(s) \/ DeleteFails(s)) /\ UNCHANGED <<workerVars, relayVars, statusVars>>))
  /\ \A o \in Rows : WF_pipelineVars(StatusStep(o))

-----------------------------------------------------------------------------
(* What becomes of an order.                                               *)

(* An order gets one outcome, unless something failed on its way: each     *)
(* further one takes a fault of a relay or its sink while the relay held   *)
(* the order's row, or an acceptance the worker's call did not report.     *)
OneOutcomePerOrder ==
  \A o \in Rows : announced[o]["confirmed"] + announced[o]["payment_failed"] <= 1 + Faults(o)

(* Once it is confirmed or failed an order stays so, unless something      *)
(* failed: no redelivery, reordering or restart alone turns a status over. *)
StatusFlipsNeedFaults ==
  [][\A o \in Rows : status[o] \in Outcomes /\ status'[o] # status[o] => Faults(o) > 0]_pipelineVars

(* Relay, topic, worker and status consumer together implement             *)
(* EventDelivery from end to end: an outcome is announced only for an      *)
(* order that was saved, and a status is an outcome only when one had been *)
(* announced for that order.                                               *)
Settlement == INSTANCE EventDelivery WITH
  recorded <- {o \in Rows : outbox[o] # "absent"},
  told     <- {o \in Rows : \E k \in Outcomes : announced[o][k] > 0},
  settled  <- {o \in Rows : status[o] \in Outcomes}

SettledAfterPayment == Settlement!SafeSpec

\* the traces left by an outcome that will not come
GaveUp(o) ==
  \/ o \in statusDead
  \/ \E m \in Sent(o) : queue[m] = "dead" \/ m \in stranded \cup overlapped

(* A saved order does not stay pending for ever without a trace: a message *)
(* in a dead letter queue, a stranded claim or an overlap of deliveries.   *)
OrdersSettle ==
  \A o \in Rows : outbox[o] = "pending" ~> status[o] \in Outcomes \/ GaveUp(o)

-----------------------------------------------------------------------------
(* The inductive invariant behind the safety properties.                   *)

\* no event is delivered more often than the topic accepted it
MessagesAreDelivered ==
  \A o \in Rows : IsFiniteSet(Sent(o)) /\ Cardinality(Sent(o)) <= delivered[o]

\* an outcome is one that some message of the order had published
OutcomesArePublished ==
  /\ \A m \in Messages : queue[m] = "unsent" => published[m] = 0
  /\ \A o \in Rows : announced[o]["confirmed"] + announced[o]["payment_failed"]
                       = Cardinality(Numbered(Sent(o), published))

StatusIsAnnounced ==
  \A o \in Rows, k \in Outcomes :
     /\ statusQueue[o][k] <= announced[o][k]
     /\ status[o] = k => announced[o][k] >= 1

PipelineIInv ==
  /\ RelayIInv
  /\ PayIInv
  /\ PipelineTypeOK
  /\ MessagesAreDelivered
  /\ OutcomesArePublished
  /\ StatusIsAnnounced
==============================================================================
