-------------------------- MODULE SqsConsumerProofs --------------------------
(***************************************************************************)
(* Theorems about SqsConsumer, for any sets of messages, pods and slots,   *)
(* any batch size, any receive count and any number of stops and kills,    *)
(* and for every handler.                                                  *)
(***************************************************************************)
EXTENDS SqsConsumer, TLAPS

(* The queue is empty and nobody holds anything in the initial state.      *)
LEMMA ConsumerStarts == ConsumerInit => ConsumerIInv
BY ConsumerAssumption
   DEF ConsumerAssumption, ConsumerInit, ConsumerIInv, ConsumerTypeOK, OverlapsAreTimeouts,
       UnsentAreUnheld, DeliveriesAreSingle, BusySlotsHaveJobs, DeletionsAreEarned,
       Holds, Waiting, Busy

-----------------------------------------------------------------------------
(* Each step of the queue, the pods and the slots keeps ConsumerIInv.      *)

(* Every step keeps the types.                                             *)
LEMMA TypesKept ==
  ASSUME ConsumerTypeOK, BusySlotsHaveJobs, [ConsumerNext]_consumerVars
  PROVE  ConsumerTypeOK'
<1> USE ConsumerAssumption DEF ConsumerAssumption, ConsumerTypeOK
<1>1. ASSUME NEW m \in Messages, Send(m) PROVE ConsumerTypeOK'
  BY <1>1 DEF Send
<1>2. ASSUME NEW m \in Messages, VisibilityExpires(m) PROVE ConsumerTypeOK'
  BY <1>2 DEF VisibilityExpires
<1>3. ASSUME NEW m \in Messages, Redrive(m) PROVE ConsumerTypeOK'
  BY <1>3 DEF Redrive
<1>4. ASSUME NEW B \in SUBSET Receivable, Hand(B)
      PROVE  /\ queue' \in [Messages -> {"unsent", "visible", "inflight", "deleted", "dead"}]
             /\ receives' \in [Messages -> 0 .. MaxReceives]
  BY <1>4 DEF Hand, Receivable
<1>5. ASSUME NEW p \in Pods, Receive(p) PROVE ConsumerTypeOK'
  <2>1. PICK B \in SUBSET Receivable :
           Hand(B) /\ inbox' = [inbox EXCEPT ![p] = {<<m, receives'[m]>> : m \in B}]
    BY <1>5 DEF Receive
  <2>2. {<<m, receives'[m]>> : m \in B} \subseteq Messages \X Nat
    BY <2>1, <1>4 DEF Receivable
  <2> QED
    BY <1>4, <1>5, <2>1, <2>2 DEF Receive
<1>6. ASSUME NEW p \in Pods, ReceiveFails(p) PROVE ConsumerTypeOK'
  BY <1>4, <1>6 DEF ReceiveFails
<1>7. ASSUME NEW p \in Pods, Stop(p) PROVE ConsumerTypeOK'
  <2>1. stops' \in 0 .. MaxStops
    BY <1>7 DEF Stop
  <2>2. stopping' \in [Pods -> BOOLEAN]
    BY <1>7 DEF Stop
  <2>3. expired' \in [Slots -> BOOLEAN]
    BY <1>7 DEF Stop
  <2> QED
    BY <1>7, <2>1, <2>2, <2>3 DEF Stop
<1>8. ASSUME NEW p \in Pods, Exit(p) PROVE ConsumerTypeOK'
  BY <1>8 DEF Exit
<1>9. ASSUME NEW p \in Pods, Kill(p) PROVE ConsumerTypeOK'
  <2>1. kills' \in 0 .. MaxKills
    BY <1>9 DEF Kill
  <2>2. stopping' \in [Pods -> BOOLEAN] /\ inbox' \in [Pods -> SUBSET (Messages \X Nat)]
    BY <1>9 DEF Kill
  <2>3. slot' \in [Slots -> {"free", "handling", "deleting"}]
    BY <1>9 DEF Kill
  <2>4. job' \in [Slots -> (Messages \X Nat) \cup {NoJob}]
    BY <1>9 DEF Kill
  <2>5. expired' \in [Slots -> BOOLEAN]
    BY <1>9 DEF Kill
  <2> QED
    BY <1>9, <2>1, <2>2, <2>3, <2>4, <2>5 DEF Kill
<1>10. ASSUME NEW s \in Slots, Dispatch(s) PROVE ConsumerTypeOK'
  BY <1>10 DEF Dispatch
<1>11. ASSUME NEW s \in Slots, HandlerTimeout(s) PROVE ConsumerTypeOK'
  BY <1>11 DEF HandlerTimeout
<1>12. ASSUME NEW s \in Slots, HandlerOK(s) PROVE ConsumerTypeOK'
  BY <1>12 DEF HandlerOK, BusySlotsHaveJobs
<1>13. ASSUME NEW s \in Slots, HandlerError(s) PROVE ConsumerTypeOK'
  BY <1>13 DEF HandlerError, Release
<1>14. ASSUME NEW s \in Slots, DeleteMessage(s) PROVE ConsumerTypeOK'
  <2>1. job[s][1] \in Messages
    BY <1>14 DEF DeleteMessage, BusySlotsHaveJobs
  <2>2. queue' \in [Messages -> {"unsent", "visible", "inflight", "deleted", "dead"}]
    BY <1>14, <2>1 DEF DeleteMessage, Remove
  <2> QED
    BY <1>14, <2>2 DEF DeleteMessage, Release
<1>15. ASSUME NEW s \in Slots, DeleteFails(s) PROVE ConsumerTypeOK'
  BY <1>15 DEF DeleteFails, Release
<1>16. CASE UNCHANGED consumerVars
  BY <1>16 DEF consumerVars
<1> QED
  BY <1>1, <1>2, <1>3, <1>5, <1>6, <1>7, <1>8, <1>9, <1>10, <1>11, <1>12, <1>13,
     <1>14, <1>15, <1>16 DEF ConsumerNext, QueueStep, PodStep, SlotStep

Holders == OverlapsAreTimeouts /\ UnsentAreUnheld /\ DeliveriesAreSingle

(* Giving up deliveries is harmless, and so is a change of the queue that  *)
(* offers no message somebody holds, except in an overlap.                 *)
LEMMA HoldersShrink ==
  ASSUME Holders,
         \A p \in Pods : inbox'[p] \subseteq inbox[p],
         \A s \in Slots : slot'[s] # "free" => slot[s] # "free" /\ job'[s] = job[s],
         overlapped \subseteq overlapped',
         \A m \in Messages :
            /\ queue'[m] = "visible" /\ m \notin overlapped' /\ Holds(m) => queue[m] = "visible"
            /\ queue'[m] = "unsent" => queue[m] = "unsent"
  PROVE  Holders'
<1>1. \A m \in Messages : Waiting(m)' => Waiting(m)
  BY DEF Waiting
<1>2. \A m \in Messages : \A s \in Slots : Busy(s, m)' => Busy(s, m)
  BY DEF Busy
<1>3. \A m \in Messages : Holds(m)' => Holds(m)
  BY <1>1, <1>2 DEF Holds
<1>4. OverlapsAreTimeouts'
  BY <1>1, <1>2, <1>3 DEF Holders, OverlapsAreTimeouts
<1>5. UnsentAreUnheld'
  BY <1>3 DEF Holders, UnsentAreUnheld
<1>6. DeliveriesAreSingle'
  BY DEF Holders, DeliveriesAreSingle
<1> QED
  BY <1>4, <1>5, <1>6 DEF Holders

(* A batch comes from messages the queue offers, which nobody holds unless *)
(* they overlap.                                                           *)
LEMMA HoldersReceive ==
  ASSUME ConsumerTypeOK, Holders, NEW p \in Pods, Receive(p)
  PROVE  Holders'
<1> USE ConsumerAssumption DEF ConsumerAssumption, ConsumerTypeOK
<1>1. PICK B \in SUBSET Receivable :
         Hand(B) /\ inbox' = [inbox EXCEPT ![p] = {<<m, receives'[m]>> : m \in B}]
  BY DEF Receive
<1> DEFINE batch == {<<m, receives'[m]>> : m \in B}
<1>2. /\ B \subseteq Messages
      /\ \A m \in B : queue[m] = "visible"
      /\ \A m \in Messages : queue'[m] = IF m \in B THEN "inflight" ELSE queue[m]
  BY <1>1 DEF Hand, Receivable
<1>3. /\ inbox[p] = {}
      /\ \A q \in Pods : inbox'[q] = IF q = p THEN batch ELSE inbox[q]
      /\ slot' = slot /\ job' = job /\ overlapped' = overlapped
  BY <1>1 DEF Receive
<1>a. \A d \in batch : d[1] \in B /\ d = <<d[1], receives'[d[1]]>>
  OBVIOUS
<1> HIDE DEF batch
<1>4. \A m \in Messages : \A s \in Slots : Busy(s, m)' <=> Busy(s, m)
  BY <1>3 DEF Busy
<1>5. \A m \in Messages : Waiting(m)' => m \in B \/ Waiting(m)
  BY <1>3, <1>a DEF Waiting
<1>6. \A m \in B \ overlapped : ~Holds(m)
  BY <1>2 DEF Holders, OverlapsAreTimeouts
<1>7. OverlapsAreTimeouts'
  <2> SUFFICES ASSUME NEW m \in Messages \ overlapped
               PROVE  /\ Holds(m)' => queue'[m] # "visible"
                      /\ Waiting(m)' => \A s \in Slots : ~Busy(s, m)'
                      /\ \A s, t \in Slots : Busy(s, m)' /\ Busy(t, m)' => s = t
    BY <1>3 DEF OverlapsAreTimeouts
  <2>1. CASE m \in B
    BY <2>1, <1>2, <1>4, <1>6 DEF Holds
  <2>2. CASE m \notin B
    BY <2>2, <1>2, <1>4, <1>5 DEF Holds, Holders, OverlapsAreTimeouts
  <2> QED
    BY <2>1, <2>2
<1>8. UnsentAreUnheld'
  BY <1>2, <1>4, <1>5 DEF UnsentAreUnheld, Holds, Holders
<1>9. DeliveriesAreSingle'
  <2> SUFFICES ASSUME NEW m \in Messages \ overlapped, NEW q \in Pods, NEW r \in Pods,
                      NEW d \in inbox'[q], NEW e \in inbox'[r], d[1] = m, e[1] = m
               PROVE  q = r /\ d = e
    BY <1>3 DEF DeliveriesAreSingle
  <2>1. CASE m \in B
    <3>1. ~Waiting(m)
      BY <2>1, <1>6 DEF Holds
    <3>2. q = p /\ r = p
      BY <3>1, <1>3 DEF Waiting
    <3>3. d \in batch /\ e \in batch
      BY <3>2, <1>3
    <3> QED
      BY <3>2, <3>3, <1>a
  <2>2. CASE m \notin B
    <3>1. q # p /\ r # p
      BY <2>2, <1>3, <1>a
    <3>2. d \in inbox[q] /\ e \in inbox[r]
      BY <3>1, <1>3
    <3> QED
      BY <3>2 DEF Holders, DeliveriesAreSingle
  <2> QED
    BY <2>1, <2>2
<1> QED
  BY <1>7, <1>8, <1>9 DEF Holders

(* Handing a delivery to a goroutine moves it: it waits no longer.         *)
LEMMA HoldersDispatch ==
  ASSUME ConsumerTypeOK, Holders, NEW s \in Slots, Dispatch(s)
  PROVE  Holders'
<1> USE ConsumerAssumption DEF ConsumerAssumption, ConsumerTypeOK
<1> DEFINE p == PodOf[s]
<1>1. PICK d \in inbox[p] : /\ inbox' = [inbox EXCEPT ![p] = @ \ {d}]
                            /\ job' = [job EXCEPT ![s] = d]
  BY DEF Dispatch
<1>2. d[1] \in Messages /\ p \in Pods
  BY <1>1
<1>3. /\ slot[s] = "free" /\ slot'[s] = "handling" /\ job'[s] = d
      /\ \A t \in Slots : t # s => slot'[t] = slot[t] /\ job'[t] = job[t]
      /\ \A q \in Pods : inbox'[q] = IF q = p THEN inbox[q] \ {d} ELSE inbox[q]
      /\ overlapped' = overlapped /\ queue' = queue
  BY <1>1, <1>2 DEF Dispatch
<1>4. Waiting(d[1])
  BY <1>2 DEF Waiting
<1>5. \A m \in Messages : Waiting(m)' => Waiting(m)
  BY <1>3 DEF Waiting
<1>6. \A m \in Messages : \A t \in Slots : Busy(t, m)' <=> IF t = s THEN m = d[1] ELSE Busy(t, m)
  BY <1>3 DEF Busy
<1>7. \A m \in Messages : Holds(m)' => Holds(m)
  BY <1>4, <1>5, <1>6 DEF Holds
<1>8. d[1] \notin overlapped => ~Waiting(d[1])'
  <2> SUFFICES ASSUME d[1] \notin overlapped, NEW q \in Pods, NEW e \in inbox'[q], e[1] = d[1]
               PROVE  FALSE
    BY DEF Waiting
  <2>1. e \in inbox[q]
    BY <1>3
  <2>2. q = p /\ e = d
    BY <2>1, <1>2 DEF Holders, DeliveriesAreSingle
  <2> QED
    BY <2>2, <1>3
<1>9. OverlapsAreTimeouts'
  <2> SUFFICES ASSUME NEW m \in Messages \ overlapped
               PROVE  /\ Holds(m)' => queue'[m] # "visible"
                      /\ Waiting(m)' => \A t \in Slots : ~Busy(t, m)'
                      /\ \A t, u \in Slots : Busy(t, m)' /\ Busy(u, m)' => t = u
    BY <1>3 DEF OverlapsAreTimeouts
  <2>1. Holds(m)' => queue'[m] # "visible"
    BY <1>3, <1>7 DEF Holders, OverlapsAreTimeouts
  <2>2. CASE m = d[1]
    <3>1. \A t \in Slots : ~Busy(t, m)
      BY <2>2, <1>4 DEF Holders, OverlapsAreTimeouts
    <3> QED
      BY <2>1, <2>2, <3>1, <1>6, <1>8
  <2>3. CASE m # d[1]
    BY <2>1, <2>3, <1>5, <1>6 DEF Holders, OverlapsAreTimeouts
  <2> QED
    BY <2>2, <2>3
<1>10. UnsentAreUnheld'
  BY <1>3, <1>7 DEF UnsentAreUnheld, Holders
<1>11. DeliveriesAreSingle'
  <2>1. \A q \in Pods : inbox'[q] \subseteq inbox[q]
    BY <1>3
  <2> QED
    BY <1>3, <2>1 DEF DeliveriesAreSingle, Holders
<1> QED
  BY <1>9, <1>10, <1>11 DEF Holders

(* Every step keeps who holds what apart.                                  *)
LEMMA HoldersKept ==
  ASSUME ConsumerTypeOK, BusySlotsHaveJobs, Holders, [ConsumerNext]_consumerVars
  PROVE  Holders'
<1> USE ConsumerAssumption DEF ConsumerAssumption, ConsumerTypeOK
<1>1. ASSUME NEW m \in Messages, Send(m) PROVE Holders'
  <2>1. ~Holds(m)
    BY <1>1 DEF Send, Holders, UnsentAreUnheld
  <2> QED
    BY <1>1, <2>1, HoldersShrink DEF Send
<1>2. ASSUME NEW m \in Messages, VisibilityExpires(m) PROVE Holders'
  BY <1>2, HoldersShrink DEF VisibilityExpires
<1>3. ASSUME NEW m \in Messages, Redrive(m) PROVE Holders'
  BY <1>3, HoldersShrink DEF Redrive
<1>4. ASSUME NEW p \in Pods, Receive(p) PROVE Holders'
  BY <1>4, HoldersReceive
<1>5. ASSUME NEW p \in Pods, ReceiveFails(p) PROVE Holders'
  BY <1>5, HoldersShrink DEF ReceiveFails, Hand
<1>6. ASSUME NEW p \in Pods, Stop(p) PROVE Holders'
  BY <1>6, HoldersShrink DEF Stop
<1>7. ASSUME NEW p \in Pods, Exit(p) PROVE Holders'
  BY <1>7, HoldersShrink DEF Exit
<1>8. ASSUME NEW p \in Pods, Kill(p) PROVE Holders'
  BY <1>8, HoldersShrink DEF Kill
<1>9. ASSUME NEW s \in Slots, Dispatch(s) PROVE Holders'
  BY <1>9, HoldersDispatch
<1>10. ASSUME NEW s \in Slots, HandlerTimeout(s) PROVE Holders'
  BY <1>10, HoldersShrink DEF HandlerTimeout
<1>11. ASSUME NEW s \in Slots, HandlerOK(s) PROVE Holders'
  BY <1>11, HoldersShrink DEF HandlerOK
<1>12. ASSUME NEW s \in Slots, HandlerError(s) PROVE Holders'
  BY <1>12, HoldersShrink DEF HandlerError, Release
<1>13. ASSUME NEW s \in Slots, DeleteMessage(s) PROVE Holders'
  <2>1. job[s][1] \in Messages
    BY <1>13 DEF DeleteMessage, BusySlotsHaveJobs
  <2>2. \A m \in Messages : queue'[m] \in {queue[m], "deleted"}
    BY <1>13, <2>1 DEF DeleteMessage, Remove
  <2> QED
    BY <1>13, <2>2, HoldersShrink DEF DeleteMessage, Release
<1>14. ASSUME NEW s \in Slots, DeleteFails(s) PROVE Holders'
  BY <1>14, HoldersShrink DEF DeleteFails, Release
<1>15. CASE UNCHANGED consumerVars
  BY <1>15, HoldersShrink DEF consumerVars
<1> QED
  BY <1>1, <1>2, <1>3, <1>4, <1>5, <1>6, <1>7, <1>8, <1>9, <1>10, <1>11, <1>12,
     <1>13, <1>14, <1>15 DEF ConsumerNext, QueueStep, PodStep, SlotStep

(* A busy slot has its job, and whoever deletes a message, or did, has     *)
(* seen a handler accept it.                                               *)
LEMMA JobsKept ==
  ASSUME ConsumerTypeOK, BusySlotsHaveJobs, DeletionsAreEarned, [ConsumerNext]_consumerVars
  PROVE  BusySlotsHaveJobs' /\ DeletionsAreEarned'
<1> USE ConsumerAssumption DEF ConsumerAssumption, ConsumerTypeOK
<1> DEFINE Kept == BusySlotsHaveJobs' /\ DeletionsAreEarned'
<1>1. ASSUME \A s \in Slots : slot'[s] # "free" => slot'[s] = slot[s] /\ job'[s] = job[s],
             \A m \in Messages : queue'[m] = "deleted" =>
                queue[m] = "deleted" \/ \E s \in Slots : slot[s] = "deleting" /\ job[s][1] = m,
             handled' = handled
      PROVE  Kept
  <2>1. BusySlotsHaveJobs'
    BY <1>1 DEF BusySlotsHaveJobs
  <2>2. \A s \in Slots : slot'[s] = "deleting" => job'[s][1] \in handled'
    BY <1>1 DEF DeletionsAreEarned
  <2>3. \A m \in Messages : queue'[m] = "deleted" => m \in handled'
    BY <1>1 DEF DeletionsAreEarned
  <2> QED
    BY <2>1, <2>2, <2>3 DEF DeletionsAreEarned
<1> HIDE DEF Kept
<1>2. ASSUME NEW m \in Messages, Send(m) PROVE Kept
  BY <1>1, <1>2 DEF Send
<1>3. ASSUME NEW m \in Messages, VisibilityExpires(m) PROVE Kept
  BY <1>1, <1>3 DEF VisibilityExpires
<1>4. ASSUME NEW m \in Messages, Redrive(m) PROVE Kept
  BY <1>1, <1>4 DEF Redrive
<1>5. ASSUME NEW p \in Pods, Receive(p) PROVE Kept
  BY <1>1, <1>5 DEF Receive, Hand
<1>6. ASSUME NEW p \in Pods, ReceiveFails(p) PROVE Kept
  BY <1>1, <1>6 DEF ReceiveFails, Hand
<1>7. ASSUME NEW p \in Pods, Stop(p) PROVE Kept
  BY <1>1, <1>7 DEF Stop
<1>8. ASSUME NEW p \in Pods, Exit(p) PROVE Kept
  BY <1>1, <1>8 DEF Exit
<1>9. ASSUME NEW p \in Pods, Kill(p) PROVE Kept
  BY <1>1, <1>9 DEF Kill
<1>10. ASSUME NEW s \in Slots, Dispatch(s) PROVE Kept
  <2>1. job'[s] \in Messages \X Nat
    BY <1>10 DEF Dispatch
  <2>2. /\ slot'[s] = "handling"
        /\ \A t \in Slots \ {s} : slot'[t] = slot[t] /\ job'[t] = job[t]
        /\ queue' = queue /\ handled' = handled
    BY <1>10 DEF Dispatch
  <2>3. BusySlotsHaveJobs'
    BY <2>1, <2>2 DEF BusySlotsHaveJobs
  <2>4. DeletionsAreEarned'
    BY <2>2 DEF DeletionsAreEarned
  <2> QED
    BY <2>3, <2>4 DEF Kept
<1>11. ASSUME NEW s \in Slots, HandlerTimeout(s) PROVE Kept
  BY <1>1, <1>11 DEF HandlerTimeout
<1>12. ASSUME NEW s \in Slots, HandlerOK(s) PROVE Kept
  BY <1>12 DEF HandlerOK, BusySlotsHaveJobs, DeletionsAreEarned, Kept
<1>13. ASSUME NEW s \in Slots, HandlerError(s) PROVE Kept
  BY <1>1, <1>13 DEF HandlerError, Release
<1>14. ASSUME NEW s \in Slots, DeleteMessage(s) PROVE Kept
  <2>1. job[s][1] \in Messages
    BY <1>14 DEF DeleteMessage, BusySlotsHaveJobs
  <2>2. \A m \in Messages : queue'[m] = "deleted" => queue[m] = "deleted" \/ m = job[s][1]
    BY <1>14, <2>1 DEF DeleteMessage, Remove
  <2> QED
    BY <1>1, <1>14, <2>2 DEF DeleteMessage, Release
<1>15. ASSUME NEW s \in Slots, DeleteFails(s) PROVE Kept
  BY <1>1, <1>15 DEF DeleteFails, Release
<1>16. ASSUME UNCHANGED consumerVars PROVE Kept
  BY <1>1, <1>16 DEF consumerVars
<1> QED
  BY <1>2, <1>3, <1>4, <1>5, <1>6, <1>7, <1>8, <1>9, <1>10, <1>11, <1>12, <1>13,
     <1>14, <1>15, <1>16 DEF Kept, ConsumerNext, QueueStep, PodStep, SlotStep

(* The three lemmas together.                                              *)
LEMMA ConsumerKeeps == ConsumerIInv /\ [ConsumerNext]_consumerVars => ConsumerIInv'
BY TypesKept, HoldersKept, JobsKept DEF ConsumerIInv, Holders

-----------------------------------------------------------------------------

(* The inductive invariant holds in every behaviour, whatever handlers do. *)
THEOREM ConsumerInductive == ConsumerSafeSpec => []ConsumerIInv
BY ConsumerStarts, ConsumerKeeps, PTL DEF ConsumerSafeSpec

(* Two goroutines, or a goroutine and the queue, have the same message     *)
(* only after its visibility timeout ran out on a pod.                     *)
THEOREM OnlyTimeoutsOverlap == ConsumerSafeSpec => []OverlapsAreTimeouts
BY ConsumerInductive, PTL DEF ConsumerIInv

(* The consumer implements EventDelivery: it deletes a message only after  *)
(* a handler accepted it, and a handler accepts only what was sent.        *)
THEOREM ConsumerImplements == ConsumerSafeSpec => AckAfterSuccess
<1> DEFINE recorded == {m \in Messages : queue[m] # "unsent"}
           settled  == {m \in Messages : queue[m] = "deleted"}
<1>1. ConsumerInit => Delivery!Init
  BY DEF ConsumerInit, Delivery!Init
<1>2. ConsumerIInv /\ [ConsumerNext]_consumerVars => [Delivery!Next]_(Delivery!vars)
  <2> SUFFICES ASSUME ConsumerIInv, [ConsumerNext]_consumerVars
               PROVE  [Delivery!Next]_(Delivery!vars)
    OBVIOUS
  <2> USE DEF ConsumerIInv, ConsumerTypeOK
  <2>1. ASSUME handled' = handled,
               \A m \in Messages : /\ queue'[m] = "unsent" <=> queue[m] = "unsent"
                                   /\ queue'[m] = "deleted" <=> queue[m] = "deleted"
        PROVE  UNCHANGED Delivery!vars
    BY <2>1 DEF Delivery!vars
  <2>2. ASSUME NEW m \in Messages, Send(m) PROVE Delivery!Next
    <3>1. recorded' = recorded \cup {m} /\ settled' = settled /\ handled' = handled
      BY <2>2 DEF Send
    <3>2. m \notin recorded
      BY <2>2 DEF Send
    <3>3. Delivery!Record(m)
      BY <3>1, <3>2 DEF Delivery!Record
    <3> QED
      BY <3>3 DEF Delivery!Next
  <2>3. ASSUME NEW s \in Slots, HandlerOK(s) PROVE Delivery!Next
    <3>1. PICK m \in Messages : m = job[s][1]
      BY <2>3 DEF HandlerOK, BusySlotsHaveJobs
    <3>2. queue[m] # "unsent"
      BY <2>3, <3>1 DEF HandlerOK, UnsentAreUnheld, Holds, Busy
    <3>3. handled' = handled \cup {m} /\ recorded' = recorded /\ settled' = settled
      BY <2>3, <3>1 DEF HandlerOK
    <3>4. Delivery!Tell(m)
      BY <3>2, <3>3 DEF Delivery!Tell
    <3> QED
      BY <3>4 DEF Delivery!Next
  <2>4. ASSUME NEW s \in Slots, DeleteMessage(s)
        PROVE  Delivery!Next \/ UNCHANGED Delivery!vars
    <3>1. PICK m \in Messages : m = job[s][1] /\ m \in handled
      BY <2>4 DEF DeleteMessage, BusySlotsHaveJobs, DeletionsAreEarned
    <3>2. CASE queue' = queue
      BY <2>1, <2>4, <3>2 DEF DeleteMessage
    <3>3. CASE queue' # queue
      <4>1. queue[m] # "unsent"
        BY <2>4, <3>1 DEF DeleteMessage, UnsentAreUnheld, Holds, Busy
      <4>2. queue' = [queue EXCEPT ![m] = "deleted"]
        BY <2>4, <3>1, <3>3 DEF DeleteMessage, Remove
      <4>3. recorded' = recorded /\ settled' = settled \cup {m} /\ handled' = handled
        BY <2>4, <4>1, <4>2 DEF DeleteMessage
      <4>4. Delivery!Settle(m)
        BY <3>1, <4>3 DEF Delivery!Settle
      <4> QED
        BY <4>4 DEF Delivery!Next
    <3> QED
      BY <3>2, <3>3
  <2>5. ASSUME NEW m \in Messages, QueueStep(m) PROVE UNCHANGED Delivery!vars
    BY <2>1, <2>5 DEF QueueStep, VisibilityExpires, Redrive
  <2>6. ASSUME NEW p \in Pods, Receive(p) \/ ReceiveFails(p) PROVE UNCHANGED Delivery!vars
    BY <2>1, <2>6 DEF Receive, ReceiveFails, Hand, Receivable
  <2>7. ASSUME NEW p \in Pods, Exit(p) \/ Stop(p) \/ Kill(p) PROVE UNCHANGED Delivery!vars
    BY <2>1, <2>7 DEF Exit, Stop, Kill
  <2>8. ASSUME NEW s \in Slots, Dispatch(s) \/ HandlerTimeout(s) \/ HandlerError(s) \/ DeleteFails(s)
        PROVE  UNCHANGED Delivery!vars
    BY <2>1, <2>8 DEF Dispatch, HandlerTimeout, HandlerError, DeleteFails, Release
  <2>9. CASE UNCHANGED consumerVars
    BY <2>1, <2>9 DEF consumerVars
  <2> QED
    BY <2>2, <2>3, <2>4, <2>5, <2>6, <2>7, <2>8, <2>9 DEF ConsumerNext, PodStep, SlotStep
<1> QED
  BY <1>1, <1>2, ConsumerInductive, PTL DEF AckAfterSuccess, ConsumerSafeSpec, Delivery!SafeSpec
==============================================================================
