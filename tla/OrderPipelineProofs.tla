------------------------- MODULE OrderPipelineProofs -------------------------
(***************************************************************************)
(* Theorems about PaymentWorker, for any sets of messages, pods and slots  *)
(* and any number of failures, stops and kills; and about OrderPipeline,   *)
(* which composes it with OutboxRelay, for any sets of orders and relays.  *)
(*                                                                         *)
(* OutboxRelayProofs is extended for what it proves of the relay; the      *)
(* Catalog that comes with it plays no part here.                          *)
(***************************************************************************)
EXTENDS OrderPipeline, SqsConsumerProofs, OutboxRelayProofs

-----------------------------------------------------------------------------
(* payment-worker.                                                         *)

(* Every step of the worker is a step of the consumer with some handler,   *)
(* or one the consumer takes no part in.                                   *)
LEMMA WorkerStepsAreConsumerSteps == [PayNext]_payVars => [ConsumerNext]_consumerVars
<1> SUFFICES ASSUME [PayNext]_payVars PROVE ConsumerNext \/ UNCHANGED consumerVars
  OBVIOUS
<1>1. ASSUME NEW s \in Slots, Handle(s) PROVE SlotStep(s) \/ UNCHANGED consumerVars
  BY <1>1 DEF Handle, SlotStep, Start, Garbled, Ignore, Claim, Skip, SeenFails, SeenRepeats,
              Publish, PublishFails, Unclaim, UnclaimFails
<1>2. ASSUME NEW p \in Pods, Die(p) PROVE Kill(p)
  BY <1>2 DEF Die
<1>3. ASSUME NEW m \in Messages, SendOrder(m) PROVE Send(m)
  BY <1>3 DEF SendOrder
<1>4. ASSUME Around PROVE ConsumerNext
  BY <1>4 DEF Around, ConsumerNext, QueueStep, PodStep, SlotStep
<1>5. ASSUME UNCHANGED payVars PROVE UNCHANGED consumerVars
  BY <1>5 DEF payVars
<1> QED
  BY <1>1, <1>2, <1>3, <1>4, <1>5 DEF PayNext, ConsumerNext

(* So what holds of the consumer holds of the worker.                      *)
THEOREM WorkerImplementsConsumer == PaySafeSpec => ConsumerSafeSpec
<1>1. PayInit => ConsumerInit
  BY DEF PayInit
<1> QED
  BY <1>1, WorkerStepsAreConsumerSteps, PTL DEF PaySafeSpec, ConsumerSafeSpec

-----------------------------------------------------------------------------

WorkerTypeOK ==
  /\ step \in [Slots -> {"none", "claim", "publish", "unclaim"}]
  /\ claimed \subseteq Messages
  /\ published \in [Messages -> Nat]
  /\ unreported \in [Messages -> Nat]
  /\ stranded \subseteq Messages

\* the worker's own part of the invariant
Claims == WorkerTypeOK /\ PhasesMatch /\ OwnersAreUnique /\ OutcomesCounted
                       /\ ClaimsExplained /\ AcksExplained

(* The invariant is the consumer's and the worker's own.                   *)
LEMMA PayIInvParts == PayIInv <=> ConsumerIInv /\ Claims
BY DEF PayIInv, Claims, PayTypeOK, WorkerTypeOK, ConsumerIInv

(* No message is claimed in the initial state.                             *)
LEMMA WorkerStarts == PayInit => PayIInv
<1> SUFFICES ASSUME PayInit PROVE PayIInv
  OBVIOUS
<1>1. ConsumerIInv
  BY ConsumerStarts DEF PayInit
<1>2. Claims
  BY PaymentAssumption
     DEF PaymentAssumption, PayInit, ConsumerInit, Claims, WorkerTypeOK, PhasesMatch, OwnersAreUnique,
         OutcomesCounted, ClaimsExplained, AcksExplained, Owner
<1> QED
  BY <1>1, <1>2, PayIInvParts

\* A step of the handler in slot s
Alone(s) ==
  \A t \in Slots \ {s} : step'[t] = step[t] /\ slot'[t] = slot[t] /\ job'[t] = job[t]

(* A handler's step disturbs no other slot and no claim held there.        *)
LEMMA HandlersWorkAlone ==
  ASSUME NEW s \in Slots, ConsumerIInv, WorkerTypeOK, Handle(s)
  PROVE  /\ Alone(s)
         /\ \A t \in Slots \ {s} : \A m \in Messages : Owner(t, m)' <=> Owner(t, m)
<1> USE DEF ConsumerIInv, ConsumerTypeOK, WorkerTypeOK
<1>1. Alone(s)
  BY DEF Handle, Alone, Goto, Start, Garbled, Ignore, Claim, Skip, SeenFails, SeenRepeats,
         Publish, PublishFails, Unclaim, UnclaimFails, Dispatch, HandlerOK, HandlerError,
         Release, consumerVars
<1>2. \A t \in Slots \ {s} : \A m \in Messages : Owner(t, m)' <=> Owner(t, m)
  BY <1>1 DEF Alone, Owner, Msg
<1> QED
  BY <1>1, <1>2

(* A step that leaves the worker's variables alone and neither starts nor  *)
(* ends a handler keeps the claims as they are.                            *)
LEMMA ClaimsFramed ==
  ASSUME ConsumerIInv, Claims, UNCHANGED workerVars, overlapped \subseteq overlapped',
         \A s \in Slots : slot'[s] = "handling" <=> slot[s] = "handling",
         \A s \in Slots : slot'[s] # "free" => slot'[s] = slot[s] /\ job'[s] = job[s],
         \A m \in Messages : queue'[m] = "deleted" =>
            queue[m] = "deleted" \/ \E s \in Slots : slot[s] = "deleting" /\ Msg(s) = m
  PROVE  Claims'
<1> USE DEF Claims, workerVars
<1>1. WorkerTypeOK'
  BY DEF WorkerTypeOK
<1>2. \A s \in Slots : \A m \in Messages : Owner(s, m)' <=> Owner(s, m)
  BY DEF Owner, Msg, PhasesMatch
<1>3. PhasesMatch'
  BY DEF PhasesMatch, Msg
<1>4. OwnersAreUnique' /\ OutcomesCounted'
  BY <1>2 DEF OwnersAreUnique, OutcomesCounted
<1>5. ClaimsExplained'
  BY <1>2 DEF ClaimsExplained, WorkerTypeOK
<1>6. AcksExplained'
  BY DEF AcksExplained, Msg
<1> QED
  BY <1>1, <1>3, <1>4, <1>5, <1>6

\* the slot works on nothing any more, or deletes what it worked on
Ends(s) ==
  /\ step'[s] = "none"
  /\ slot'[s] = "free" \/ (slot'[s] = "deleting" /\ job'[s] = job[s])

\* SNS has n more of message m, of which the worker knows all but lost
Counted(m, n, lost) ==
  /\ published'[m] = published[m] + n /\ unreported'[m] = unreported[m] + lost
  /\ \A k \in Messages \ {m} : published'[k] = published[k] /\ unreported'[k] = unreported[k]

(* What SNS accepts is counted.                                            *)
LEMMA AcceptedIsCounted ==
  ASSUME WorkerTypeOK, NEW m \in Messages, NEW n \in Nat, NEW lost \in Nat,
         Accepted(m, n, lost)
  PROVE  /\ published' \in [Messages -> Nat] /\ unreported' \in [Messages -> Nat]
         /\ Counted(m, n, lost)
<1>1. published[m] + n \in Nat /\ unreported[m] + lost \in Nat
  BY PaymentAssumption DEF PaymentAssumption, WorkerTypeOK, Accepted
<1>2. /\ published' = [published EXCEPT ![m] = published[m] + n]
      /\ unreported' = [unreported EXCEPT ![m] = unreported[m] + lost]
  BY DEF Accepted
<1> QED
  BY <1>1, <1>2 DEF WorkerTypeOK, Counted

(* Each of the handler's steps keeps the claims explained.                 *)
LEMMA ClaimsKept ==
  ASSUME ConsumerIInv, Claims, NEW s \in Slots, Handle(s)
  PROVE  Claims'
<1> USE DEF ConsumerIInv, ConsumerTypeOK, Claims, WorkerTypeOK
<1> DEFINE m == Msg(s)
<1>1. Alone(s) /\ \A t \in Slots \ {s} : \A n \in Messages : Owner(t, n)' <=> Owner(t, n)
  BY HandlersWorkAlone
<1>2. step[s] # "none" => m \in Messages /\ slot[s] = "handling"
  BY DEF PhasesMatch, BusySlotsHaveJobs, Msg
<1>3. overlapped' = overlapped /\ queue' = queue
  BY DEF Handle, Start, Garbled, Ignore, Claim, Skip, SeenFails, SeenRepeats,
         Publish, PublishFails, Unclaim, UnclaimFails, Dispatch, HandlerOK, HandlerError, consumerVars
<1>4. CASE Start(s)
  <2>1. /\ slot'[s] = "handling" /\ step' = [step EXCEPT ![s] = "claim"] /\ slot[s] = "free"
        /\ UNCHANGED <<claimed, published, unreported, stranded>>
    BY <1>4 DEF Start, Dispatch, Goto
  <2>2. \A t \in Slots : \A n \in Messages : Owner(t, n)' <=> Owner(t, n)
    BY <1>1, <2>1 DEF Owner, PhasesMatch
  <2>3. WorkerTypeOK'
    BY <2>1
  <2>4. PhasesMatch'
    BY <1>1, <2>1 DEF PhasesMatch, Alone, Msg
  <2>5. OwnersAreUnique' /\ OutcomesCounted' /\ ClaimsExplained'
    BY <2>1, <2>2 DEF OwnersAreUnique, OutcomesCounted, ClaimsExplained
  <2>6. AcksExplained'
    BY <1>1, <1>3, <2>1 DEF AcksExplained, Alone, Msg
  <2> QED
    BY <2>3, <2>4, <2>5, <2>6
<1>5. CASE Garbled(s) \/ Ignore(s)
  <2>1. /\ step[s] = "claim" /\ Ends(s) /\ step' = [step EXCEPT ![s] = "none"]
        /\ slot'[s] = "deleting" => KindOf[m] # "OrderPlaced"
        /\ UNCHANGED <<claimed, published, unreported, stranded>>
    BY <1>5 DEF Garbled, Ignore, HandlerOK, HandlerError, Release, Goto, Ends
  <2>2. \A t \in Slots : \A n \in Messages : Owner(t, n)' <=> Owner(t, n)
    BY <1>1, <2>1 DEF Owner
  <2>3. WorkerTypeOK'
    BY <2>1
  <2>4. PhasesMatch'
    BY <1>1, <2>1 DEF PhasesMatch, Alone, Msg, Ends
  <2>5. OwnersAreUnique' /\ OutcomesCounted' /\ ClaimsExplained'
    BY <2>1, <2>2 DEF OwnersAreUnique, OutcomesCounted, ClaimsExplained
  <2>6. AcksExplained'
    BY <1>1, <1>3, <2>1 DEF AcksExplained, Alone, Msg, Ends
  <2> QED
    BY <2>3, <2>4, <2>5, <2>6
<1>6. CASE Claim(s)
  <2>1. /\ step[s] = "claim" /\ step' = [step EXCEPT ![s] = "publish"]
        /\ KindOf[m] = "OrderPlaced" /\ m \notin claimed /\ claimed' = claimed \cup {m}
        /\ UNCHANGED <<slot, job, published, unreported, stranded>>
    BY <1>6 DEF Claim, AtSeen, Goto, consumerVars
  <2>2. \A n \in Messages : Owner(s, n)' <=> n = m
    BY <2>1 DEF Owner, Msg
  <2>3. \A t \in Slots : ~Owner(t, m)
    BY <1>2, <2>1 DEF Owner, PhasesMatch
  <2>4. WorkerTypeOK'
    BY <1>2, <2>1
  <2>5. PhasesMatch'
    BY <1>1, <1>2, <2>1 DEF PhasesMatch, Alone, Msg
  <2>6. OwnersAreUnique'
    BY <1>1, <2>2, <2>3 DEF OwnersAreUnique
  <2>7. OutcomesCounted'
    BY <1>1, <1>2, <2>1, <2>2 DEF OutcomesCounted
  <2>8. ClaimsExplained'
    <3> SUFFICES ASSUME NEW n \in Messages, n \in claimed',
                        ~(published[n] >= 1), n \notin stranded
                 PROVE  \E t \in Slots : Owner(t, n)'
      BY <2>1, <2>4 DEF ClaimsExplained
    <3>1. CASE n = m
      BY <2>2, <3>1
    <3>2. CASE n # m
      <4>1. PICK t \in Slots : Owner(t, n)
        BY <2>1, <3>2 DEF ClaimsExplained
      <4>2. t # s
        BY <2>1, <4>1 DEF Owner
      <4> QED
        BY <1>1, <4>1, <4>2
    <3> QED
      BY <3>1, <3>2
  <2>9. AcksExplained'
    BY <1>3, <2>1 DEF AcksExplained, Msg
  <2> QED
    BY <2>4, <2>5, <2>6, <2>7, <2>8, <2>9
<1>7. CASE Skip(s)
  <2>1. /\ step[s] = "claim" /\ Ends(s) /\ step' = [step EXCEPT ![s] = "none"] /\ m \in claimed
        /\ UNCHANGED <<claimed, published, unreported, stranded>>
    BY <1>7 DEF Skip, AtSeen, HandlerOK, Goto, Ends, Msg
  <2>2. \A t \in Slots : \A n \in Messages : Owner(t, n)' <=> Owner(t, n)
    BY <1>1, <2>1 DEF Owner
  <2>3. WorkerTypeOK'
    BY <1>2, <2>1
  <2>4. PhasesMatch'
    BY <1>1, <2>1 DEF PhasesMatch, Alone, Msg, Ends
  <2>5. OwnersAreUnique' /\ OutcomesCounted' /\ ClaimsExplained'
    BY <2>1, <2>2 DEF OwnersAreUnique, OutcomesCounted, ClaimsExplained
  <2>6. published[m] >= 1 \/ m \in stranded \cup overlapped
    <3>1. ASSUME NEW t \in Slots, Owner(t, m) PROVE m \in overlapped
      <4>1. t # s /\ Busy(s, m) /\ Busy(t, m)
        BY <1>2, <2>1, <3>1 DEF Owner, Busy, Msg, PhasesMatch
      <4> QED
        BY <1>2, <2>1, <4>1 DEF OverlapsAreTimeouts
    <3> QED
      BY <2>1, <3>1 DEF ClaimsExplained
  <2>7. AcksExplained'
    BY <1>1, <1>3, <2>1, <2>6 DEF AcksExplained, Alone, Msg, Ends
  <2> QED
    BY <2>3, <2>4, <2>5, <2>7
<1>8. CASE SeenFails(s) \/ SeenRepeats(s)
  <2>1. /\ step[s] = "claim" /\ Ends(s) /\ step' = [step EXCEPT ![s] = "none"]
        /\ \/ claimed' = claimed /\ stranded' = stranded /\ slot'[s] = "free"
           \/ claimed' = claimed \cup {m} /\ stranded' = stranded \cup {m}
        /\ UNCHANGED <<published, unreported>>
    BY <1>8 DEF SeenFails, SeenRepeats, AtSeen, HandlerOK, HandlerError, Release, Goto, Ends, Msg
  <2>2. \A t \in Slots : \A n \in Messages : Owner(t, n)' <=> Owner(t, n)
    BY <1>1, <2>1 DEF Owner
  <2>3. WorkerTypeOK'
    BY <1>2, <2>1
  <2>4. PhasesMatch'
    BY <1>1, <2>1 DEF PhasesMatch, Alone, Msg, Ends
  <2>5. OwnersAreUnique' /\ OutcomesCounted' /\ ClaimsExplained'
    BY <2>1, <2>2 DEF OwnersAreUnique, OutcomesCounted, ClaimsExplained
  <2>6. AcksExplained'
    BY <1>1, <1>3, <2>1 DEF AcksExplained, Alone, Msg, Ends
  <2> QED
    BY <2>3, <2>4, <2>5, <2>6
<1>9. CASE Publish(s)
  <2>0. PICK lost \in 0 .. MaxLost : Accepted(m, lost + 1, lost)
    BY <1>9 DEF Publish
  <2>1. /\ Ends(s) /\ step' = [step EXCEPT ![s] = "none"] /\ Owner(s, m)
        /\ UNCHANGED <<claimed, stranded>>
    BY <1>9 DEF Publish, HandlerOK, Goto, Ends, Msg, Owner
  <2>2. \A n \in Messages : ~Owner(s, n)'
    BY <2>1 DEF Owner
  <2>3. m \in Messages /\ m \in claimed
    BY <1>2, <2>1 DEF Owner, PhasesMatch
  <2>4. WorkerTypeOK' /\ Counted(m, lost + 1, lost)
    <3>1. lost + 1 \in Nat
      BY PaymentAssumption DEF PaymentAssumption
    <3>2. /\ published' \in [Messages -> Nat] /\ unreported' \in [Messages -> Nat]
          /\ Counted(m, lost + 1, lost)
      BY <2>0, <2>3, <3>1, AcceptedIsCounted
    <3> QED
      BY <2>1, <3>2
  <2>5. PhasesMatch'
    BY <1>1, <2>1 DEF PhasesMatch, Alone, Msg, Ends
  <2>6. OwnersAreUnique'
    BY <1>1, <2>2 DEF OwnersAreUnique
  <2>7. OutcomesCounted'
    <3>1. published[m] <= unreported[m]
      BY <2>1, <2>3 DEF OutcomesCounted
    <3>2. \A t \in Slots \ {s} : ~Owner(t, m)
      BY <2>1, <2>3 DEF OwnersAreUnique
    <3>3. \A n \in Messages : n = m => \A t \in Slots : ~Owner(t, n)'
      BY <1>1, <2>2, <2>3, <3>2
    <3>4. published'[m] <= 1 + unreported'[m]
      <4>1. /\ published'[m] = published[m] + (lost + 1) /\ unreported'[m] = unreported[m] + lost
            /\ published[m] \in Nat /\ unreported[m] \in Nat /\ lost \in Nat
        BY <2>3, <2>4 DEF Counted
      <4> QED
        BY <3>1, <4>1
    <3>5. \A n \in Messages \ {m} : published'[n] = published[n] /\ unreported'[n] = unreported[n]
      BY <2>4 DEF Counted
    <3> SUFFICES ASSUME NEW n \in Messages
                 PROVE  /\ published'[n] <= 1 + unreported'[n]
                        /\ n \notin claimed => published'[n] <= unreported'[n]
                        /\ \A t \in Slots : Owner(t, n)' => published'[n] <= unreported'[n]
      BY <2>1 DEF OutcomesCounted
    <3>6. CASE n = m
      BY <2>3, <3>3, <3>4, <3>6
    <3>7. CASE n # m
      BY <1>1, <2>2, <3>5, <3>7 DEF OutcomesCounted
    <3> QED
      BY <3>6, <3>7
  <2>8. \A n \in Messages : published'[n] >= published[n] /\ published'[m] >= 1
    BY <2>3, <2>4 DEF Counted
  <2>9. ClaimsExplained'
    BY <1>1, <2>1, <2>3, <2>4, <2>8 DEF ClaimsExplained, Owner
  <2>10. AcksExplained'
    BY <1>1, <1>3, <2>1, <2>3, <2>4, <2>8 DEF AcksExplained, Alone, Msg, Ends
  <2> QED
    BY <2>4, <2>5, <2>6, <2>7, <2>9, <2>10
<1>10. CASE PublishFails(s)
  <2>0. PICK lost \in 0 .. MaxLost : Accepted(m, lost, lost)
    BY <1>10 DEF PublishFails
  <2>1. /\ step[s] = "publish" /\ step' = [step EXCEPT ![s] = "unclaim"]
        /\ UNCHANGED <<slot, job, claimed, stranded>>
    BY <1>10 DEF PublishFails, Goto, consumerVars
  <2>2. \A t \in Slots : \A n \in Messages : Owner(t, n)' <=> Owner(t, n)
    BY <1>1, <2>1 DEF Owner, Msg
  <2>3. m \in Messages /\ lost \in Nat
    BY <1>2, <2>1, PaymentAssumption DEF PaymentAssumption
  <2>4. WorkerTypeOK' /\ Counted(m, lost, lost)
    <3>1. /\ published' \in [Messages -> Nat] /\ unreported' \in [Messages -> Nat]
          /\ Counted(m, lost, lost)
      BY <2>0, <2>3, AcceptedIsCounted
    <3> QED
      BY <2>1, <3>1
  <2>5. PhasesMatch'
    BY <1>1, <2>1 DEF PhasesMatch, Alone, Msg
  <2>6. OwnersAreUnique'
    BY <2>2 DEF OwnersAreUnique
  <2>7. OutcomesCounted'
    <3>1. \A n \in Messages : \/ published'[n] = published[n] /\ unreported'[n] = unreported[n]
                              \/ published'[n] = published[n] + lost /\ unreported'[n] = unreported[n] + lost
      BY <2>4 DEF Counted
    <3>2. \A n \in Messages : published[n] \in Nat /\ unreported[n] \in Nat
      BY PaymentAssumption DEF PaymentAssumption
    <3>3. \A n \in Messages : /\ published[n] <= unreported[n] => published'[n] <= unreported'[n]
                              /\ published[n] <= 1 + unreported[n] => published'[n] <= 1 + unreported'[n]
      BY <2>3, <3>1, <3>2
    <3> QED
      BY <2>1, <2>2, <3>3 DEF OutcomesCounted
  <2>8. \A n \in Messages : published'[n] >= published[n]
    BY <2>3, <2>4 DEF Counted
  <2>9. ClaimsExplained'
    BY <2>1, <2>2, <2>4, <2>8 DEF ClaimsExplained
  <2>10. AcksExplained'
    BY <1>3, <2>1, <2>4, <2>8 DEF AcksExplained, Msg
  <2> QED
    BY <2>4, <2>5, <2>6, <2>7, <2>9, <2>10
<1>11. CASE Unclaim(s) \/ UnclaimFails(s)
  <2>1. /\ Ends(s) /\ step' = [step EXCEPT ![s] = "none"] /\ slot'[s] = "free" /\ Owner(s, m)
        /\ \/ claimed' = claimed \ {m} /\ stranded' = stranded
           \/ claimed' = claimed /\ stranded' = stranded \cup {m}
        /\ UNCHANGED <<published, unreported>>
    BY <1>11 DEF Unclaim, UnclaimFails, HandlerError, Release, Goto, Ends, Msg, Owner
  <2>2. \A n \in Messages : ~Owner(s, n)'
    BY <2>1 DEF Owner
  <2>3. m \in Messages /\ published[m] <= unreported[m]
    BY <1>2, <2>1 DEF Owner, OutcomesCounted
  <2>4. \A n \in Messages : n = m => \A t \in Slots : ~Owner(t, n)'
    <3>1. \A t \in Slots \ {s} : ~Owner(t, m)
      BY <2>1, <2>3 DEF OwnersAreUnique
    <3> QED
      BY <1>1, <2>2, <2>3, <3>1
  <2>5. WorkerTypeOK'
    BY <2>1, <2>3
  <2>6. PhasesMatch'
    BY <1>1, <2>1, <2>3 DEF PhasesMatch, Alone, Msg, Ends, OwnersAreUnique, Owner, BusySlotsHaveJobs
  <2>7. OwnersAreUnique'
    BY <1>1, <2>2 DEF OwnersAreUnique
  <2>8. OutcomesCounted'
    BY <1>1, <2>1, <2>2, <2>3 DEF OutcomesCounted
  <2>9. ClaimsExplained'
    BY <1>1, <2>1, <2>3 DEF ClaimsExplained, Owner
  <2>10. AcksExplained'
    BY <1>1, <1>3, <2>1 DEF AcksExplained, Alone, Msg, Ends
  <2> QED
    BY <2>5, <2>6, <2>7, <2>8, <2>9, <2>10
<1> QED
  BY <1>4, <1>5, <1>6, <1>7, <1>8, <1>9, <1>10, <1>11 DEF Handle

(* A killed pod's claims are stranded and its handlers forgotten.          *)
LEMMA ClaimsOfTheDead ==
  ASSUME ConsumerIInv, Claims, NEW p \in Pods, Die(p)
  PROVE  Claims'
<1> USE DEF ConsumerIInv, ConsumerTypeOK, Claims, WorkerTypeOK
<1>1. /\ \A s \in Slots : PodOf[s] = p => step'[s] = "none" /\ slot'[s] = "free"
      /\ \A s \in Slots : PodOf[s] # p =>
           step'[s] = step[s] /\ slot'[s] = slot[s] /\ job'[s] = job[s]
      /\ step' = [s \in Slots |-> IF PodOf[s] = p THEN "none" ELSE step[s]]
  BY DEF Die, Kill
<1>2. /\ stranded' = stranded \cup InHand(p)
      /\ UNCHANGED <<queue, overlapped, claimed, published, unreported>>
  BY DEF Die, Kill
<1>3. \A s \in Slots : \A m \in Messages :
         /\ Owner(s, m)' => Owner(s, m)
         /\ Owner(s, m) => Owner(s, m)' \/ m \in InHand(p)
  BY <1>1 DEF Owner, Msg, InHand
<1>4. InHand(p) \subseteq Messages
  BY DEF InHand, PhasesMatch
<1>5. WorkerTypeOK'
  <2>1. step' \in [Slots -> {"none", "claim", "publish", "unclaim"}]
    BY <1>1
  <2> QED
    BY <1>2, <1>4, <2>1
<1>6. PhasesMatch'
  BY <1>1, <1>2 DEF PhasesMatch, Msg
<1>7. OwnersAreUnique'
  BY <1>3 DEF OwnersAreUnique
<1>8. OutcomesCounted'
  BY <1>2, <1>3 DEF OutcomesCounted
<1>9. ClaimsExplained'
  BY <1>2, <1>3 DEF ClaimsExplained
<1>10. AcksExplained'
  BY <1>1, <1>2 DEF AcksExplained, Msg
<1> QED
  BY <1>5, <1>6, <1>7, <1>8, <1>9, <1>10

(* What the queue and the loop do on their own keeps the claims.           *)
LEMMA ClaimsAround ==
  ASSUME ConsumerIInv, Claims,
         Around \/ (\E m \in Messages : SendOrder(m)) \/ UNCHANGED payVars
  PROVE  Claims'
<1> USE DEF ConsumerIInv, ConsumerTypeOK
<1>1. UNCHANGED workerVars
  BY DEF Around, SendOrder, payVars
<1>2. ASSUME overlapped \subseteq overlapped',
             \A s \in Slots : slot'[s] = "handling" <=> slot[s] = "handling",
             \A s \in Slots : slot'[s] # "free" => slot'[s] = slot[s] /\ job'[s] = job[s],
             \A m \in Messages : queue'[m] = "deleted" =>
                queue[m] = "deleted" \/ \E s \in Slots : slot[s] = "deleting" /\ Msg(s) = m
      PROVE  Claims'
  BY <1>1, <1>2, ClaimsFramed
<1>3. ASSUME NEW m \in Messages, VisibilityExpires(m) \/ Redrive(m) \/ SendOrder(m) PROVE Claims'
  BY <1>2, <1>3 DEF VisibilityExpires, Redrive, SendOrder, Send
<1>4. ASSUME NEW p \in Pods, Receive(p) \/ ReceiveFails(p) PROVE Claims'
  BY <1>2, <1>4 DEF Receive, ReceiveFails, Hand
<1>5. ASSUME NEW p \in Pods, Stop(p) \/ Exit(p) PROVE Claims'
  BY <1>2, <1>5 DEF Stop, Exit
<1>6. ASSUME NEW s \in Slots, HandlerTimeout(s) \/ DeleteFails(s) PROVE Claims'
  BY <1>2, <1>6 DEF HandlerTimeout, DeleteFails, Release
<1>7. ASSUME NEW s \in Slots, DeleteMessage(s) PROVE Claims'
  <2>1. Msg(s) \in Messages
    BY <1>7 DEF DeleteMessage, BusySlotsHaveJobs, Msg
  <2>2. \A m \in Messages : queue'[m] = "deleted" => queue[m] = "deleted" \/ m = Msg(s)
    BY <1>7, <2>1 DEF DeleteMessage, Remove, Msg
  <2> QED
    BY <1>2, <1>7, <2>2 DEF DeleteMessage, Release
<1>8. ASSUME UNCHANGED payVars PROVE Claims'
  BY <1>2, <1>8 DEF payVars, consumerVars
<1> QED
  BY <1>3, <1>4, <1>5, <1>6, <1>7, <1>8 DEF Around

(* Every step of the worker keeps the invariant.                           *)
LEMMA WorkerKeeps == PayIInv /\ [PayNext]_payVars => PayIInv'
<1> SUFFICES ASSUME PayIInv, [PayNext]_payVars PROVE PayIInv'
  OBVIOUS
<1>1. ConsumerIInv /\ Claims
  BY PayIInvParts
<1>2. ConsumerIInv'
  BY <1>1, ConsumerKeeps, WorkerStepsAreConsumerSteps
<1>3. Claims'
  BY <1>1, ClaimsKept, ClaimsOfTheDead, ClaimsAround DEF PayNext
<1> QED
  BY <1>2, <1>3 DEF PayIInv, Claims, PayTypeOK, WorkerTypeOK, ConsumerIInv

-----------------------------------------------------------------------------

(* The inductive invariant holds in every behaviour.                       *)
THEOREM WorkerInductive == PaySafeSpec => []PayIInv
BY WorkerStarts, WorkerKeeps, PTL DEF PaySafeSpec

(* A payment has one outcome, however often, and to however many pods at a *)
(* time, its message is delivered; only what SNS accepted without the      *)
(* worker's call reporting it adds another.                                *)
THEOREM OneOutcome == PaySafeSpec => []OneOutcomePerMessage
<1>1. PayIInv => OneOutcomePerMessage
  BY DEF PayIInv, OutcomesCounted, OneOutcomePerMessage
<1> QED
  BY <1>1, WorkerInductive, PTL

(* An order's message is not deleted before its outcome is published,      *)
(* unless its claim was stranded or its visibility timeout ran out while a *)
(* pod held it.                                                            *)
THEOREM LossesAreExplained == PaySafeSpec => []LostOutcomesNeedStrandedClaims
<1>1. PayIInv => LostOutcomesNeedStrandedClaims
  <2> SUFFICES ASSUME PayIInv, NEW m \in Messages, queue[m] = "deleted",
                      KindOf[m] = "OrderPlaced", published[m] = 0
               PROVE  m \in stranded \cup overlapped
    BY DEF LostOutcomesNeedStrandedClaims
  <2> QED
    BY DEF PayIInv, AcksExplained
<1> QED
  BY <1>1, WorkerInductive, PTL

-----------------------------------------------------------------------------
(* The order pipeline.                                                     *)

(* Each step of the pipeline is a step of the relays, or leaves them alone. *)
LEMMA PipelineStepsAreRelaySteps == [PipelineNext]_pipelineVars => [RelayNext]_relayVars
<1> SUFFICES ASSUME [PipelineNext]_pipelineVars PROVE RelayNext \/ UNCHANGED relayVars
  OBVIOUS
<1>1. CASE RelayWorks
  BY <1>1 DEF RelayWorks
<1>2. CASE StatusWorks
  BY <1>2 DEF StatusWorks, StatusStep, ApplyOutcome, ApplyLate, DropOutcome
<1>3. ASSUME NEW s \in Slots, Pay(s) PROVE UNCHANGED relayVars
  BY <1>3 DEF Pay
<1>4. ASSUME NEW m \in Messages, FanOut(m) PROVE UNCHANGED relayVars
  BY <1>4 DEF FanOut
<1>5. CASE PayQueueWorks
  BY <1>5 DEF PayQueueWorks
<1>6. CASE UNCHANGED pipelineVars
  BY <1>6 DEF pipelineVars
<1> QED
  BY <1>1, <1>2, <1>3, <1>4, <1>5, <1>6 DEF PipelineNext

(* Each step of the pipeline is a step of payment-worker and its queue, or *)
(* leaves them alone.                                                      *)
LEMMA PipelineStepsAreWorkerSteps == [PipelineNext]_pipelineVars => [PayNext]_payVars
<1> SUFFICES ASSUME [PipelineNext]_pipelineVars PROVE PayNext \/ UNCHANGED payVars
  OBVIOUS
<1>1. CASE RelayWorks
  BY <1>1 DEF RelayWorks
<1>2. CASE StatusWorks
  BY <1>2 DEF StatusWorks, StatusStep, ApplyOutcome, ApplyLate, DropOutcome
<1>3. ASSUME NEW s \in Slots, Pay(s) PROVE PayNext
  BY <1>3 DEF Pay, PayNext
<1>4. ASSUME NEW m \in Messages, FanOut(m) PROVE PayNext
  BY <1>4 DEF FanOut, PayNext
<1>5. CASE PayQueueWorks
  BY <1>5 DEF PayQueueWorks, PayNext
<1>6. CASE UNCHANGED pipelineVars
  BY <1>6 DEF pipelineVars
<1> QED
  BY <1>1, <1>2, <1>3, <1>4, <1>5, <1>6 DEF PipelineNext

-----------------------------------------------------------------------------
(* Counting what is numbered per message.                                  *)

(* Finitely many of each of finitely many messages are finitely many.      *)
LEMMA NumberedFinite ==
  ASSUME NEW M, IsFiniteSet(M), NEW count, \A m \in M : count[m] \in Nat
  PROVE  /\ IsFiniteSet(Numbered(M, count))
         /\ Cardinality(Numbered(M, count)) \in Nat
<1> DEFINE F == [m \in M |-> {m} \X (1 .. count[m])]
           T == {{m} \X (1 .. count[m]) : m \in M}
<1>1. F \in Surjection(M, T)
  BY DEF Surjection
<1>2. IsFiniteSet(T)
  BY <1>1, FS_Surjection
<1>3. ASSUME NEW m \in M PROVE IsFiniteSet({m} \X (1 .. count[m]))
  <2>0. 1 \in Int /\ count[m] \in Int
    BY <1>3
  <2>1. IsFiniteSet({m}) /\ IsFiniteSet(1 .. count[m])
    BY <2>0, FS_Singleton, FS_Interval, Zenon
  <2> QED
    BY <2>1, FS_Product, Zenon
<1>4. \A X \in T : IsFiniteSet(X)
  BY <1>3
<1>5. IsFiniteSet(UNION T)
  BY <1>2, <1>4, FS_UNION
<1> QED
  BY <1>5, FS_CardinalityType DEF Numbered

(* More for one of the messages is as many more in all.                    *)
LEMMA NumberedGrows ==
  ASSUME NEW M, IsFiniteSet(M), NEW m \in M, NEW a, NEW b, NEW n \in Nat,
         \A x \in M : a[x] \in Nat,
         b[m] = a[m] + n, \A x \in M \ {m} : b[x] = a[x]
  PROVE  Cardinality(Numbered(M, b)) = Cardinality(Numbered(M, a)) + n
<1> DEFINE low == a[m] + 1
           high == a[m] + n
           more == low .. high
           New == {m} \X more
<1>0. low \in Int /\ high \in Int /\ high - low + 1 = n /\ (low > high => n = 0)
  OBVIOUS
<1>1. IsFiniteSet(more) /\ Cardinality(more) = n
  <2> HIDE DEF low, high
  <2>1. IsFiniteSet(more) /\ Cardinality(more) = IF low > high THEN 0 ELSE high - low + 1
    BY <1>0, FS_Interval
  <2> QED
    BY <1>0, <2>1
<1>2. IsFiniteSet(New) /\ Cardinality(New) = n
  <2>1. IsFiniteSet({m}) /\ Cardinality({m}) = 1
    BY FS_Singleton
  <2> HIDE DEF more
  <2>2. IsFiniteSet(New) /\ Cardinality(New) = Cardinality({m}) * Cardinality(more)
    BY <1>1, <2>1, FS_Product, Zenon
  <2> QED
    BY <1>1, <2>1, <2>2
<1>3. Numbered(M, b) = Numbered(M, a) \cup New
  <2>1. 1 .. b[m] = (1 .. a[m]) \cup more
    OBVIOUS
  <2> QED
    BY <2>1 DEF Numbered
<1>4. Numbered(M, a) \cap New = {}
  <2>1. \A k \in more : k \notin 1 .. a[m]
    OBVIOUS
  <2> QED
    BY <2>1 DEF Numbered
<1>5. IsFiniteSet(Numbered(M, a)) /\ Cardinality(Numbered(M, a)) \in Nat
  BY NumberedFinite
<1>6. Cardinality(Numbered(M, b)) =
        Cardinality(Numbered(M, a)) + Cardinality(New) - Cardinality(Numbered(M, a) \cap New)
  BY <1>2, <1>3, <1>5, FS_Union
<1>7. Cardinality(Numbered(M, a) \cap New) = 0
  BY <1>4, FS_EmptySet
<1> HIDE DEF New
<1> QED
  BY <1>2, <1>5, <1>6, <1>7

(* If a exceeds b by one at most for each message, then in all it exceeds   *)
(* b by the number of the messages at most.                                *)
LEMMA NumberedExcess ==
  ASSUME NEW M, IsFiniteSet(M), NEW a, NEW b,
         \A m \in M : a[m] \in Nat /\ b[m] \in Nat /\ a[m] <= 1 + b[m]
  PROVE  Cardinality(Numbered(M, a)) <= Cardinality(M) + Cardinality(Numbered(M, b))
<1> DEFINE B == Numbered(M, b)
           F == [x \in B |-> <<x[1], x[2] + 1>>]
           G == [m \in M |-> <<m, 1>>]
           Rest == {<<x[1], x[2] + 1>> : x \in B}
           Firsts == {<<m, 1>> : m \in M}
<1>1. IsFiniteSet(B) /\ Cardinality(B) \in Nat
  BY NumberedFinite
<1>2. IsFiniteSet(Rest) /\ Cardinality(Rest) <= Cardinality(B)
  <2>1. F \in Surjection(B, Rest)
    BY DEF Surjection
  <2> HIDE DEF B, Rest, F
  <2> QED
    BY <1>1, <2>1, FS_Surjection
<1>3. IsFiniteSet(Firsts) /\ Cardinality(Firsts) <= Cardinality(M)
  <2>1. G \in Surjection(M, Firsts)
    BY DEF Surjection
  <2> HIDE DEF Firsts, G
  <2> QED
    BY <2>1, FS_Surjection
<1>4. Numbered(M, a) \subseteq Firsts \cup Rest
  <2> SUFFICES ASSUME NEW m \in M, NEW k \in 1 .. a[m]
               PROVE  <<m, k>> \in Firsts \cup Rest
    BY DEF Numbered
  <2>1. CASE k = 1
    BY <2>1
  <2>2. CASE k # 1
    <3>1. k - 1 \in 1 .. b[m] /\ (k - 1) + 1 = k
      BY <2>2
    <3>2. <<m, k - 1>> \in B
      BY <3>1 DEF Numbered
    <3> QED
      BY <3>1, <3>2
  <2> QED
    BY <2>1, <2>2
<1> HIDE DEF B, F, G, Rest, Firsts
<1>5. /\ IsFiniteSet(Firsts \cup Rest)
      /\ Cardinality(Firsts \cup Rest)
           = Cardinality(Firsts) + Cardinality(Rest) - Cardinality(Firsts \cap Rest)
  BY <1>2, <1>3, FS_Union
<1>6. Cardinality(Numbered(M, a)) <= Cardinality(Firsts \cup Rest)
  BY <1>4, <1>5, FS_Subset
<1>7. IsFiniteSet(Firsts \cap Rest)
  BY <1>2, <1>3, FS_Intersection
<1>8. /\ Cardinality(M) \in Nat /\ Cardinality(Firsts) \in Nat /\ Cardinality(Rest) \in Nat
      /\ Cardinality(Firsts \cap Rest) \in Nat /\ Cardinality(Numbered(M, a)) \in Nat
  BY <1>2, <1>3, <1>7, FS_CardinalityType, NumberedFinite
<1> QED
  BY <1>1, <1>2, <1>3, <1>5, <1>6, <1>8 DEF B

-----------------------------------------------------------------------------
(* The pipeline's own part of the invariant.                               *)

FlowTypeOK ==
  /\ announced \in [Rows -> [Outcomes -> Nat]]
  /\ statusQueue \in [Rows -> [Outcomes -> Nat]]
  /\ statusDead \subseteq Rows
  /\ status \in [Rows -> {"pending_payment"} \cup Outcomes]

Flow == FlowTypeOK /\ MessagesAreDelivered /\ OutcomesArePublished /\ StatusIsAnnounced

\* what of the pipeline's variables a step of another part leaves alone
SameMessages == \A m \in Messages : queue'[m] = "unsent" <=> queue[m] = "unsent"

(* Nothing is sent, announced or applied in the initial state.             *)
LEMMA FlowStarts == PipelineInit => Flow
<1> SUFFICES ASSUME PipelineInit PROVE Flow
  OBVIOUS
<1>1. FlowTypeOK
  BY DEF PipelineInit, FlowTypeOK, NoOutcome
<1>2. \A o \in Rows : Sent(o) = {} /\ Numbered(Sent(o), published) = {}
  BY DEF PipelineInit, PayInit, ConsumerInit, Sent, Numbered
<1>3. IsFiniteSet({}) /\ Cardinality({}) = 0
  BY FS_EmptySet
<1>4. \A o \in Rows : delivered[o] = 0
  BY DEF PipelineInit, RelayInit
<1>5. MessagesAreDelivered
  BY <1>2, <1>3, <1>4 DEF MessagesAreDelivered
<1>6. \A o \in Rows : announced[o]["confirmed"] = 0 /\ announced[o]["payment_failed"] = 0
  BY DEF PipelineInit, NoOutcome, Outcomes
<1>7. OutcomesArePublished
  BY <1>2, <1>3, <1>6 DEF OutcomesArePublished, PipelineInit, PayInit
<1>8. StatusIsAnnounced
  BY DEF StatusIsAnnounced, PipelineInit, NoOutcome, Outcomes
<1> QED
  BY <1>1, <1>5, <1>7, <1>8 DEF Flow

(* A step that sends no message and publishes nothing keeps the books.     *)
LEMMA FlowFramed ==
  ASSUME Flow, SameMessages, UNCHANGED <<published, announced>>,
         RelayTypeOK, RelayTypeOK', \A o \in Rows : delivered'[o] >= delivered[o]
  PROVE  MessagesAreDelivered' /\ OutcomesArePublished'
<1>1. \A o \in Rows : Sent(o)' = Sent(o)
  BY DEF Sent, SameMessages
<1>2. \A o \in Rows : Numbered(Sent(o), published)' = Numbered(Sent(o), published)
  BY <1>1 DEF Numbered
<1>3. MessagesAreDelivered'
  <2> SUFFICES ASSUME NEW o \in Rows
               PROVE  IsFiniteSet(Sent(o)') /\ Cardinality(Sent(o)') <= delivered'[o]
    BY DEF MessagesAreDelivered
  <2>1. IsFiniteSet(Sent(o)) /\ Cardinality(Sent(o)) <= delivered[o] /\ Sent(o)' = Sent(o)
    BY <1>1 DEF Flow, MessagesAreDelivered
  <2>2. Cardinality(Sent(o)) \in Nat
    BY <2>1, FS_CardinalityType
  <2> QED
    BY <2>1, <2>2 DEF RelayTypeOK
<1>4. OutcomesArePublished'
  BY <1>2 DEF Flow, OutcomesArePublished, SameMessages
<1> QED
  BY <1>3, <1>4

(* The relays never take back a delivery.                                  *)
LEMMA DeliveriesStay ==
  ASSUME RelayIInv, [RelayNext]_relayVars, NEW o \in Rows
  PROVE  delivered'[o] >= delivered[o]
<1>0. delivered[o] \in Nat
  BY DEF RelayIInv, RelayTypeOK
<1>1. ASSUME NEW p \in Rows, Record(p) PROVE delivered' = delivered
  BY <1>1 DEF Record
<1>2. ASSUME NEW w \in Relays, RelayStep(w) \/ FaultStep(w)
      PROVE  delivered'[o] = delivered[o] \/ delivered'[o] > delivered[o]
  BY <1>2, RelayLeavesRows
<1>3. delivered' = delivered \/ delivered'[o] = delivered[o] \/ delivered'[o] > delivered[o]
  BY <1>1, <1>2 DEF RelayNext, relayVars
<1>4. delivered'[o] \in Nat
  BY <1>0, CoreStep DEF RelayIInv, Core, RelayTypeOK
<1> QED
  BY <1>0, <1>3, <1>4

(* A step of the handlers sends no message.                                *)
LEMMA HandlersSendNothing ==
  ASSUME PayIInv, NEW s \in Slots, Handle(s)
  PROVE  queue' = queue
BY DEF Handle, Start, Garbled, Ignore, Claim, Skip, SeenFails, SeenRepeats, Publish, PublishFails,
       Unclaim, UnclaimFails, Dispatch, HandlerOK, HandlerError, consumerVars

(* The queue by itself adds no message: whatever it does, what is unsent   *)
(* stays unsent and what was sent stays sent.                              *)
LEMMA QueueSendsNothing ==
  ASSUME PayIInv, PayQueueWorks
  PROVE  SameMessages
<1> USE DEF SameMessages, PayIInv, PayTypeOK, ConsumerTypeOK
<1>1. ASSUME NEW m \in Messages, VisibilityExpires(m) \/ Redrive(m) PROVE SameMessages
  BY <1>1 DEF VisibilityExpires, Redrive
<1>2. ASSUME NEW p \in Pods, Receive(p) \/ ReceiveFails(p) PROVE SameMessages
  BY <1>2 DEF Receive, ReceiveFails, Hand, Receivable
<1>3. ASSUME NEW p \in Pods, Stop(p) \/ Exit(p) \/ Die(p) PROVE SameMessages
  BY <1>3 DEF Stop, Exit, Die, Kill
<1>4. ASSUME NEW s \in Slots, HandlerTimeout(s) \/ DeleteFails(s) PROVE SameMessages
  BY <1>4 DEF HandlerTimeout, DeleteFails
<1>5. ASSUME NEW s \in Slots, DeleteMessage(s) PROVE SameMessages
  <2>1. job[s][1] \in Messages
    BY <1>5 DEF DeleteMessage, ConsumerIInv, BusySlotsHaveJobs
  <2> QED
    BY <1>5, <2>1 DEF DeleteMessage, Remove
<1> QED
  BY <1>1, <1>2, <1>3, <1>4, <1>5 DEF PayQueueWorks, Around

(* A call that has something published has it published for a message that *)
(* was sent.                                                               *)
LEMMA HandlersPublishSent ==
  ASSUME PayIInv, NEW s \in Slots, Handle(s), published' # published
  PROVE  /\ Msg(s) \in Messages /\ queue[Msg(s)] # "unsent"
         /\ \E n \in Nat \ {0} : published' = [published EXCEPT ![Msg(s)] = @ + n]
<1>1. Publish(s) \/ PublishFails(s)
  BY DEF Handle, Start, Garbled, Ignore, Claim, Skip, SeenFails, SeenRepeats, Unclaim, UnclaimFails
<1>2. step[s] = "publish"
  BY <1>1 DEF Publish, PublishFails
<1>3. slot[s] = "handling"
  BY <1>2 DEF PayIInv, PhasesMatch
<1>4. Msg(s) \in Messages
  BY <1>3 DEF PayIInv, ConsumerIInv, BusySlotsHaveJobs, Msg
<1>5. Holds(Msg(s))
  BY <1>3 DEF Holds, Busy, Msg
<1> DEFINE m == Msg(s)
<1>6. PICK n \in Nat : published' = [published EXCEPT ![m] = @ + n]
  <2>1. PICK lost \in 0 .. MaxLost : Accepted(m, lost + 1, lost) \/ Accepted(m, lost, lost)
    BY <1>1 DEF Publish, PublishFails
  <2>2. lost \in Nat /\ lost + 1 \in Nat
    BY <2>1, PaymentAssumption DEF PaymentAssumption
  <2>3. CASE Accepted(m, lost, lost)
    BY <2>2, <2>3 DEF Accepted
  <2>4. CASE Accepted(m, lost + 1, lost)
    BY <2>2, <2>4 DEF Accepted
  <2> QED
    BY <2>1, <2>3, <2>4
<1>7. n # 0
  <2>1. published \in [Messages -> Nat]
    BY DEF PayIInv, PayTypeOK
  <2> HIDE DEF m
  <2>2. n = 0 => published' = published
    BY <1>4, <1>6, <2>1
  <2> QED
    BY <2>2
<1> QED
  BY <1>4, <1>5, <1>6, <1>7 DEF PayIInv, ConsumerIInv, UnsentAreUnheld

-----------------------------------------------------------------------------
(* The pipeline's steps.                                                   *)

(* The topic delivers an event to the payments queue no more often than it *)
(* accepted it.                                                            *)
LEMMA FlowOfFanOut ==
  ASSUME RelayIInv, PayIInv, Flow, NEW m \in Messages, FanOut(m)
  PROVE  Flow'
<1> DEFINE q == OrderIn[m]
<1> USE DEF Flow
<1>1. /\ q \in Rows /\ queue[m] = "unsent" /\ queue' = [queue EXCEPT ![m] = "visible"]
      /\ Cardinality(Sent(q)) < delivered[q] /\ delivered[q] \in Nat
      /\ queue \in [Messages -> {"unsent", "visible", "inflight", "deleted", "dead"}]
  BY PipelineAssumption DEF PipelineAssumption, FanOut, SendOrder, Send, RelayIInv, RelayTypeOK,
                            PayIInv, PayTypeOK, ConsumerTypeOK
<1>2. UNCHANGED <<delivered, published, announced, statusQueue, statusDead, status>>
  BY DEF FanOut, SendOrder, workerVars, relayVars, statusVars
<1>3. Sent(q)' = Sent(q) \cup {m} /\ m \notin Sent(q)
  BY <1>1 DEF Sent
<1>4. \A o \in Rows \ {q} : Sent(o)' = Sent(o)
  BY <1>1 DEF Sent
<1>5. MessagesAreDelivered'
  <2>1. IsFiniteSet(Sent(q)) /\ Cardinality(Sent(q)) \in Nat
    BY <1>1, FS_CardinalityType DEF MessagesAreDelivered
  <2>2. IsFiniteSet(Sent(q) \cup {m}) /\ Cardinality(Sent(q) \cup {m}) = Cardinality(Sent(q)) + 1
    BY <1>3, <2>1, FS_AddElement
  <2>3. Cardinality(Sent(q) \cup {m}) <= delivered[q]
    BY <1>1, <2>1, <2>2
  <2> QED
    BY <1>2, <1>3, <1>4, <2>2, <2>3 DEF MessagesAreDelivered
<1>6. OutcomesArePublished'
  <2>1. 1 .. published[m] = {}
    BY <1>1 DEF OutcomesArePublished
  <2>2. Numbered(Sent(q) \cup {m}, published) = Numbered(Sent(q), published)
    BY <2>1 DEF Numbered
  <2>3. \A o \in Rows : Numbered(Sent(o), published)' = Numbered(Sent(o), published)
    BY <1>2, <1>3, <1>4, <2>2
  <2>4. \A n \in Messages : queue'[n] = "unsent" => queue[n] = "unsent"
    BY <1>1
  <2> QED
    BY <1>2, <2>3, <2>4 DEF OutcomesArePublished
<1>7. FlowTypeOK' /\ StatusIsAnnounced'
  BY <1>2 DEF FlowTypeOK, StatusIsAnnounced
<1> QED
  BY <1>5, <1>6, <1>7

(* What payment-worker publishes is announced, and nothing else.           *)
LEMMA FlowOfPay ==
  ASSUME RelayIInv, RelayIInv', PayIInv, Flow, NEW s \in Slots, Pay(s)
  PROVE  Flow'
<1> USE DEF Flow
<1>1. queue' = queue /\ UNCHANGED relayVars
  BY HandlersSendNothing DEF Pay
<1>2. \A o \in Rows : delivered[o] \in Nat /\ delivered'[o] = delivered[o]
  BY <1>1 DEF relayVars, RelayIInv, RelayTypeOK
<1>3. RelayTypeOK /\ RelayTypeOK'
  BY DEF RelayIInv
<1>4. CASE published' = published
  <2>1. UNCHANGED statusVars
    BY <1>4 DEF Pay
  <2>2. FlowTypeOK' /\ StatusIsAnnounced'
    BY <2>1 DEF statusVars, FlowTypeOK, StatusIsAnnounced
  <2>3. MessagesAreDelivered' /\ OutcomesArePublished'
    BY <1>1, <1>2, <1>3, <1>4, <2>1, FlowFramed DEF SameMessages, statusVars
  <2> QED
    BY <2>2, <2>3
<1>5. CASE published' # published
  <2>0. PICK m \in Messages : m = Msg(s)
    BY <1>5, HandlersPublishSent DEF Pay
  <2>1. PICK n \in Nat \ {0} : queue[m] # "unsent" /\ published' = [published EXCEPT ![m] = @ + n]
    BY <1>5, <2>0, HandlersPublishSent DEF Pay
  <2>1a. published'[m] - published[m] = n
    BY <2>0, <2>1 DEF PayIInv, PayTypeOK
  <2> DEFINE q == OrderIn[m]
  <2>2. PICK k \in Outcomes : Announce(q, k, n)
    BY <1>5, <2>0, <2>1a DEF Pay
  <2>3. q \in Rows /\ m \in Sent(q) /\ \A o \in Rows \ {q} : m \notin Sent(o)
    BY <2>1, PipelineAssumption DEF PipelineAssumption, Sent
  <2>4. /\ announced' = [announced EXCEPT ![q][k] = @ + n]
        /\ statusQueue' = [statusQueue EXCEPT ![q][k] = @ + n]
        /\ UNCHANGED <<statusDead, status>>
    BY <2>2 DEF Announce
  <2>5. published \in [Messages -> Nat] /\ published'[m] = published[m] + n
    BY <2>1 DEF PayIInv, PayTypeOK
  <2> HIDE DEF q
  <2>6. FlowTypeOK'
    BY <2>3, <2>4 DEF FlowTypeOK
  <2>7. StatusIsAnnounced'
    BY <2>3, <2>4 DEF StatusIsAnnounced, FlowTypeOK
  <2>8. \A o \in Rows : Sent(o)' = Sent(o)
    BY <1>1 DEF Sent
  <2>9. MessagesAreDelivered'
    BY <1>2, <2>8 DEF MessagesAreDelivered
  <2>10. OutcomesArePublished'
    <3>1. ASSUME NEW o \in Rows \ {q}
          PROVE  /\ Numbered(Sent(o), published)' = Numbered(Sent(o), published)
                 /\ announced'[o] = announced[o]
      <4>1. \A x \in Sent(o) : published'[x] = published[x]
        BY <2>1, <2>3, <2>5 DEF Sent
      <4> QED
        BY <2>4, <2>8, <4>1 DEF Numbered, FlowTypeOK
    <3>2. Cardinality(Numbered(Sent(q), published)') = Cardinality(Numbered(Sent(q), published)) + n
      <4>1. IsFiniteSet(Sent(q)) /\ Sent(q) \subseteq Messages
        BY <2>3 DEF MessagesAreDelivered, Sent
      <4>2. /\ \A x \in Sent(q) : published[x] \in Nat
            /\ \A x \in Sent(q) \ {m} : published'[x] = published[x]
        BY <2>1, <2>5, <4>1
      <4>3. Cardinality(Numbered(Sent(q), published')) = Cardinality(Numbered(Sent(q), published)) + n
        BY <2>3, <2>5, <4>1, <4>2, NumberedGrows
      <4>4. Numbered(Sent(q), published)' = Numbered(Sent(q), published')
        BY <2>3, <2>8 DEF Numbered
      <4> QED
        BY <4>3, <4>4
    <3>3. announced'[q]["confirmed"] + announced'[q]["payment_failed"]
            = announced[q]["confirmed"] + announced[q]["payment_failed"] + n
      BY <2>3, <2>4 DEF FlowTypeOK, Outcomes
    <3>4. \A x \in Messages : queue'[x] = "unsent" => published'[x] = 0
      BY <1>1, <2>1, <2>5 DEF OutcomesArePublished
    <3>5. \A o \in Rows : announced'[o]["confirmed"] + announced'[o]["payment_failed"]
                             = Cardinality(Numbered(Sent(o), published)')
      <4>1. \A o \in Rows \ {q} : announced'[o]["confirmed"] + announced'[o]["payment_failed"]
                                    = Cardinality(Numbered(Sent(o), published)')
        BY <3>1 DEF OutcomesArePublished
      <4>2. announced'[q]["confirmed"] + announced'[q]["payment_failed"]
              = Cardinality(Numbered(Sent(q), published)')
        BY <2>3, <3>2, <3>3 DEF OutcomesArePublished
      <4> QED
        BY <4>1, <4>2
    <3> QED
      BY <3>4, <3>5 DEF OutcomesArePublished
  <2> QED
    BY <2>6, <2>7, <2>9, <2>10
<1> QED
  BY <1>4, <1>5

(* The consumer of the status queue applies only what was announced.       *)
LEMMA StatusApplied ==
  ASSUME FlowTypeOK, StatusIsAnnounced, StatusWorks
  PROVE  FlowTypeOK' /\ StatusIsAnnounced' /\ announced' = announced
<1> USE DEF FlowTypeOK, StatusIsAnnounced
<1>1. ASSUME NEW o \in Rows, NEW k \in Outcomes, ApplyOutcome(o, k)
      PROVE  FlowTypeOK' /\ StatusIsAnnounced' /\ announced' = announced
  <2>1. announced[o][k] >= 1 /\ statusQueue[o][k] \in Nat \ {0} /\ announced[o][k] \in Nat
    BY <1>1 DEF ApplyOutcome
  <2>2. /\ status' = [status EXCEPT ![o] = k]
        /\ UNCHANGED <<announced, statusDead>>
        /\ statusQueue' = statusQueue \/ statusQueue' = [statusQueue EXCEPT ![o][k] = @ - 1]
    BY <1>1 DEF ApplyOutcome, UpdateOrderStatus
  <2>3. CASE statusQueue' = statusQueue
    BY <2>1, <2>2, <2>3
  <2>4. CASE statusQueue' = [statusQueue EXCEPT ![o][k] = @ - 1]
    <3>0. statusQueue[o][k] - 1 \in Nat
      BY <2>1
    <3>1. statusQueue' \in [Rows -> [Outcomes -> Nat]]
      <4> DEFINE less == [statusQueue[o] EXCEPT ![k] = statusQueue[o][k] - 1]
      <4>1. less \in [Outcomes -> Nat]
        BY <3>0
      <4>2. statusQueue' = [statusQueue EXCEPT ![o] = less]
        BY <2>4
      <4> HIDE DEF less
      <4> QED
        BY <4>1, <4>2
    <3>2. ASSUME NEW p \in Rows, NEW j \in Outcomes
          PROVE  statusQueue'[p][j] <= announced[p][j]
      <4>1. statusQueue[p][j] \in Nat /\ announced[p][j] \in Nat
        OBVIOUS
      <4>2. statusQueue'[p][j] = statusQueue[p][j] \/ statusQueue'[p][j] = statusQueue[p][j] - 1
        BY <2>4
      <4> QED
        BY <4>1, <4>2
    <3> QED
      BY <2>1, <2>2, <3>1, <3>2
  <2> QED
    BY <2>2, <2>3, <2>4
<1>2. ASSUME NEW o \in Rows, NEW k \in Outcomes, ApplyLate(o, k)
      PROVE  FlowTypeOK' /\ StatusIsAnnounced' /\ announced' = announced
  <2>1. announced[o][k] >= 1
    BY <1>2 DEF ApplyLate
  <2> QED
    BY <1>2, <2>1 DEF ApplyLate, UpdateOrderStatus
<1>3. ASSUME NEW o \in Rows, NEW k \in Outcomes, DropOutcome(o, k)
      PROVE  FlowTypeOK' /\ StatusIsAnnounced' /\ announced' = announced
  BY <1>3 DEF DropOutcome
<1> QED
  BY <1>1, <1>2, <1>3 DEF StatusWorks, StatusStep

(* Every step of the pipeline keeps the flow.                              *)
LEMMA FlowKept ==
  ASSUME RelayIInv, RelayIInv', PayIInv, Flow, [PipelineNext]_pipelineVars
  PROVE  Flow'
<1>0. /\ RelayTypeOK /\ RelayTypeOK'
      /\ \A o \in Rows : delivered'[o] >= delivered[o]
  BY PipelineStepsAreRelaySteps, DeliveriesStay DEF RelayIInv
<1>1. ASSUME SameMessages, UNCHANGED <<published, statusVars>> PROVE Flow'
  <2>1. FlowTypeOK' /\ StatusIsAnnounced'
    BY <1>1 DEF Flow, statusVars, FlowTypeOK, StatusIsAnnounced
  <2>2. MessagesAreDelivered' /\ OutcomesArePublished'
    BY <1>0, <1>1, FlowFramed DEF statusVars
  <2> QED
    BY <2>1, <2>2 DEF Flow
<1>2. CASE RelayWorks
  BY <1>1, <1>2 DEF RelayWorks, SameMessages, payVars, consumerVars, workerVars
<1>3. ASSUME NEW m \in Messages, FanOut(m) PROVE Flow'
  BY <1>3, FlowOfFanOut
<1>4. ASSUME NEW s \in Slots, Pay(s) PROVE Flow'
  BY <1>4, FlowOfPay
<1>5. CASE PayQueueWorks
  <2>1. SameMessages
    BY <1>5, QueueSendsNothing
  <2>2. published' = published
    BY <1>5 DEF PayQueueWorks, Around, Die, workerVars
  <2> QED
    BY <1>1, <1>5, <2>1, <2>2 DEF PayQueueWorks
<1>6. CASE StatusWorks
  <2>1. FlowTypeOK' /\ StatusIsAnnounced' /\ announced' = announced
    BY <1>6, StatusApplied DEF Flow
  <2>2. SameMessages /\ published' = published
    BY <1>6 DEF StatusWorks, StatusStep, ApplyOutcome, ApplyLate, DropOutcome, SameMessages,
                payVars, consumerVars, workerVars
  <2>3. MessagesAreDelivered' /\ OutcomesArePublished'
    BY <1>0, <2>1, <2>2, FlowFramed
  <2> QED
    BY <2>1, <2>3 DEF Flow
<1>7. CASE UNCHANGED pipelineVars
  BY <1>1, <1>7 DEF pipelineVars, SameMessages, payVars, consumerVars, workerVars
<1> QED
  BY <1>2, <1>3, <1>4, <1>5, <1>6, <1>7 DEF PipelineNext

-----------------------------------------------------------------------------
(* What holds of the pipeline.                                             *)

(* The relays of the pipeline are those of OutboxRelay: what is proved of  *)
(* them holds here.                                                        *)
THEOREM PipelineRunsRelay == PipelineSafeSpec => RelaySafeSpec
<1>1. PipelineInit => RelayInit
  BY DEF PipelineInit
<1> QED
  BY <1>1, PipelineStepsAreRelaySteps, PTL DEF PipelineSafeSpec, RelaySafeSpec

(* payment-worker in the pipeline is that of PaymentWorker.                *)
THEOREM PipelineRunsWorker == PipelineSafeSpec => PaySafeSpec
<1>1. PipelineInit => PayInit
  BY DEF PipelineInit
<1> QED
  BY <1>1, PipelineStepsAreWorkerSteps, PTL DEF PipelineSafeSpec, PaySafeSpec

(* PipelineIInv is an inductive invariant of the pipeline.                 *)
THEOREM PipelineInductive == PipelineSafeSpec => []PipelineIInv
<1>1. RelayIInv /\ RelayIInv' /\ PayIInv /\ Flow /\ [PipelineNext]_pipelineVars => Flow'
  BY FlowKept
<1>2. RelayIInv /\ PayIInv /\ Flow => PipelineIInv
  BY DEF PipelineIInv, Flow, FlowTypeOK, PipelineTypeOK, RelayIInv, PayIInv
<1>3. PipelineSafeSpec => []RelayIInv
  BY PipelineRunsRelay, RelayInductive, PTL
<1>4. PipelineSafeSpec => []PayIInv
  BY PipelineRunsWorker, WorkerInductive, PTL
<1> QED
  BY <1>1, <1>2, <1>3, <1>4, FlowStarts, PTL DEF PipelineSafeSpec

(* An order has as many messages as its event was delivered, and each      *)
(* outcome but one per message was unreported.                             *)
LEMMA OutcomesNeedFaults == PipelineIInv => OneOutcomePerOrder
<1> SUFFICES ASSUME PipelineIInv, NEW o \in Rows
             PROVE  announced[o]["confirmed"] + announced[o]["payment_failed"] <= 1 + Faults(o)
  BY DEF OneOutcomePerOrder
<1>1. IsFiniteSet(Sent(o)) /\ Cardinality(Sent(o)) <= delivered[o] /\ Sent(o) \subseteq Messages
  BY DEF PipelineIInv, MessagesAreDelivered, Sent
<1>2. delivered[o] <= 1 + strikes[o]
  BY DeliveriesCounted DEF PipelineIInv, DuplicatesNeedFaults
<1>3. \A m \in Sent(o) : /\ published[m] \in Nat /\ unreported[m] \in Nat
                         /\ published[m] <= 1 + unreported[m]
  BY <1>1 DEF PipelineIInv, PayIInv, PayTypeOK, OutcomesCounted
<1>4. Cardinality(Numbered(Sent(o), published))
        <= Cardinality(Sent(o)) + Cardinality(Numbered(Sent(o), unreported))
  BY <1>1, <1>3, NumberedExcess
<1>5. /\ Cardinality(Sent(o)) \in Nat /\ Cardinality(Numbered(Sent(o), published)) \in Nat
      /\ Cardinality(Numbered(Sent(o), unreported)) \in Nat
  BY <1>1, <1>3, FS_CardinalityType, NumberedFinite
<1>6. delivered[o] \in Nat /\ strikes[o] \in Nat
  BY DEF PipelineIInv, RelayIInv, RelayTypeOK
<1>7. announced[o]["confirmed"] + announced[o]["payment_failed"]
        = Cardinality(Numbered(Sent(o), published))
  BY DEF PipelineIInv, OutcomesArePublished
<1> QED
  BY <1>1, <1>2, <1>4, <1>5, <1>6, <1>7 DEF Faults

(* An order has one outcome, whatever is delivered twice, reordered or     *)
(* restarted; each further one is paid for by a fault of a relay that held *)
(* its row, or by an outcome SNS accepted without the worker knowing of it.*)
THEOREM OneOutcomeEach == PipelineSafeSpec => []OneOutcomePerOrder
BY OutcomesNeedFaults, PipelineInductive, PTL

(* The status of an order, once final, is turned over only by a second     *)
(* outcome, so only after such a fault.                                    *)
THEOREM FlipsArePaidFor == PipelineSafeSpec => StatusFlipsNeedFaults
<1>1. PipelineIInv /\ [PipelineNext]_pipelineVars =>
        [\A o \in Rows : status[o] \in Outcomes /\ status'[o] # status[o] => Faults(o) > 0]_pipelineVars
  <2> SUFFICES ASSUME PipelineIInv, [PipelineNext]_pipelineVars, NEW o \in Rows,
                      status[o] \in Outcomes, status'[o] # status[o]
               PROVE  Faults(o) > 0
    OBVIOUS
  <2> DEFINE k == status[o]
  <2>1. announced[o][k] >= 1
    BY DEF PipelineIInv, StatusIsAnnounced
  <2>2. StatusWorks
    <3>1. ASSUME UNCHANGED status PROVE FALSE
      BY <3>1
    <3> QED
      BY <3>1 DEF PipelineNext, RelayWorks, FanOut, Pay, Announce, PayQueueWorks, statusVars, pipelineVars
  <2>3. PICK j \in Outcomes : j # k /\ announced[o][j] >= 1
    <3>1. \A p \in Rows, j \in Outcomes :
            ApplyOutcome(p, j) \/ ApplyLate(p, j) => status' = [status EXCEPT ![p] = j]
                                                  /\ announced[p][j] >= 1
      BY DEF ApplyOutcome, ApplyLate, UpdateOrderStatus, PipelineIInv, PipelineTypeOK, StatusIsAnnounced
    <3>2. \A p \in Rows, j \in Outcomes : DropOutcome(p, j) => status' = status
      BY DEF DropOutcome
    <3> QED
      BY <2>2, <3>1, <3>2 DEF StatusWorks, StatusStep, PipelineIInv, PipelineTypeOK
  <2>4. announced[o]["confirmed"] + announced[o]["payment_failed"] >= 2
    BY <2>1, <2>3 DEF PipelineIInv, PipelineTypeOK, Outcomes
  <2>5. announced[o]["confirmed"] + announced[o]["payment_failed"] <= 1 + Faults(o)
    BY OutcomesNeedFaults DEF OneOutcomePerOrder
  <2>6. announced[o]["confirmed"] \in Nat /\ announced[o]["payment_failed"] \in Nat
    BY DEF PipelineIInv, PipelineTypeOK, Outcomes
  <2>7. Faults(o) \in Nat
    <3>1. IsFiniteSet(Sent(o)) /\ \A m \in Sent(o) : unreported[m] \in Nat
      BY DEF PipelineIInv, MessagesAreDelivered, PayIInv, PayTypeOK, Sent
    <3>2. Cardinality(Numbered(Sent(o), unreported)) \in Nat
      BY <3>1, NumberedFinite
    <3>3. strikes[o] \in Nat
      BY DEF PipelineIInv, RelayIInv, RelayTypeOK
    <3> QED
      BY <3>2, <3>3 DEF Faults
  <2> QED
    BY <2>4, <2>5, <2>6, <2>7
<1> QED
  BY <1>1, PipelineInductive, PTL DEF PipelineSafeSpec, StatusFlipsNeedFaults

(* The pipeline implements EventDelivery: what is told of a saved order is *)
(* an outcome, and the order is settled by a status that tells the same.   *)
THEOREM PipelineImplements == PipelineSafeSpec => SettledAfterPayment
<1> DEFINE recorded == {o \in Rows : outbox[o] # "absent"}
           told     == {o \in Rows : \E k \in Outcomes : announced[o][k] > 0}
           settled  == {o \in Rows : status[o] \in Outcomes}
<1>1. PipelineInit => Settlement!Init
  BY DEF PipelineInit, RelayInit, NoOutcome, Outcomes, Settlement!Init
<1>2. PipelineIInv /\ [PipelineNext]_pipelineVars => [Settlement!Next]_(Settlement!vars)
  <2> SUFFICES ASSUME PipelineIInv, [PipelineNext]_pipelineVars
               PROVE  [Settlement!Next]_(Settlement!vars)
    OBVIOUS
  <2>0. RelayIInv /\ PayIInv
    BY DEF PipelineIInv
  <2>1. ASSUME UNCHANGED <<announced, status>>,
               \A p \in Rows : outbox'[p] = "absent" <=> outbox[p] = "absent"
        PROVE  UNCHANGED Settlement!vars
    BY <2>1 DEF Settlement!vars
  <2>2. ASSUME NEW o \in Rows, Record(o), UNCHANGED statusVars PROVE Settlement!Next
    <3>1. recorded' = recorded \cup {o} /\ o \notin recorded
      BY <2>0, <2>2 DEF Record, RelayIInv, RelayTypeOK
    <3>2. Settlement!Record(o)
      BY <2>2, <3>1 DEF statusVars, Settlement!Record
    <3> QED
      BY <3>2 DEF Settlement!Next
  <2>3. ASSUME NEW w \in Relays, RelayStep(w) \/ FaultStep(w), UNCHANGED statusVars
        PROVE  UNCHANGED Settlement!vars
    <3>1. \A p \in Rows : outbox'[p] = "absent" <=> outbox[p] = "absent"
      BY <2>0, <2>3, RelayLeavesRows
    <3> QED
      BY <2>1, <2>3, <3>1 DEF statusVars
  <2>4. ASSUME NEW s \in Slots, Pay(s), published' # published PROVE Settlement!Next
    <3>1. Handle(s) /\ outbox' = outbox
      BY <2>4 DEF Pay, relayVars
    <3>2. PICK m \in Messages : m = Msg(s) /\ queue[m] # "unsent"
      BY <2>0, <2>4, <3>1, HandlersPublishSent
    <3>3. PICK o \in Rows : o = OrderIn[m]
      BY <3>2, PipelineAssumption DEF PipelineAssumption
    <3>2a. PICK n \in Nat \ {0} : published'[m] - published[m] = n
      BY <2>0, <2>4, <3>1, <3>2, HandlersPublishSent DEF PayIInv, PayTypeOK
    <3>4. PICK k \in Outcomes : Announce(o, k, n)
      BY <2>4, <3>2, <3>2a, <3>3 DEF Pay
    <3>5. outbox[o] # "absent"
      <4>1. m \in Sent(o)
        BY <3>2, <3>3 DEF Sent
      <4>2. Cardinality(Sent(o)) # 0 /\ Cardinality(Sent(o)) \in Nat
        BY <4>1, FS_EmptySet, FS_CardinalityType DEF PipelineIInv, MessagesAreDelivered
      <4>3. delivered[o] \in Nat /\ Cardinality(Sent(o)) <= delivered[o]
        BY DEF PipelineIInv, MessagesAreDelivered, RelayIInv, RelayTypeOK
      <4> QED
        BY <4>2, <4>3 DEF PipelineIInv, RelayIInv, NothingInvented
    <3>6. told' = told \cup {o}
      <4>1. /\ announced'[o][k] = announced[o][k] + n /\ announced[o][k] \in Nat
            /\ \A p \in Rows, j \in Outcomes : <<p, j>> # <<o, k>> => announced'[p][j] = announced[p][j]
        BY <3>4 DEF Announce, PipelineIInv, PipelineTypeOK
      <4> QED
        BY <4>1
    <3>7. recorded' = recorded /\ settled' = settled
      BY <3>1, <3>4 DEF Announce
    <3>8. Settlement!Tell(o)
      BY <3>5, <3>6, <3>7 DEF Settlement!Tell
    <3> QED
      BY <3>8 DEF Settlement!Next
  <2>5. ASSUME NEW s \in Slots, Pay(s), published' = published PROVE UNCHANGED Settlement!vars
    BY <2>1, <2>5 DEF Pay, relayVars, statusVars
  <2>6. ASSUME NEW o \in Rows, NEW k \in Outcomes, ApplyOutcome(o, k) \/ ApplyLate(o, k)
        PROVE  Settlement!Next
    <3>1. announced[o][k] > 0
      BY <2>6 DEF ApplyOutcome, ApplyLate, PipelineIInv, PipelineTypeOK, StatusIsAnnounced
    <3>2. status' = [status EXCEPT ![o] = k] /\ announced' = announced /\ outbox' = outbox
      BY <2>6 DEF ApplyOutcome, ApplyLate, UpdateOrderStatus, relayVars
    <3>3. settled' = settled \cup {o} /\ told' = told /\ recorded' = recorded
      BY <3>2 DEF PipelineIInv, PipelineTypeOK
    <3>4. Settlement!Settle(o)
      BY <3>1, <3>3 DEF Settlement!Settle
    <3> QED
      BY <3>4 DEF Settlement!Next
  <2>7. ASSUME NEW o \in Rows, NEW k \in Outcomes, DropOutcome(o, k)
        PROVE  UNCHANGED Settlement!vars
    BY <2>1, <2>7 DEF DropOutcome, relayVars
  <2>8. ASSUME NEW m \in Messages, FanOut(m) PROVE UNCHANGED Settlement!vars
    BY <2>1, <2>8 DEF FanOut, relayVars, statusVars
  <2>9. CASE PayQueueWorks \/ UNCHANGED pipelineVars
    BY <2>1, <2>9 DEF PayQueueWorks, pipelineVars, relayVars, statusVars
  <2>10. CASE RelayWorks
    BY <2>2, <2>3, <2>10 DEF RelayWorks, RelayNext
  <2>11. CASE StatusWorks
    BY <2>6, <2>7, <2>11 DEF StatusWorks, StatusStep
  <2> QED
    BY <2>4, <2>5, <2>8, <2>9, <2>10, <2>11 DEF PipelineNext
<1> QED
  BY <1>1, <1>2, PipelineInductive, PTL
     DEF PipelineSafeSpec, SettledAfterPayment, Settlement!SafeSpec
==============================================================================
