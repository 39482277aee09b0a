----------------------- MODULE NotificationWorkerProofs -----------------------
(***************************************************************************)
(* Theorems about NotificationWorker, for any sets of messages, pods and   *)
(* slots and any number of failures, stops and kills.                      *)
(***************************************************************************)
EXTENDS NotificationWorker, SqsConsumerProofs

(* Every step is a step of the consumer with some handler, or one the      *)
(* consumer takes no part in.                                              *)
LEMMA NoticeStepsAreConsumerSteps == [NoticeNext]_allVars => [ConsumerNext]_consumerVars
<1> SUFFICES ASSUME [NoticeNext]_allVars PROVE ConsumerNext \/ UNCHANGED consumerVars
  OBVIOUS
<1>1. ASSUME NEW s \in Slots, Handle(s) PROVE SlotStep(s) \/ UNCHANGED consumerVars
  BY <1>1 DEF Handle, SlotStep, Start, Garbled, Claim, Skip, SeenFails, SeenRepeats, Notify
<1>2. ASSUME NEW p \in Pods, Die(p) PROVE Kill(p)
  BY <1>2 DEF Die
<1>3. ASSUME Around PROVE ConsumerNext
  BY <1>3 DEF Around, ConsumerNext, SlotStep
<1>4. ASSUME UNCHANGED allVars PROVE UNCHANGED consumerVars
  BY <1>4 DEF allVars
<1> QED
  BY <1>1, <1>2, <1>3, <1>4 DEF NoticeNext, ConsumerNext

(* So what holds of the consumer holds here.                               *)
THEOREM NotifierImplementsConsumer == NoticeSafeSpec => ConsumerSafeSpec
<1>1. NoticeInit => ConsumerInit
  BY DEF NoticeInit
<1> QED
  BY <1>1, NoticeStepsAreConsumerSteps, PTL DEF NoticeSafeSpec, ConsumerSafeSpec

-----------------------------------------------------------------------------

HandlerTypeOK ==
  /\ step \in [Slots -> {"none", "claim", "notify"}]
  /\ claimed \subseteq Messages
  /\ notices \in [Messages -> Nat]
  /\ cutOff \subseteq Messages

\* the handler's own part of the invariant
Claims == HandlerTypeOK /\ PhasesMatch /\ OwnersAreUnique /\ NoticesCounted
                        /\ ClaimsExplained /\ AcksExplained

(* The invariant is the consumer's and the handler's own.                  *)
LEMMA NoticeIInvParts == NoticeIInv <=> ConsumerIInv /\ Claims
BY DEF NoticeIInv, Claims, NoticeTypeOK, HandlerTypeOK, ConsumerIInv

(* No message is claimed in the initial state.                             *)
LEMMA NoticesStart == NoticeInit => NoticeIInv
<1> SUFFICES ASSUME NoticeInit PROVE NoticeIInv
  OBVIOUS
<1>1. ConsumerIInv
  BY ConsumerStarts DEF NoticeInit
<1>2. Claims
  BY DEF NoticeInit, ConsumerInit, Claims, HandlerTypeOK, PhasesMatch, OwnersAreUnique,
         NoticesCounted, ClaimsExplained, AcksExplained, Owner
<1> QED
  BY <1>1, <1>2, NoticeIInvParts

\* a step of the handler in slot s
Alone(s) ==
  \A t \in Slots \ {s} : step'[t] = step[t] /\ slot'[t] = slot[t] /\ job'[t] = job[t]

(* A handler's step disturbs no other slot and no claim held there.        *)
LEMMA HandlersWorkAlone ==
  ASSUME NEW s \in Slots, ConsumerIInv, HandlerTypeOK, Handle(s)
  PROVE  /\ Alone(s)
         /\ \A t \in Slots \ {s} : \A m \in Messages : Owner(t, m)' <=> Owner(t, m)
<1> USE DEF ConsumerIInv, ConsumerTypeOK, HandlerTypeOK
<1>1. Alone(s)
  BY DEF Handle, Alone, Goto, Start, Garbled, Claim, Skip, SeenFails, SeenRepeats, Notify,
         Dispatch, HandlerOK, HandlerError, Release, consumerVars
<1>2. \A t \in Slots \ {s} : \A m \in Messages : Owner(t, m)' <=> Owner(t, m)
  BY <1>1 DEF Alone, Owner, Msg
<1> QED
  BY <1>1, <1>2

(* A step that leaves the handler's variables alone and neither starts nor *)
(* ends a handler keeps the claims as they are.                            *)
LEMMA ClaimsFramed ==
  ASSUME ConsumerIInv, Claims, UNCHANGED noticeVars, overlapped \subseteq overlapped',
         \A s \in Slots : slot'[s] = "handling" <=> slot[s] = "handling",
         \A s \in Slots : slot'[s] # "free" => slot'[s] = slot[s] /\ job'[s] = job[s],
         \A m \in Messages : queue'[m] = "deleted" =>
            queue[m] = "deleted" \/ \E s \in Slots : slot[s] = "deleting" /\ Msg(s) = m
  PROVE  Claims'
<1> USE DEF Claims, noticeVars
<1>1. HandlerTypeOK'
  BY DEF HandlerTypeOK
<1>2. \A s \in Slots : \A m \in Messages : Owner(s, m)' <=> Owner(s, m)
  BY DEF Owner, Msg, PhasesMatch
<1>3. PhasesMatch'
  BY DEF PhasesMatch, Msg
<1>4. OwnersAreUnique' /\ NoticesCounted'
  BY <1>2 DEF OwnersAreUnique, NoticesCounted
<1>5. ClaimsExplained'
  BY <1>2 DEF ClaimsExplained, HandlerTypeOK
<1>6. AcksExplained'
  BY DEF AcksExplained, Msg
<1> QED
  BY <1>1, <1>3, <1>4, <1>5, <1>6

\* the slot works on nothing any more, or deletes what it worked on
HandlerDone(s) ==
  /\ step' = [step EXCEPT ![s] = "none"]
  /\ slot'[s] = "free" \/ (slot'[s] = "deleting" /\ job'[s] = job[s])

(* Each of the handler's steps keeps the claims explained.                 *)
LEMMA ClaimsKept ==
  ASSUME ConsumerIInv, Claims, NEW s \in Slots, Handle(s)
  PROVE  Claims'
<1> USE DEF ConsumerIInv, ConsumerTypeOK, Claims, HandlerTypeOK
<1> DEFINE m == Msg(s)
<1>1. Alone(s) /\ \A t \in Slots \ {s} : \A n \in Messages : Owner(t, n)' <=> Owner(t, n)
  BY HandlersWorkAlone
<1>2. step[s] # "none" => m \in Messages /\ slot[s] = "handling"
  BY DEF PhasesMatch, BusySlotsHaveJobs, Msg
<1>3. overlapped' = overlapped /\ queue' = queue
  BY DEF Handle, Start, Garbled, Claim, Skip, SeenFails, SeenRepeats, Notify,
         Dispatch, HandlerOK, HandlerError, consumerVars
<1>4. CASE Start(s)
  <2>1. /\ slot'[s] = "handling" /\ step' = [step EXCEPT ![s] = "claim"] /\ slot[s] = "free"
        /\ UNCHANGED <<claimed, notices, cutOff>>
    BY <1>4 DEF Start, Dispatch, Goto
  <2>2. \A t \in Slots : \A n \in Messages : Owner(t, n)' <=> Owner(t, n)
    BY <1>1, <2>1 DEF Owner, PhasesMatch
  <2>3. HandlerTypeOK'
    BY <2>1
  <2>4. PhasesMatch'
    BY <1>1, <2>1 DEF PhasesMatch, Alone, Msg
  <2>5. OwnersAreUnique' /\ NoticesCounted' /\ ClaimsExplained'
    BY <2>1, <2>2 DEF OwnersAreUnique, NoticesCounted, ClaimsExplained
  <2>6. AcksExplained'
    BY <1>1, <1>3, <2>1 DEF AcksExplained, Alone, Msg
  <2> QED
    BY <2>3, <2>4, <2>5, <2>6
<1>5. CASE Garbled(s)
  <2>1. /\ step[s] = "claim" /\ HandlerDone(s) /\ slot'[s] = "free"
        /\ UNCHANGED <<claimed, notices, cutOff>>
    BY <1>5 DEF Garbled, HandlerError, Release, Goto, HandlerDone
  <2>2. \A t \in Slots : \A n \in Messages : Owner(t, n)' <=> Owner(t, n)
    BY <1>1, <2>1 DEF Owner, HandlerDone
  <2>3. HandlerTypeOK'
    BY <2>1 DEF HandlerDone
  <2>4. PhasesMatch'
    BY <1>1, <2>1 DEF PhasesMatch, Alone, Msg, HandlerDone
  <2>5. OwnersAreUnique' /\ NoticesCounted' /\ ClaimsExplained'
    BY <2>1, <2>2 DEF OwnersAreUnique, NoticesCounted, ClaimsExplained
  <2>6. AcksExplained'
    BY <1>1, <1>3, <2>1 DEF AcksExplained, Alone, Msg
  <2> QED
    BY <2>3, <2>4, <2>5, <2>6
<1>6. CASE Claim(s)
  <2>1. /\ step[s] = "claim" /\ step' = [step EXCEPT ![s] = "notify"]
        /\ m \notin claimed /\ claimed' = claimed \cup {m}
        /\ UNCHANGED <<slot, job, notices, cutOff>>
    BY <1>6 DEF Claim, AtSeen, Goto, consumerVars
  <2>2. \A n \in Messages : Owner(s, n)' <=> n = m
    BY <2>1 DEF Owner, Msg
  <2>3. \A t \in Slots : ~Owner(t, m)
    BY <1>2, <2>1 DEF Owner, PhasesMatch
  <2>4. HandlerTypeOK'
    BY <1>2, <2>1
  <2>5. PhasesMatch'
    BY <1>1, <1>2, <2>1 DEF PhasesMatch, Alone, Msg
  <2>6. OwnersAreUnique'
    BY <1>1, <2>2, <2>3 DEF OwnersAreUnique
  <2>7. NoticesCounted'
    BY <1>1, <1>2, <2>1, <2>2 DEF NoticesCounted
  <2>8. ClaimsExplained'
    <3> SUFFICES ASSUME NEW n \in Messages, n \in claimed', KindOf[n] = "notified",
                        notices[n] # 1, n \notin cutOff
                 PROVE  \E t \in Slots : Owner(t, n)'
      BY <2>1, <2>4 DEF ClaimsExplained
    <3>1. CASE n = m
      BY <2>2, <3>1
    <3>2. CASE n # m
      <4>1. PICK t \in Slots : Owner(t, n)
        BY <2>1, <3>2 DEF ClaimsExplained
      <4>2. t # s
        BY <2>1, <4>1 DEF Owner
      <4> QED
        BY <1>1, <4>1, <4>2
    <3> QED
      BY <3>1, <3>2
  <2>9. AcksExplained'
    BY <1>3, <2>1 DEF AcksExplained, Msg
  <2> QED
    BY <2>4, <2>5, <2>6, <2>7, <2>8, <2>9
<1>7. CASE Skip(s)
  <2>1. /\ step[s] = "claim" /\ HandlerDone(s) /\ m \in claimed
        /\ UNCHANGED <<claimed, notices, cutOff>>
    BY <1>7 DEF Skip, AtSeen, HandlerOK, Goto, HandlerDone, Msg
  <2>2. \A t \in Slots : \A n \in Messages : Owner(t, n)' <=> Owner(t, n)
    BY <1>1, <2>1 DEF Owner, HandlerDone
  <2>3. HandlerTypeOK'
    BY <2>1 DEF HandlerDone
  <2>4. PhasesMatch'
    BY <1>1, <2>1 DEF PhasesMatch, Alone, Msg, HandlerDone
  <2>5. OwnersAreUnique' /\ NoticesCounted' /\ ClaimsExplained'
    BY <2>1, <2>2 DEF OwnersAreUnique, NoticesCounted, ClaimsExplained
  <2>6. KindOf[m] = "notified" => notices[m] = 1 \/ m \in cutOff \cup overlapped
    <3>1. ASSUME NEW t \in Slots, Owner(t, m) PROVE m \in overlapped
      <4>1. t # s /\ Busy(s, m) /\ Busy(t, m)
        BY <1>2, <2>1, <3>1 DEF Owner, Busy, Msg, PhasesMatch
      <4> QED
        BY <1>2, <2>1, <4>1 DEF OverlapsAreTimeouts
    <3> QED
      BY <2>1, <3>1 DEF ClaimsExplained
  <2>7. AcksExplained'
    BY <1>1, <1>3, <2>1, <2>6 DEF AcksExplained, Alone, Msg, HandlerDone
  <2> QED
    BY <2>3, <2>4, <2>5, <2>7
<1>8. CASE SeenFails(s) \/ SeenRepeats(s)
  <2>1. /\ step[s] = "claim" /\ HandlerDone(s) /\ notices' = notices
        /\ \/ claimed' = claimed /\ cutOff' = cutOff /\ slot'[s] = "free"
           \/ claimed' = claimed \cup {m} /\ cutOff' = cutOff \cup {m}
    BY <1>8 DEF SeenFails, SeenRepeats, ClaimUnseen, AtSeen, HandlerOK, HandlerError, Release, Goto,
                HandlerDone, Msg
  <2>2. \A t \in Slots : \A n \in Messages : Owner(t, n)' <=> Owner(t, n)
    BY <1>1, <2>1 DEF Owner, HandlerDone
  <2>3. HandlerTypeOK'
    BY <1>2, <2>1 DEF HandlerDone
  <2>4. PhasesMatch'
    BY <1>1, <2>1 DEF PhasesMatch, Alone, Msg, HandlerDone
  <2>5. OwnersAreUnique' /\ NoticesCounted' /\ ClaimsExplained'
    BY <2>1, <2>2 DEF OwnersAreUnique, NoticesCounted, ClaimsExplained
  <2>6. AcksExplained'
    BY <1>1, <1>3, <2>1 DEF AcksExplained, Alone, Msg, HandlerDone
  <2> QED
    BY <2>3, <2>4, <2>5, <2>6
<1>9. CASE Notify(s)
  <2>1. /\ HandlerDone(s) /\ Owner(s, m)
        /\ notices' = IF KindOf[m] = "notified" THEN [notices EXCEPT ![m] = @ + 1] ELSE notices
        /\ UNCHANGED <<claimed, cutOff>>
    BY <1>9 DEF Notify, HandlerOK, Goto, HandlerDone, Msg, Owner
  <2>2. \A n \in Messages : ~Owner(s, n)'
    BY <2>1 DEF Owner, HandlerDone
  <2>3. /\ m \in Messages /\ m \in claimed /\ notices[m] = 0
        /\ notices'[m] = IF KindOf[m] = "notified" THEN 1 ELSE 0
        /\ \A n \in Messages \ {m} : notices'[n] = notices[n]
    BY <1>2, <2>1 DEF Owner, PhasesMatch, NoticesCounted
  <2>4. HandlerTypeOK'
    BY <2>1, <2>3 DEF HandlerDone
  <2>5. PhasesMatch'
    BY <1>1, <2>1 DEF PhasesMatch, Alone, Msg, HandlerDone
  <2>6. OwnersAreUnique'
    BY <1>1, <2>2 DEF OwnersAreUnique
  <2>7. NoticesCounted'
    <3>1. \A t \in Slots \ {s} : ~Owner(t, m)
      BY <2>1, <2>3 DEF OwnersAreUnique
    <3>2. \A n \in Messages : n = m => \A t \in Slots : ~Owner(t, n)'
      BY <1>1, <2>2, <2>3, <3>1
    <3> SUFFICES ASSUME NEW n \in Messages
                 PROVE  /\ notices'[n] <= 1
                        /\ n \notin claimed => notices'[n] = 0
                        /\ \A t \in Slots : Owner(t, n)' => notices'[n] = 0
      BY <2>1 DEF NoticesCounted
    <3>3. CASE n = m
      BY <2>3, <3>2, <3>3
    <3>4. CASE n # m
      BY <1>1, <2>2, <2>3, <3>4 DEF NoticesCounted
    <3> QED
      BY <3>3, <3>4
  <2>8. ClaimsExplained'
    BY <1>1, <2>1, <2>3 DEF ClaimsExplained, Owner
  <2>9. AcksExplained'
    BY <1>1, <1>3, <2>1, <2>3 DEF AcksExplained, Alone, Msg, HandlerDone
  <2> QED
    BY <2>4, <2>5, <2>6, <2>7, <2>8, <2>9
<1> QED
  BY <1>4, <1>5, <1>6, <1>7, <1>8, <1>9 DEF Handle

(* A killed pod's claims are cut off and its handlers forgotten.           *)
LEMMA ClaimsOfTheDead ==
  ASSUME ConsumerIInv, Claims, NEW p \in Pods, Die(p)
  PROVE  Claims'
<1> USE DEF ConsumerIInv, ConsumerTypeOK, Claims, HandlerTypeOK
<1>1. /\ \A s \in Slots : PodOf[s] = p => step'[s] = "none" /\ slot'[s] = "free"
      /\ \A s \in Slots : PodOf[s] # p =>
           step'[s] = step[s] /\ slot'[s] = slot[s] /\ job'[s] = job[s]
      /\ step' \in [Slots -> {"none", "claim", "notify"}]
  BY DEF Die, Kill
<1>2. /\ cutOff' = cutOff \cup InHand(p)
      /\ UNCHANGED <<queue, overlapped, claimed, notices>>
  BY DEF Die, Kill
<1>3. \A s \in Slots : \A m \in Messages :
         /\ Owner(s, m)' => Owner(s, m)
         /\ Owner(s, m) => Owner(s, m)' \/ m \in InHand(p)
  BY <1>1 DEF Owner, Msg, InHand
<1>4. InHand(p) \subseteq Messages
  BY DEF InHand, PhasesMatch
<1>5. HandlerTypeOK'
  BY <1>1, <1>2, <1>4
<1>6. PhasesMatch'
  BY <1>1, <1>2 DEF PhasesMatch, Msg
<1>7. OwnersAreUnique'
  BY <1>3 DEF OwnersAreUnique
<1>8. NoticesCounted'
  BY <1>2, <1>3 DEF NoticesCounted
<1>9. ClaimsExplained'
  BY <1>2, <1>3 DEF ClaimsExplained
<1>10. AcksExplained'
  BY <1>1, <1>2 DEF AcksExplained, Msg
<1> QED
  BY <1>5, <1>6, <1>7, <1>8, <1>9, <1>10

(* What the queue and the loop do on their own keeps the claims.           *)
LEMMA ClaimsAround ==
  ASSUME ConsumerIInv, Claims, Around \/ UNCHANGED allVars
  PROVE  Claims'
<1> USE DEF ConsumerIInv, ConsumerTypeOK
<1>1. UNCHANGED noticeVars
  BY DEF Around, allVars
<1>2. ASSUME overlapped \subseteq overlapped',
             \A s \in Slots : slot'[s] = "handling" <=> slot[s] = "handling",
             \A s \in Slots : slot'[s] # "free" => slot'[s] = slot[s] /\ job'[s] = job[s],
             \A m \in Messages : queue'[m] = "deleted" =>
                queue[m] = "deleted" \/ \E s \in Slots : slot[s] = "deleting" /\ Msg(s) = m
      PROVE  Claims'
  BY <1>1, <1>2, ClaimsFramed
<1>3. ASSUME NEW m \in Messages, Send(m) \/ QueueStep(m) PROVE Claims'
  BY <1>2, <1>3 DEF QueueStep, VisibilityExpires, Redrive, Send
<1>4. ASSUME NEW p \in Pods, Receive(p) \/ ReceiveFails(p) PROVE Claims'
  BY <1>2, <1>4 DEF Receive, ReceiveFails, Hand
<1>5. ASSUME NEW p \in Pods, Stop(p) \/ Exit(p) PROVE Claims'
  BY <1>2, <1>5 DEF Stop, Exit
<1>6. ASSUME NEW s \in Slots, HandlerTimeout(s) \/ DeleteFails(s) PROVE Claims'
  BY <1>2, <1>6 DEF HandlerTimeout, DeleteFails, Release
<1>7. ASSUME NEW s \in Slots, DeleteMessage(s) PROVE Claims'
  <2>1. Msg(s) \in Messages
    BY <1>7 DEF DeleteMessage, BusySlotsHaveJobs, Msg
  <2>2. \A m \in Messages : queue'[m] = "deleted" => queue[m] = "deleted" \/ m = Msg(s)
    BY <1>7, <2>1 DEF DeleteMessage, Remove, Msg
  <2> QED
    BY <1>2, <1>7, <2>2 DEF DeleteMessage, Release
<1>8. ASSUME UNCHANGED allVars PROVE Claims'
  BY <1>2, <1>8 DEF allVars, consumerVars
<1> QED
  BY <1>3, <1>4, <1>5, <1>6, <1>7, <1>8 DEF Around, PodStep

(* Every step keeps the invariant.                                         *)
LEMMA NoticesKeep == NoticeIInv /\ [NoticeNext]_allVars => NoticeIInv'
<1> SUFFICES ASSUME NoticeIInv, [NoticeNext]_allVars PROVE NoticeIInv'
  OBVIOUS
<1>1. ConsumerIInv /\ Claims
  BY NoticeIInvParts
<1>2. ConsumerIInv'
  BY <1>1, ConsumerKeeps, NoticeStepsAreConsumerSteps
<1>3. Claims'
  BY <1>1, ClaimsKept, ClaimsOfTheDead, ClaimsAround DEF NoticeNext
<1> QED
  BY <1>2, <1>3 DEF NoticeIInv, Claims, NoticeTypeOK, HandlerTypeOK, ConsumerIInv

-----------------------------------------------------------------------------

(* The inductive invariant holds in every behaviour.                       *)
THEOREM NoticesInductive == NoticeSafeSpec => []NoticeIInv
BY NoticesStart, NoticesKeep, PTL DEF NoticeSafeSpec

(* A message is notified of once at most, however often, and to however    *)
(* many pods at a time, it is delivered.                                   *)
THEOREM OneNotice == NoticeSafeSpec => []OneNoticePerMessage
<1>1. NoticeIInv => OneNoticePerMessage
  BY DEF NoticeIInv, NoticesCounted, OneNoticePerMessage
<1> QED
  BY <1>1, NoticesInductive, PTL

(* A message is not deleted before it was notified of, unless its claim    *)
(* was cut off or its visibility timeout ran out while a pod held it.      *)
THEOREM LostNoticesAreExplained == NoticeSafeSpec => []LostNoticesNeedCuts
<1>1. NoticeIInv => LostNoticesNeedCuts
  <2> SUFFICES ASSUME NoticeIInv, NEW m \in Messages, queue[m] = "deleted",
                      KindOf[m] = "notified", notices[m] = 0
               PROVE  m \in cutOff \cup overlapped
    BY DEF LostNoticesNeedCuts
  <2> QED
    BY DEF NoticeIInv, AcksExplained
<1> QED
  BY <1>1, NoticesInductive, PTL
==============================================================================
