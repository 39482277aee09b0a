------------------------- MODULE FraudDetectorProofs --------------------------
(***************************************************************************)
(* Theorems about FraudDetector, for any sets of users, messages, pods and *)
(* slots, any threshold and any number of failures, windows, stops and     *)
(* kills.                                                                  *)
(***************************************************************************)
EXTENDS FraudDetector, SqsConsumerProofs

(* Every step is a step of the consumer with some handler, or one the      *)
(* consumer takes no part in.                                              *)
LEMMA FraudStepsAreConsumerSteps == [FraudNext]_detectorVars => [ConsumerNext]_consumerVars
<1> SUFFICES ASSUME [FraudNext]_detectorVars PROVE ConsumerNext \/ UNCHANGED consumerVars
  OBVIOUS
<1>1. ASSUME NEW s \in Slots, Handle(s) PROVE SlotStep(s) \/ UNCHANGED consumerVars
  BY <1>1 DEF Handle, SlotStep, Start, Garbled, IgnoreFlag, Claim, Skip, SeenFails, SeenRepeats,
              Incr, IncrRepeats, IncrFails, Expire, ExpireFails, NotFlagged, PublishFlag,
              PublishFails, Abort, ReturnNil, ReturnError
<1>2. ASSUME NEW p \in Pods, Die(p) PROVE Kill(p)
  BY <1>2 DEF Die
<1>3. ASSUME NEW u \in Users, WindowEnds(u) PROVE UNCHANGED consumerVars
  BY <1>3 DEF WindowEnds
<1>4. ASSUME Around PROVE ConsumerNext
  BY <1>4 DEF Around, ConsumerNext, SlotStep
<1>5. ASSUME UNCHANGED detectorVars PROVE UNCHANGED consumerVars
  BY <1>5 DEF detectorVars
<1> QED
  BY <1>1, <1>2, <1>3, <1>4, <1>5 DEF FraudNext, ConsumerNext

(* So what holds of the consumer holds here.                               *)
THEOREM DetectorImplementsConsumer == FraudSafeSpec => ConsumerSafeSpec
<1>1. FraudInit => ConsumerInit
  BY DEF FraudInit
<1> QED
  BY <1>1, FraudStepsAreConsumerSteps, PTL DEF FraudSafeSpec, ConsumerSafeSpec

-----------------------------------------------------------------------------
(* The parts of the invariant.                                             *)

DetectorTypeOK ==
  /\ step \in [Slots -> {"none", "claim", "incr", "expire", "publish"}]
  /\ count \in [Slots -> Nat]
  /\ claimed \subseteq Messages
  /\ counter \in [Users -> Nat]
  /\ windowed \in [Users -> BOOLEAN]
  /\ windows \in 0 .. MaxWindows
  /\ counted \in [Messages -> Nat]
  /\ repeated \in [Messages -> Nat]
  /\ suspect \cup flagged \cup aborted \subseteq Messages
  /\ unbounded \subseteq Users

\* every message: its claim, its owner and what became of it
Claims == PhasesMatch /\ OwnersAreUnique /\ CountedOnce /\ ClaimsComeFirst
            /\ ClaimsExplained /\ AcksExplained

\* every user: the counter and its window
Windows ==
  /\ \A u \in Users : windowed[u] => counter[u] > 0
  /\ CountsAreBounded
  /\ WindowsHaveOneSetter

(* The invariant is the consumer's and the handler's own.                  *)
LEMMA FraudIInvParts == FraudIInv <=> ConsumerIInv /\ DetectorTypeOK /\ Claims /\ Windows
BY DEF FraudIInv, Claims, Windows, FraudTypeOK, DetectorTypeOK, ConsumerIInv

(* The same, of the state after a step.                                    *)
LEMMA FraudIInvPartsPrimed ==
  FraudIInv' <=> ConsumerIInv' /\ DetectorTypeOK' /\ Claims' /\ Windows'
BY DEF FraudIInv, Claims, Windows, FraudTypeOK, DetectorTypeOK, ConsumerIInv

(* Nothing is claimed or counted in the initial state.                     *)
LEMMA FraudStarts == FraudInit => FraudIInv
<1> SUFFICES ASSUME FraudInit PROVE FraudIInv
  OBVIOUS
<1>1. ConsumerIInv
  BY ConsumerStarts DEF FraudInit
<1>2. DetectorTypeOK
  BY FraudAssumption DEF FraudAssumption, FraudInit, DetectorTypeOK
<1>3. Claims
  BY DEF FraudInit, ConsumerInit, Claims, PhasesMatch, OwnersAreUnique, CountedOnce,
         ClaimsComeFirst, NotCountedYet, ClaimsExplained, AcksExplained, Owner
<1>4. Windows
  BY DEF FraudInit, Windows, CountsAreBounded, WindowsHaveOneSetter
<1> QED
  BY <1>1, <1>2, <1>3, <1>4, FraudIInvParts

-----------------------------------------------------------------------------
(* What a handler's step is, slot by slot.                                 *)

\* a step of the handler in slot s
Alone(s) ==
  \A t \in Slots \ {s} :
     step'[t] = step[t] /\ slot'[t] = slot[t] /\ job'[t] = job[t] /\ count'[t] = count[t]

\* the handler goes on with the same message
GoesOn(s, l) ==
  step' = [step EXCEPT ![s] = l] /\ slot' = slot /\ job' = job

\* it returned: the slot works on nothing any more, or deletes the message
Returns(s) ==
  /\ step' = [step EXCEPT ![s] = "none"]
  /\ \/ slot'[s] = "free"
     \/ slot'[s] = "deleting" /\ job'[s] = job[s]

(* A handler's step disturbs no other slot, and the queue not at all.      *)
LEMMA HandlersWorkAlone ==
  ASSUME NEW s \in Slots, ConsumerIInv, DetectorTypeOK, Handle(s)
  PROVE  /\ Alone(s)
         /\ \A t \in Slots \ {s} : \A m \in Messages : Owner(t, m)' <=> Owner(t, m)
         /\ \A t \in Slots \ {s} : step[t] # "none" /\ slot[t] = "handling" => Msg(t)' = Msg(t)
         /\ queue' = queue /\ overlapped' = overlapped /\ windows' = windows
<1> USE DEF ConsumerIInv, ConsumerTypeOK, DetectorTypeOK
<1>1. Alone(s)
  <2>1. CASE Start(s) \/ Claim(s) \/ Incr(s) \/ IncrRepeats(s) \/ Expire(s)
    BY <2>1 DEF Alone, Goto, Start, Claim, Incr, IncrRepeats, Expire, Dispatch, consumerVars
  <2>2. CASE Garbled(s) \/ IgnoreFlag(s) \/ Skip(s) \/ SeenFails(s) \/ SeenRepeats(s)
             \/ IncrFails(s) \/ ExpireFails(s) \/ NotFlagged(s) \/ PublishFlag(s) \/ PublishFails(s)
    <3>1. ReturnNil(s) \/ ReturnError(s)
      BY <2>2 DEF Garbled, IgnoreFlag, Skip, SeenFails, SeenRepeats, IncrFails, ExpireFails,
                  NotFlagged, PublishFlag, PublishFails, Abort
    <3> QED
      BY <3>1 DEF Alone, ReturnNil, ReturnError, HandlerOK, HandlerError, Release, Goto, Forget
  <2> QED
    BY <2>1, <2>2 DEF Handle
<1>2. \A t \in Slots \ {s} : \A m \in Messages : Owner(t, m)' <=> Owner(t, m)
  BY <1>1 DEF Alone, Owner, Msg
<1>3. \A t \in Slots \ {s} : step[t] # "none" /\ slot[t] = "handling" => Msg(t)' = Msg(t)
  BY <1>1 DEF Alone, Msg
<1>4. queue' = queue /\ overlapped' = overlapped /\ windows' = windows
  BY DEF Handle, Start, Garbled, IgnoreFlag, Claim, Skip, SeenFails, SeenRepeats, Incr, IncrRepeats,
         IncrFails, Expire, ExpireFails, NotFlagged, PublishFlag, PublishFails, Abort, ReturnNil,
         ReturnError, Dispatch, HandlerOK, HandlerError, consumerVars
<1> QED
  BY <1>1, <1>2, <1>3, <1>4

(* A handler works on a message of its user, and one in the claim step may *)
(* be the first to claim it.                                               *)
LEMMA HandlersHaveMessages ==
  ASSUME ConsumerIInv, DetectorTypeOK, PhasesMatch, NEW s \in Slots, step[s] # "none"
  PROVE  Msg(s) \in Messages /\ User(s) \in Users /\ slot[s] = "handling"
BY FraudAssumption DEF FraudAssumption, ConsumerIInv, PhasesMatch, BusySlotsHaveJobs, Msg, User

(* The handler's steps keep the types.                                     *)
LEMMA HandlersKeepTypes ==
  ASSUME ConsumerIInv, DetectorTypeOK, PhasesMatch, NEW s \in Slots, Handle(s)
  PROVE  DetectorTypeOK'
<1> USE DEF DetectorTypeOK
<1>1. step[s] # "none" => Msg(s) \in Messages /\ User(s) \in Users
  BY HandlersHaveMessages
<1>2. CASE Start(s)
  BY <1>2 DEF Start, Goto, fraudHistory
<1>3. CASE Garbled(s) \/ IgnoreFlag(s) \/ NotFlagged(s)
  BY <1>3 DEF Garbled, IgnoreFlag, NotFlagged, ReturnNil, ReturnError, Goto, Forget, fraudHistory
<1>4. CASE Claim(s)
  BY <1>1, <1>4 DEF Claim, AtSeen, Goto, fraudHistory
<1>5. CASE Skip(s) \/ SeenFails(s) \/ SeenRepeats(s)
  BY <1>1, <1>5 DEF Skip, SeenFails, SeenRepeats, AtSeen, Abort, ReturnNil, ReturnError, Goto, Forget
<1>6. CASE Incr(s)
  <2>1. Msg(s) \in Messages /\ User(s) \in Users
    BY <1>1, <1>6 DEF Incr
  <2> QED
    BY <1>6, <2>1 DEF Incr, CountUp, Goto
<1>7. CASE IncrRepeats(s)
  <2>1. Msg(s) \in Messages /\ User(s) \in Users
    BY <1>1, <1>7 DEF IncrRepeats
  <2> QED
    BY <1>7, <2>1 DEF IncrRepeats, CountUp, Goto
<1>8. CASE IncrFails(s)
  <2>1. Msg(s) \in Messages /\ User(s) \in Users
    BY <1>1, <1>8 DEF IncrFails
  <2>2. counter' \in [Users -> Nat] /\ counted' \in [Messages -> Nat] /\ unbounded' \subseteq Users
    BY <1>8, <2>1 DEF IncrFails, CountUp
  <2> QED
    BY <1>8, <2>1, <2>2 DEF IncrFails, Abort, ReturnError, Goto, Forget
<1>9. CASE Expire(s)
  BY <1>1, <1>9 DEF Expire, Goto, fraudHistory
<1>10. CASE ExpireFails(s) \/ PublishFlag(s) \/ PublishFails(s)
  BY <1>1, <1>10 DEF ExpireFails, PublishFlag, PublishFails, Abort, ReturnNil, ReturnError, Goto, Forget
<1> QED
  BY <1>2, <1>3, <1>4, <1>5, <1>6, <1>7, <1>8, <1>9, <1>10 DEF Handle

-----------------------------------------------------------------------------
(* The claims.                                                             *)

(* A handler may return when it knows what became of the event it claimed, *)
(* or has put it down as aborted, or leaves it to the queue.               *)
LEMMA ReturnsExplained ==
  ASSUME ConsumerIInv, DetectorTypeOK, Claims, NEW s \in Slots, Handle(s), Returns(s),
         step[s] # "none",
         claimed' = claimed \/ claimed' = claimed \cup {Msg(s)},
         \/ counted' = counted
         \/ step[s] = "incr" /\ counted' = [counted EXCEPT ![Msg(s)] = @ + 1],
         UNCHANGED <<suspect, repeated>>,
         flagged \subseteq flagged', aborted \subseteq aborted',
         \A m \in Messages : m = Msg(s) /\ KindOf[m] = "event" =>
            /\ slot'[s] = "deleting" => Done(m)' \/ m \in aborted' \cup overlapped
            /\ claimed' # claimed \/ step[s] # "claim" => Done(m)' \/ m \in aborted'
  PROVE  Claims'
<1> USE DEF ConsumerIInv, ConsumerTypeOK, DetectorTypeOK, Claims
<1>1. /\ Alone(s) /\ queue' = queue /\ overlapped' = overlapped
      /\ \A t \in Slots \ {s} : \A m \in Messages : Owner(t, m)' <=> Owner(t, m)
      /\ \A t \in Slots \ {s} : step[t] # "none" /\ slot[t] = "handling" => Msg(t)' = Msg(t)
  BY HandlersWorkAlone
<1>2. Msg(s) \in Messages /\ slot[s] = "handling"
  BY HandlersHaveMessages
<1>3. \A m \in Messages : ~Owner(s, m)'
  BY DEF Returns, Owner
<1>4. PhasesMatch'
  <2>1. ASSUME NEW t \in Slots \ {s}
        PROVE  /\ step'[t] # "none" <=> slot'[t] = "handling"
               /\ step'[t] \in {"incr", "expire", "publish"} => Msg(t)' \in claimed'
    BY <1>1, <2>1 DEF PhasesMatch, Alone
  <2>2. step'[s] = "none" /\ slot'[s] # "handling"
    BY DEF Returns
  <2> QED
    BY <2>1, <2>2 DEF PhasesMatch
<1>5. OwnersAreUnique'
  BY <1>1, <1>3 DEF OwnersAreUnique
<1>6. counted' # counted => Msg(s) \in claimed /\ NotCountedYet(Msg(s))
                            /\ \A t \in Slots \ {s} : ~Owner(t, Msg(s))
  BY <1>2 DEF PhasesMatch, ClaimsComeFirst, OwnersAreUnique, Owner
<1>7. \A m \in Messages : counted'[m] = counted[m] \/ (m = Msg(s) /\ counted'[m] = counted[m] + 1)
  BY <1>2
<1>8. CountedOnce'
  BY <1>2, <1>6, <1>7 DEF CountedOnce, NotCountedYet
<1>9. ClaimsComeFirst'
  <2>1. \A m \in Messages \ claimed' : NotCountedYet(m)'
    BY <1>6, <1>7 DEF ClaimsComeFirst, NotCountedYet
  <2>2. ASSUME NEW t \in Slots, step'[t] # "none"
        PROVE  /\ step'[t] = "incr" => NotCountedYet(Msg(t))'
               /\ step'[t] \in {"expire", "publish"} =>
                    counted'[Msg(t)'] >= 1 /\ (Msg(t)' \in suspect' => count'[t] > Threshold)
    <3>1. t # s /\ step'[t] = step[t] /\ count'[t] = count[t]
      BY <1>1, <2>2 DEF Returns, Alone
    <3>2. Msg(t)' = Msg(t) /\ Msg(t) \in Messages
      BY <1>1, <2>2, <3>1, HandlersHaveMessages
    <3>3. step[t] \in {"incr", "expire", "publish"} => counted'[Msg(t)] = counted[Msg(t)]
      <4>1. step[t] \in {"incr", "expire", "publish"} => Owner(t, Msg(t))
        BY DEF Owner
      <4> QED
        BY <4>1, <1>6, <1>7, <3>1, <3>2
    <3> QED
      BY <3>1, <3>2, <3>3 DEF ClaimsComeFirst, NotCountedYet
  <2> QED
    BY <2>1, <2>2 DEF ClaimsComeFirst
<1>10. \A m \in Messages : Done(m) => Done(m)'
  BY <1>7 DEF Done
<1>11. ClaimsExplained'
  <2> SUFFICES ASSUME NEW m \in Messages, m \in claimed', KindOf[m] = "event",
                      ~Done(m)', m \notin aborted'
               PROVE  \E t \in Slots : Owner(t, m)'
    BY <1>2 DEF ClaimsExplained
  <2>1. m \in claimed /\ ~Owner(s, m)
    <3>1. CASE m = Msg(s)
      BY <3>1 DEF Owner
    <3>2. CASE m # Msg(s)
      BY <3>2 DEF Owner
    <3> QED
      BY <3>1, <3>2
  <2>2. PICK t \in Slots : Owner(t, m)
    BY <1>10, <2>1 DEF ClaimsExplained
  <2> QED
    BY <1>1, <2>1, <2>2
<1>12. AcksExplained'
  <2> SUFFICES ASSUME NEW m \in Messages, KindOf[m] = "event",
                      queue[m] = "deleted" \/ \E t \in Slots : slot'[t] = "deleting" /\ Msg(t)' = m
               PROVE  Done(m)' \/ m \in aborted' \cup overlapped
    BY <1>1 DEF AcksExplained
  <2>1. CASE queue[m] = "deleted" \/ \E t \in Slots : slot[t] = "deleting" /\ Msg(t) = m
    BY <1>10, <2>1 DEF AcksExplained
  <2>2. ASSUME NEW t \in Slots, slot'[t] = "deleting", Msg(t)' = m
        PROVE  t = s \/ (slot[t] = "deleting" /\ Msg(t) = m)
    BY <1>1, <2>2 DEF Alone, Msg
  <2>3. slot'[s] = "deleting" => Msg(s)' = Msg(s)
    BY DEF Returns, Msg
  <2> QED
    BY <2>1, <2>2, <2>3
<1> QED
  BY <1>4, <1>5, <1>8, <1>9, <1>11, <1>12

(* So does whatever returns.                                               *)
LEMMA EndsKeepClaims ==
  ASSUME ConsumerIInv, DetectorTypeOK, Claims, NEW s \in Slots, Handle(s),
         \/ Garbled(s) \/ IgnoreFlag(s) \/ Skip(s) \/ SeenFails(s) \/ SeenRepeats(s)
         \/ IncrFails(s) \/ ExpireFails(s) \/ NotFlagged(s) \/ PublishFlag(s) \/ PublishFails(s)
  PROVE  Claims'
<1> USE DEF ConsumerIInv, ConsumerTypeOK, DetectorTypeOK
<1>1. /\ step[s] # "none"
      /\ ReturnNil(s) \/ ReturnError(s)
  BY DEF Garbled, IgnoreFlag, Skip, SeenFails, SeenRepeats, AtSeen, IncrFails, ExpireFails,
         NotFlagged, PublishFlag, PublishFails, Abort
<1>2. Returns(s) /\ (ReturnError(s) => slot'[s] = "free")
  BY <1>1 DEF Returns, ReturnNil, ReturnError, HandlerOK, HandlerError, Release, Goto
<1>3. Msg(s) \in Messages /\ slot[s] = "handling"
  BY <1>1, HandlersHaveMessages DEF Claims
<1>4. CASE Garbled(s) \/ IgnoreFlag(s)
  <2>1. /\ UNCHANGED <<claimed, counted, suspect, repeated, flagged, aborted>>
        /\ step[s] = "claim" /\ KindOf[Msg(s)] # "event"
    BY <1>4 DEF Garbled, IgnoreFlag, ReturnNil, ReturnError, fraudHistory
  <2> QED
    BY <1>1, <1>2, <2>1, ReturnsExplained
<1>5. CASE Skip(s)
  <2>1. /\ UNCHANGED <<claimed, counted, suspect, repeated, flagged, aborted>>
        /\ step[s] = "claim" /\ Msg(s) \in claimed
    BY <1>5 DEF Skip, AtSeen, ReturnNil
  <2>2. ASSUME NEW t \in Slots, Owner(t, Msg(s)) PROVE Msg(s) \in overlapped
    <3>1. t # s /\ Busy(s, Msg(s)) /\ Busy(t, Msg(s))
      BY <1>3, <2>1, <2>2 DEF Owner, Busy, Msg, PhasesMatch, Claims
    <3> QED
      BY <1>3, <3>1 DEF OverlapsAreTimeouts
  <2>3. \A m \in Messages : m = Msg(s) /\ KindOf[m] = "event" =>
           Done(m)' \/ m \in aborted' \cup overlapped
    <3>1. \A m \in Messages : Done(m)' <=> Done(m)
      BY <2>1 DEF Done
    <3> QED
      BY <2>1, <2>2, <3>1 DEF Claims, ClaimsExplained
  <2> QED
    BY <1>1, <1>2, <2>1, <2>3, ReturnsExplained
<1>6. CASE SeenFails(s) \/ SeenRepeats(s)
  <2>1. /\ UNCHANGED <<counted, suspect, repeated, flagged>> /\ step[s] = "claim"
        /\ \/ claimed' = claimed /\ aborted' = aborted /\ slot'[s] = "free"
           \/ claimed' = claimed \cup {Msg(s)} /\ aborted' = aborted \cup {Msg(s)}
    BY <1>2, <1>6 DEF SeenFails, SeenRepeats, AtSeen, Abort
  <2> QED
    BY <1>1, <1>2, <2>1, ReturnsExplained
<1>7. CASE IncrFails(s) \/ ExpireFails(s) \/ PublishFails(s)
  <2>1. /\ UNCHANGED <<claimed, suspect, repeated>> /\ flagged \subseteq flagged'
        /\ aborted' = aborted \cup {Msg(s)}
        /\ \/ counted' = counted
           \/ step[s] = "incr" /\ counted' = [counted EXCEPT ![Msg(s)] = @ + 1]
    BY <1>7 DEF IncrFails, ExpireFails, PublishFails, Abort, CountUp
  <2> QED
    BY <1>1, <1>2, <2>1, ReturnsExplained
<1>8. CASE NotFlagged(s) \/ PublishFlag(s)
  <2>1. /\ UNCHANGED <<claimed, counted, suspect, repeated, aborted>> /\ flagged \subseteq flagged'
        /\ step[s] = "publish"
        /\ ~(count[s] > Threshold) \/ Msg(s) \in flagged'
    BY <1>8, FraudAssumption DEF FraudAssumption, NotFlagged, PublishFlag, fraudHistory
  <2>2. \A m \in Messages : m = Msg(s) => Done(m)'
    BY <2>1 DEF Done, Claims, ClaimsComeFirst
  <2> QED
    BY <1>1, <1>2, <2>1, <2>2, ReturnsExplained
<1> QED
  BY <1>4, <1>5, <1>6, <1>7, <1>8

(* A handler that starts has claimed nothing yet.                          *)
LEMMA StartKeepsClaims ==
  ASSUME ConsumerIInv, DetectorTypeOK, Claims, NEW s \in Slots, Handle(s), Start(s)
  PROVE  Claims'
<1> USE DEF ConsumerIInv, ConsumerTypeOK, DetectorTypeOK, Claims
<1>1. /\ Alone(s) /\ queue' = queue /\ overlapped' = overlapped
      /\ \A t \in Slots \ {s} : \A m \in Messages : Owner(t, m)' <=> Owner(t, m)
  BY HandlersWorkAlone
<1>2. /\ slot'[s] = "handling" /\ step' = [step EXCEPT ![s] = "claim"] /\ slot[s] = "free"
      /\ UNCHANGED <<count, claimed, counted, repeated, suspect, flagged, aborted>>
  BY DEF Start, Dispatch, Goto, fraudHistory
<1>3. \A t \in Slots : \A m \in Messages : Owner(t, m)' <=> Owner(t, m)
  BY <1>1, <1>2 DEF Owner, PhasesMatch
<1>4. \A m : /\ NotCountedYet(m)' <=> NotCountedYet(m)
             /\ Done(m)' <=> Done(m)
  BY <1>2 DEF NotCountedYet, Done
<1>5. PhasesMatch'
  BY <1>1, <1>2 DEF PhasesMatch, Alone, Msg
<1>6. OwnersAreUnique' /\ CountedOnce' /\ ClaimsExplained'
  BY <1>2, <1>3, <1>4 DEF OwnersAreUnique, CountedOnce, ClaimsExplained
<1>7. ClaimsComeFirst'
  BY <1>1, <1>2 DEF ClaimsComeFirst, Alone, Msg, NotCountedYet
<1>8. AcksExplained'
  BY <1>1, <1>2, <1>4 DEF AcksExplained, Alone, Msg
<1> QED
  BY <1>5, <1>6, <1>7, <1>8

(* A claim is new, so its message has no owner, and nothing was counted.   *)
LEMMA ClaimKeepsClaims ==
  ASSUME ConsumerIInv, DetectorTypeOK, Claims, NEW s \in Slots, Handle(s), Claim(s)
  PROVE  Claims'
<1> USE DEF ConsumerIInv, ConsumerTypeOK, DetectorTypeOK, Claims
<1> DEFINE m == Msg(s)
<1>1. /\ Alone(s) /\ queue' = queue /\ overlapped' = overlapped
      /\ \A t \in Slots \ {s} : \A n \in Messages : Owner(t, n)' <=> Owner(t, n)
  BY HandlersWorkAlone
<1>2. /\ step[s] = "claim" /\ step' = [step EXCEPT ![s] = "incr"]
      /\ m \notin claimed /\ claimed' = claimed \cup {m}
      /\ UNCHANGED <<slot, job, count, counted, repeated, suspect, flagged, aborted>>
  BY DEF Claim, AtSeen, Goto, consumerVars, fraudHistory
<1>3. m \in Messages /\ slot[s] = "handling"
  BY <1>2, HandlersHaveMessages
<1>4. \A n \in Messages : Owner(s, n)' <=> n = m
  BY <1>2 DEF Owner, Msg
<1>5. \A t \in Slots : ~Owner(t, m)
  BY <1>2 DEF Owner, PhasesMatch
<1>6. \A n : /\ NotCountedYet(n)' <=> NotCountedYet(n)
             /\ Done(n)' <=> Done(n)
  BY <1>2 DEF NotCountedYet, Done
<1>7. PhasesMatch'
  BY <1>1, <1>2, <1>3 DEF PhasesMatch, Alone, Msg
<1>8. OwnersAreUnique'
  BY <1>1, <1>4, <1>5 DEF OwnersAreUnique
<1>9. CountedOnce'
  BY <1>2 DEF CountedOnce
<1>10. ClaimsComeFirst'
  <2>1. \A n \in Messages \ claimed' : NotCountedYet(n)'
    BY <1>2, <1>6 DEF ClaimsComeFirst
  <2>2. NotCountedYet(m)
    BY <1>2, <1>3 DEF ClaimsComeFirst
  <2> QED
    BY <1>1, <1>2, <2>1, <2>2 DEF ClaimsComeFirst, Alone, Msg, NotCountedYet
<1>11. ClaimsExplained'
  <2> SUFFICES ASSUME NEW n \in Messages, n \in claimed', KindOf[n] = "event",
                      ~Done(n), n \notin aborted
               PROVE  \E t \in Slots : Owner(t, n)'
    BY <1>2, <1>3, <1>6 DEF ClaimsExplained
  <2>1. CASE n = m
    BY <1>4, <2>1
  <2>2. CASE n # m
    <3>1. PICK t \in Slots : Owner(t, n)
      BY <1>2, <2>2 DEF ClaimsExplained
    <3>2. t # s
      BY <1>2, <3>1 DEF Owner
    <3> QED
      BY <1>1, <3>1, <3>2
  <2> QED
    BY <2>1, <2>2
<1>12. AcksExplained'
  BY <1>1, <1>2, <1>6 DEF AcksExplained, Msg
<1> QED
  BY <1>7, <1>8, <1>9, <1>10, <1>11, <1>12

(* The owner of a claim counts its event, the first time anybody does.     *)
LEMMA CountKeepsClaims ==
  ASSUME ConsumerIInv, DetectorTypeOK, Claims, NEW s \in Slots, Handle(s), Incr(s) \/ IncrRepeats(s)
  PROVE  Claims'
<1> USE FraudAssumption
<1> USE DEF FraudAssumption, ConsumerIInv, ConsumerTypeOK, DetectorTypeOK, Claims
<1> DEFINE m == Msg(s)
<1>1. /\ Alone(s) /\ queue' = queue /\ overlapped' = overlapped
      /\ \A t \in Slots \ {s} : \A n \in Messages : Owner(t, n)' <=> Owner(t, n)
  BY HandlersWorkAlone
<1>2. step[s] = "incr" /\ Owner(s, m)
  BY DEF Incr, IncrRepeats, Owner
<1>3. m \in Messages /\ User(s) \in Users /\ slot[s] = "handling" /\ m \in claimed
  BY <1>2, HandlersHaveMessages DEF PhasesMatch
<1>4. PICK k \in {1, 2}, l \in {"expire", "publish"} :
        /\ step' = [step EXCEPT ![s] = l]
        /\ counted' = [counted EXCEPT ![m] = @ + k]
        /\ \/ k = 1 /\ repeated' = repeated
           \/ k = 2 /\ repeated' = [repeated EXCEPT ![m] = @ + 1]
        /\ count' = [count EXCEPT ![s] = counter[User(s)] + k]
        /\ suspect' = IF counter[User(s)] + k > Threshold THEN suspect \cup {m} ELSE suspect
        /\ UNCHANGED <<slot, job, claimed, flagged, aborted>>
  <2>1. CASE Incr(s)
    <3> DEFINE l == IF counter[User(s)] + 1 = 1 THEN "expire" ELSE "publish"
    <3>1. l \in {"expire", "publish"}
      OBVIOUS
    <3>2. /\ step' = [step EXCEPT ![s] = l]
          /\ counted' = [counted EXCEPT ![m] = @ + 1] /\ repeated' = repeated
          /\ count' = [count EXCEPT ![s] = counter[User(s)] + 1]
          /\ suspect' = IF counter[User(s)] + 1 > Threshold THEN suspect \cup {m} ELSE suspect
          /\ UNCHANGED <<slot, job, claimed, flagged, aborted>>
      BY <2>1 DEF Incr, CountUp, Goto, consumerVars
    <3>3. 1 \in {1, 2}
      OBVIOUS
    <3> HIDE DEF l, m
    <3> WITNESS 1 \in {1, 2}, l \in {"expire", "publish"}
    <3> QED
      BY <3>2
  <2>2. CASE IncrRepeats(s)
    BY <2>2 DEF IncrRepeats, CountUp, Goto, consumerVars
  <2> QED
    BY <2>1, <2>2
<1>5. NotCountedYet(m) /\ \A t \in Slots \ {s} : ~Owner(t, m)
  BY <1>2, <1>3 DEF ClaimsComeFirst, OwnersAreUnique
<1>6. /\ counted'[m] = k /\ (m \in suspect' => count'[s] > Threshold)
      /\ \A n \in Messages \ {m} : /\ counted'[n] = counted[n] /\ repeated'[n] = repeated[n]
                                   /\ n \in suspect' <=> n \in suspect
  BY <1>3, <1>4, <1>5 DEF NotCountedYet
<1>7. \A t \in Slots : Msg(t)' = Msg(t)
  BY <1>4 DEF Msg
<1>8. \A t \in Slots : \A n \in Messages : Owner(t, n)' <=> Owner(t, n)
  BY <1>1, <1>2, <1>4, <1>7 DEF Owner
<1>9. PhasesMatch'
  BY <1>1, <1>2, <1>3, <1>4, <1>7 DEF PhasesMatch, Alone
<1>10. OwnersAreUnique'
  BY <1>8 DEF OwnersAreUnique
<1>11. CountedOnce'
  <2>1. counted'[m] <= 1 + repeated'[m]
    BY <1>3, <1>4, <1>6
  <2> QED
    BY <1>6, <2>1 DEF CountedOnce
<1>12. ClaimsComeFirst'
  <2>1. \A n \in Messages \ claimed' : NotCountedYet(n)'
    BY <1>3, <1>4, <1>6 DEF ClaimsComeFirst, NotCountedYet
  <2>2. ASSUME NEW t \in Slots \ {s}, step[t] \in {"incr", "expire", "publish"}
        PROVE  /\ Msg(t) # m /\ Msg(t) \in Messages
               /\ step'[t] = step[t] /\ count'[t] = count[t]
    BY <1>1, <1>5, <2>2, HandlersHaveMessages DEF Owner, Alone
  <2>3. ASSUME NEW t \in Slots
        PROVE  /\ step'[t] = "incr" => NotCountedYet(Msg(t))'
               /\ step'[t] \in {"expire", "publish"} =>
                    counted'[Msg(t)] >= 1 /\ (Msg(t) \in suspect' => count'[t] > Threshold)
    <3>1. CASE t = s
      <4>1. step'[s] # "incr"
        BY <1>4
      <4>2. counted'[m] >= 1 /\ (m \in suspect' => count'[s] > Threshold)
        BY <1>4, <1>6
      <4> QED
        BY <3>1, <4>1, <4>2
    <3>2. CASE t # s
      BY <1>1, <1>6, <1>7, <2>2, <3>2 DEF Alone, ClaimsComeFirst, NotCountedYet
    <3> QED
      BY <3>1, <3>2
  <2> QED
    BY <1>7, <2>1, <2>3 DEF ClaimsComeFirst
<1>13. \A n \in Messages : Done(n) => Done(n)' 
  BY <1>4, <1>5, <1>6 DEF Done, NotCountedYet
<1>14. ClaimsExplained'
  BY <1>4, <1>8, <1>13 DEF ClaimsExplained
<1>15. AcksExplained'
  BY <1>1, <1>4, <1>7, <1>13 DEF AcksExplained
<1> QED
  BY <1>9, <1>10, <1>11, <1>12, <1>14, <1>15

(* Setting the window concerns no message.                                 *)
LEMMA ExpireKeepsClaims ==
  ASSUME ConsumerIInv, DetectorTypeOK, Claims, NEW s \in Slots, Handle(s), Expire(s)
  PROVE  Claims'
<1> USE DEF ConsumerIInv, ConsumerTypeOK, DetectorTypeOK, Claims
<1>1. /\ step[s] = "expire" /\ step' = [step EXCEPT ![s] = "publish"]
      /\ UNCHANGED <<queue, overlapped, slot, job, count, claimed, counted, repeated, suspect,
                     flagged, aborted>>
  BY DEF Expire, Goto, consumerVars, fraudHistory
<1>2. \A t \in Slots : Msg(t)' = Msg(t) /\ \A n \in Messages : Owner(t, n)' <=> Owner(t, n)
  BY <1>1 DEF Owner, Msg
<1>3. \A n : /\ NotCountedYet(n)' <=> NotCountedYet(n)
             /\ Done(n)' <=> Done(n)
  BY <1>1 DEF NotCountedYet, Done
<1>4. PhasesMatch'
  BY <1>1, <1>2 DEF PhasesMatch
<1>5. OwnersAreUnique' /\ CountedOnce' /\ ClaimsExplained'
  BY <1>1, <1>2, <1>3 DEF OwnersAreUnique, CountedOnce, ClaimsExplained
<1>6. ClaimsComeFirst'
  BY <1>1, <1>2 DEF ClaimsComeFirst, NotCountedYet
<1>7. AcksExplained'
  BY <1>1, <1>2, <1>3 DEF AcksExplained
<1> QED
  BY <1>4, <1>5, <1>6, <1>7

(* So every step of a handler keeps the claims.                            *)
LEMMA HandlersKeepClaims ==
  ASSUME ConsumerIInv, DetectorTypeOK, Claims, NEW s \in Slots, Handle(s)
  PROVE  Claims'
BY EndsKeepClaims, StartKeepsClaims, ClaimKeepsClaims, CountKeepsClaims, ExpireKeepsClaims DEF Handle

-----------------------------------------------------------------------------
(* The windows.                                                            *)

(* A step that leaves the counters and whoever is about to set a window    *)
(* alone keeps the windows.                                                *)
LEMMA WindowsFramed ==
  ASSUME Windows, UNCHANGED <<counter, windowed>>, unbounded \subseteq unbounded',
         \A t \in Slots : step'[t] = "expire" <=> step[t] = "expire",
         \A t \in Slots : step[t] = "expire" => User(t)' = User(t)
  PROVE  Windows'
<1>1. CountsAreBounded'
  BY DEF Windows, CountsAreBounded
<1>2. WindowsHaveOneSetter'
  BY DEF Windows, WindowsHaveOneSetter
<1> QED
  BY <1>1, <1>2 DEF Windows

(* The first count of a user makes its handler the setter of the window:   *)
(* nobody else is one, since the counter was zero.                         *)
LEMMA CountKeepsWindows ==
  ASSUME ConsumerIInv, DetectorTypeOK, PhasesMatch, Windows,
         NEW s \in Slots, Handle(s), Incr(s) \/ IncrRepeats(s) \/ IncrFails(s)
  PROVE  Windows'
<1> USE DEF DetectorTypeOK
<1> DEFINE u == User(s)
<1>1. /\ Alone(s)
      /\ \A t \in Slots \ {s} : step[t] = "expire" => User(t)' = User(t)
  <2>1. \A t \in Slots \ {s} : step[t] # "none" => slot[t] = "handling"
    BY DEF PhasesMatch
  <2> QED
    BY <2>1, HandlersWorkAlone DEF User
<1>2. step[s] = "incr"
  BY DEF Incr, IncrRepeats, IncrFails
<1>3. u \in Users
  BY <1>2, HandlersHaveMessages
<1>4. windowed' = windowed
  BY DEF Incr, IncrRepeats, IncrFails
<1>5. /\ \A v \in Users \ {u} : counter'[v] = counter[v]
      /\ counter'[u] \in Nat /\ counter'[u] >= counter[u] /\ unbounded \subseteq unbounded'
      /\ counter[u] > 0 => step'[s] # "expire"
      /\ counter[u] = 0 /\ counter'[u] > 0 /\ u \notin unbounded' => step'[s] = "expire" /\ User(s)' = u
  <2>1. CASE Incr(s)
    <3>1. /\ counter' = [counter EXCEPT ![u] = @ + 1] /\ unbounded' = unbounded
          /\ step' = [step EXCEPT ![s] = IF counter[u] + 1 = 1 THEN "expire" ELSE "publish"]
          /\ job' = job
      BY <2>1 DEF Incr, CountUp, Goto, consumerVars
    <3> QED
      BY <1>3, <3>1 DEF User, Msg
  <2>2. CASE IncrRepeats(s)
    <3>1. /\ counter' = [counter EXCEPT ![u] = @ + 2] /\ step' = [step EXCEPT ![s] = "publish"]
          /\ unbounded' = IF counter[u] + 2 = 2 THEN unbounded \cup {u} ELSE unbounded
      BY <2>2 DEF IncrRepeats, CountUp, Goto
    <3> QED
      BY <1>3, <3>1
  <2>3. CASE IncrFails(s)
    <3>1. /\ step' = [step EXCEPT ![s] = "none"]
          /\ \/ UNCHANGED <<counter, unbounded>>
             \/ /\ counter' = [counter EXCEPT ![u] = @ + 1]
                /\ unbounded' = IF counter[u] = 0 THEN unbounded \cup {u} ELSE unbounded
      BY <2>3 DEF IncrFails, CountUp, Abort, ReturnError, Goto
    <3> QED
      BY <1>3, <3>1
  <2> QED
    BY <2>1, <2>2, <2>3
<1>6. \A v \in Users : windowed'[v] => counter'[v] > 0
  BY <1>3, <1>4, <1>5 DEF Windows
<1>7. CountsAreBounded'
  <2> SUFFICES ASSUME NEW v \in Users, counter'[v] > 0, ~windowed[v], v \notin unbounded'
               PROVE  \E t \in Slots : step'[t] = "expire" /\ User(t)' = v
    BY <1>4 DEF CountsAreBounded
  <2>1. CASE counter[v] > 0
    <3>1. PICK t \in Slots : step[t] = "expire" /\ User(t) = v
      BY <1>5, <2>1 DEF Windows, CountsAreBounded
    <3> QED
      BY <1>1, <1>2, <3>1 DEF Alone
  <2>2. CASE counter[v] = 0
    <3>1. v = u
      BY <1>5, <2>2
    <3> QED
      BY <1>5, <2>2, <3>1
  <2> QED
    BY <2>1, <2>2
<1>8. WindowsHaveOneSetter'
  <2>1. \A t \in Slots \ {s} : step'[t] = "expire" <=> step[t] = "expire"
    BY <1>1 DEF Alone
  <2>2. ASSUME NEW t \in Slots, step[t] = "expire" PROVE User(t) \in Users /\ counter[User(t)] > 0
    BY <2>2, HandlersHaveMessages DEF Windows, WindowsHaveOneSetter
  <2>3. ASSUME step'[s] = "expire"
        PROVE  /\ User(s)' = u /\ counter'[u] > 0 /\ ~windowed'[u]
               /\ \A t \in Slots \ {s} : step[t] = "expire" => User(t) # u
    <3>1. Incr(s)
      BY <1>2, <2>3 DEF Incr, IncrRepeats, IncrFails, Goto, Abort, ReturnError
    <3>2. job' = job /\ counter[u] = 0 /\ counter' = [counter EXCEPT ![u] = @ + 1]
      BY <1>3, <1>5, <2>3, <3>1 DEF Incr, CountUp, consumerVars
    <3>3. ~windowed'[u]
      BY <1>3, <1>4, <3>2 DEF Windows
    <3> QED
      BY <1>3, <2>2, <3>2, <3>3 DEF User, Msg
  <2>4. ASSUME NEW t \in Slots \ {s}, step'[t] = "expire"
        PROVE  counter'[User(t)] > 0 /\ ~windowed'[User(t)] /\ User(t)' = User(t)
    <3>1. User(t) \in Users /\ counter[User(t)] > 0 /\ ~windowed[User(t)]
      BY <2>1, <2>2, <2>4 DEF Windows, WindowsHaveOneSetter
    <3> QED
      BY <1>1, <1>4, <1>5, <2>1, <2>4, <3>1
  <2>5. ASSUME NEW t \in Slots, NEW r \in Slots, step'[t] = "expire", step'[r] = "expire",
               User(t)' = User(r)'
        PROVE  t = r
    <3>1. CASE t # s /\ r # s
      BY <2>1, <2>4, <2>5, <3>1 DEF Windows, WindowsHaveOneSetter
    <3>2. CASE t = s \/ r = s
      BY <2>1, <2>3, <2>4, <2>5, <3>2
    <3> QED
      BY <3>1, <3>2
  <2> QED
    BY <2>3, <2>4, <2>5 DEF WindowsHaveOneSetter
<1> QED
  BY <1>6, <1>7, <1>8 DEF Windows

(* Who sets a window, or fails to, was the only one to.                    *)
LEMMA ExpireKeepsWindows ==
  ASSUME ConsumerIInv, DetectorTypeOK, PhasesMatch, Windows,
         NEW s \in Slots, Handle(s), Expire(s) \/ ExpireFails(s)
  PROVE  Windows'
<1> USE DEF DetectorTypeOK
<1> DEFINE u == User(s)
<1>1. /\ Alone(s)
      /\ \A t \in Slots \ {s} : step[t] = "expire" => User(t)' = User(t)
  <2>1. \A t \in Slots \ {s} : step[t] # "none" => slot[t] = "handling"
    BY DEF PhasesMatch
  <2> QED
    BY <2>1, HandlersWorkAlone DEF User
<1>2. /\ step[s] = "expire" /\ step'[s] # "expire" /\ counter' = counter
      /\ \/ windowed' = [windowed EXCEPT ![u] = TRUE] /\ unbounded' = unbounded
         \/ windowed' = windowed /\ unbounded' = unbounded \cup {u}
  BY DEF Expire, ExpireFails, Goto, Abort, ReturnError, fraudHistory
<1>3. /\ u \in Users /\ counter[u] > 0 /\ ~windowed[u]
      /\ \A t \in Slots \ {s} : step[t] = "expire" => User(t) # u
  BY <1>2, HandlersHaveMessages DEF Windows, WindowsHaveOneSetter
<1>4. \A v \in Users : windowed'[v] => counter'[v] > 0
  BY <1>2, <1>3 DEF Windows
<1>5. CountsAreBounded'
  <2> SUFFICES ASSUME NEW v \in Users, counter[v] > 0, ~windowed'[v], v \notin unbounded'
               PROVE  \E t \in Slots : step'[t] = "expire" /\ User(t)' = v
    BY <1>2 DEF CountsAreBounded
  <2>1. v # u
    BY <1>2, <1>3
  <2>2. PICK t \in Slots : step[t] = "expire" /\ User(t) = v
    BY <1>2, <1>3, <2>1 DEF Windows, CountsAreBounded
  <2> QED
    BY <1>1, <2>1, <2>2 DEF Alone
<1>6. WindowsHaveOneSetter'
  <2>1. ASSUME NEW t \in Slots, step'[t] = "expire"
        PROVE  t # s /\ step[t] = "expire" /\ User(t)' = User(t) /\ User(t) \in Users
    <3>1. t # s /\ step[t] = "expire"
      BY <1>1, <1>2, <2>1 DEF Alone
    <3> QED
      BY <1>1, <3>1, HandlersHaveMessages
  <2>2. ASSUME NEW t \in Slots, step'[t] = "expire"
        PROVE  counter[User(t)] > 0 /\ ~windowed'[User(t)]
    BY <1>2, <1>3, <2>1, <2>2 DEF Windows, WindowsHaveOneSetter
  <2> QED
    BY <1>2, <2>1, <2>2 DEF Windows, WindowsHaveOneSetter
<1> QED
  BY <1>4, <1>5, <1>6 DEF Windows

(* Every step of a handler keeps the windows.                              *)
LEMMA HandlersKeepWindows ==
  ASSUME ConsumerIInv, DetectorTypeOK, PhasesMatch, Windows, NEW s \in Slots, Handle(s)
  PROVE  Windows'
<1> USE DEF DetectorTypeOK
<1>1. Alone(s) /\ \A t \in Slots \ {s} : step[t] = "expire" => User(t)' = User(t)
  <2>1. \A t \in Slots \ {s} : step[t] # "none" => slot[t] = "handling"
    BY DEF PhasesMatch
  <2> QED
    BY <2>1, HandlersWorkAlone DEF User
<1>2. ASSUME step[s] # "expire", step'[s] # "expire", UNCHANGED <<counter, windowed, unbounded>>
      PROVE  Windows'
  BY <1>1, <1>2, WindowsFramed DEF Alone
<1>3. CASE Start(s)
  <2>1. step[s] # "expire" /\ slot[s] = "free"
    BY <1>3 DEF Start, Dispatch, PhasesMatch
  <2> QED
    BY <1>2, <1>3, <2>1 DEF Start, Goto, fraudHistory
<1>4. CASE Garbled(s) \/ IgnoreFlag(s) \/ Claim(s) \/ NotFlagged(s)
  BY <1>2, <1>4 DEF Garbled, IgnoreFlag, Claim, NotFlagged, AtSeen, ReturnNil, ReturnError, Goto,
                    fraudHistory
<1>5. CASE Skip(s) \/ SeenFails(s) \/ SeenRepeats(s) \/ PublishFlag(s) \/ PublishFails(s)
  BY <1>2, <1>5 DEF Skip, SeenFails, SeenRepeats, PublishFlag, PublishFails, AtSeen, Abort, ReturnNil,
                    ReturnError, Goto
<1>6. CASE Incr(s) \/ IncrRepeats(s) \/ IncrFails(s)
  BY <1>6, CountKeepsWindows
<1>7. CASE Expire(s) \/ ExpireFails(s)
  BY <1>7, ExpireKeepsWindows
<1> QED
  BY <1>3, <1>4, <1>5, <1>6, <1>7 DEF Handle

-----------------------------------------------------------------------------
(* What happens around the handlers.                                       *)

(* A step that leaves the detector's variables alone and neither starts    *)
(* nor ends a handler keeps the claims as they are.                        *)
LEMMA ClaimsFramed ==
  ASSUME ConsumerIInv, DetectorTypeOK, Claims,
         UNCHANGED <<step, count, claimed, counted, repeated, suspect, flagged, aborted>>,
         overlapped \subseteq overlapped',
         \A s \in Slots : slot'[s] = "handling" <=> slot[s] = "handling",
         \A s \in Slots : slot'[s] # "free" => slot'[s] = slot[s] /\ job'[s] = job[s],
         \A m \in Messages : queue'[m] = "deleted" =>
            queue[m] = "deleted" \/ \E s \in Slots : slot[s] = "deleting" /\ Msg(s) = m
  PROVE  Claims'
<1> USE DEF Claims
<1>1. \A s \in Slots : step[s] # "none" => Msg(s)' = Msg(s)
  BY DEF Msg, PhasesMatch
<1>2. \A s \in Slots : \A m \in Messages : Owner(s, m)' <=> Owner(s, m)
  BY <1>1 DEF Owner
<1>3. \A m : /\ NotCountedYet(m)' <=> NotCountedYet(m)
             /\ Done(m)' <=> Done(m)
  BY DEF NotCountedYet, Done
<1>4. PhasesMatch'
  BY <1>1 DEF PhasesMatch
<1>5. OwnersAreUnique' /\ CountedOnce' /\ ClaimsExplained'
  BY <1>2, <1>3 DEF OwnersAreUnique, CountedOnce, ClaimsExplained, DetectorTypeOK
<1>6. ClaimsComeFirst'
  BY <1>1 DEF ClaimsComeFirst, NotCountedYet
<1>7. AcksExplained'
  BY <1>3 DEF AcksExplained, Msg
<1> QED
  BY <1>4, <1>5, <1>6, <1>7

(* A killed pod's claims are aborted, and the windows it was about to set  *)
(* put down as missing.                                                    *)
LEMMA DeathsAreNoted ==
  ASSUME ConsumerIInv, DetectorTypeOK, Claims, Windows, NEW p \in Pods, Die(p)
  PROVE  DetectorTypeOK' /\ Claims' /\ Windows'
<1> USE DEF ConsumerIInv, ConsumerTypeOK, DetectorTypeOK, Claims
<1> DEFINE lost == {Msg(s) : s \in {t \in SlotsOf(p) : step[t] \in {"incr", "expire", "publish"}}}
<1> DEFINE late == {User(s) : s \in {t \in SlotsOf(p) : step[t] = "expire"}}
<1>1. /\ \A s \in Slots : PodOf[s] = p => step'[s] = "none" /\ slot'[s] = "free"
      /\ \A s \in Slots : PodOf[s] # p =>
           step'[s] = step[s] /\ slot'[s] = slot[s] /\ job'[s] = job[s] /\ count'[s] = count[s]
      /\ step' \in [Slots -> {"none", "claim", "incr", "expire", "publish"}]
      /\ count' \in [Slots -> Nat]
  BY DEF Die, Kill
<1>2. /\ aborted' = aborted \cup lost /\ unbounded' = unbounded \cup late
      /\ UNCHANGED <<queue, overlapped, claimed, counter, windowed, windows, counted, repeated,
                     suspect, flagged>>
  BY DEF Die, Kill
<1>3. \A s \in Slots : step'[s] # "none" =>
         /\ step'[s] = step[s] /\ count'[s] = count[s]
         /\ Msg(s)' = Msg(s) /\ User(s)' = User(s)
  BY <1>1 DEF Msg, User
<1>4. \A s \in Slots : \A m \in Messages :
         /\ Owner(s, m)' => Owner(s, m)
         /\ Owner(s, m) => Owner(s, m)' \/ m \in lost
  BY <1>1, <1>3 DEF Owner, SlotsOf, Msg
<1>5. \A m : /\ NotCountedYet(m)' <=> NotCountedYet(m)
             /\ Done(m)' <=> Done(m)
  BY <1>2 DEF NotCountedYet, Done
<1>6. lost \subseteq Messages /\ late \subseteq Users
  <2>1. \A s \in Slots : step[s] # "none" => Msg(s) \in Messages /\ User(s) \in Users
    BY HandlersHaveMessages
  <2> QED
    BY <2>1 DEF SlotsOf
<1>7. DetectorTypeOK'
  BY <1>1, <1>2, <1>6
<1>8. PhasesMatch'
  BY <1>1, <1>2 DEF PhasesMatch, Msg
<1>9. OwnersAreUnique' /\ CountedOnce'
  BY <1>2, <1>4 DEF OwnersAreUnique, CountedOnce
<1>10. ClaimsComeFirst'
  BY <1>2, <1>3, <1>5 DEF ClaimsComeFirst, NotCountedYet
<1>11. ClaimsExplained'
  BY <1>2, <1>4, <1>5 DEF ClaimsExplained
<1>12. AcksExplained'
  <2>1. ASSUME NEW s \in Slots, slot'[s] = "deleting"
        PROVE  slot[s] = "deleting" /\ Msg(s)' = Msg(s)
    BY <1>1, <2>1 DEF Msg
  <2> QED
    BY <1>2, <1>5, <2>1 DEF AcksExplained
<1>13. Windows'
  <2>1. CountsAreBounded'
    <3> SUFFICES ASSUME NEW u \in Users, counter[u] > 0, ~windowed[u], u \notin unbounded'
                 PROVE  \E t \in Slots : step'[t] = "expire" /\ User(t)' = u
      BY <1>2 DEF CountsAreBounded
    <3>1. PICK t \in Slots : step[t] = "expire" /\ User(t) = u
      BY <1>2 DEF Windows, CountsAreBounded
    <3>2. PodOf[t] # p
      BY <1>2, <3>1 DEF SlotsOf
    <3> QED
      BY <1>1, <1>3, <3>1, <3>2
  <2>2. WindowsHaveOneSetter'
    BY <1>2, <1>3 DEF Windows, WindowsHaveOneSetter
  <2> QED
    BY <1>2, <2>1, <2>2 DEF Windows
<1> QED
  BY <1>7, <1>8, <1>9, <1>10, <1>11, <1>12, <1>13

(* A window that ends was set, so nobody is about to set it.               *)
LEMMA EndsOfWindowsKeep ==
  ASSUME ConsumerIInv, DetectorTypeOK, Claims, Windows, NEW u \in Users, WindowEnds(u)
  PROVE  DetectorTypeOK' /\ Claims' /\ Windows'
<1> USE DEF DetectorTypeOK
<1>1. /\ windowed[u] /\ windows < MaxWindows /\ windows' = windows + 1
      /\ counter' = [counter EXCEPT ![u] = 0] /\ windowed' = [windowed EXCEPT ![u] = FALSE]
      /\ UNCHANGED <<consumerVars, step, count, claimed, fraudHistory>>
  BY DEF WindowEnds
<1>2. DetectorTypeOK'
  BY <1>1, FraudAssumption DEF FraudAssumption, fraudHistory
<1>3. Claims'
  BY <1>1, ClaimsFramed DEF consumerVars, fraudHistory
<1>4. \A t \in Slots : User(t)' = User(t) /\ (step[t] = "expire" => User(t) # u)
  BY <1>1 DEF User, Msg, consumerVars, Windows, WindowsHaveOneSetter
<1>5. CountsAreBounded'
  BY <1>1, <1>4 DEF Windows, CountsAreBounded, fraudHistory
<1>6. WindowsHaveOneSetter'
  <2>1. \A t \in Slots : step[t] = "expire" => User(t) \in Users
    BY HandlersHaveMessages DEF Claims
  <2> QED
    BY <1>1, <1>4, <2>1 DEF Windows, WindowsHaveOneSetter
<1> QED
  BY <1>1, <1>2, <1>3, <1>5, <1>6 DEF Windows

(* What the queue and the loop do on their own keeps everything.           *)
LEMMA AroundKeeps ==
  ASSUME ConsumerIInv, DetectorTypeOK, Claims, Windows, Around \/ UNCHANGED detectorVars
  PROVE  DetectorTypeOK' /\ Claims' /\ Windows'
<1> USE DEF ConsumerIInv, ConsumerTypeOK, DetectorTypeOK
<1>1. UNCHANGED fraudVars
  BY DEF Around, detectorVars
<1>2. DetectorTypeOK'
  BY <1>1 DEF fraudVars, fraudHistory
<1>3. ASSUME overlapped \subseteq overlapped',
             \A s \in Slots : slot'[s] = "handling" <=> slot[s] = "handling",
             \A s \in Slots : slot'[s] # "free" => slot'[s] = slot[s] /\ job'[s] = job[s],
             \A m \in Messages : queue'[m] = "deleted" =>
                queue[m] = "deleted" \/ \E s \in Slots : slot[s] = "deleting" /\ Msg(s) = m
      PROVE  Claims' /\ Windows'
  <2>1. Claims'
    BY <1>1, <1>3, ClaimsFramed DEF fraudVars, fraudHistory
  <2>2. \A t \in Slots : step[t] = "expire" => User(t)' = User(t)
    BY <1>3 DEF Claims, PhasesMatch, User, Msg
  <2>3. Windows'
    BY <1>1, <2>2, WindowsFramed DEF fraudVars, fraudHistory
  <2> QED
    BY <2>1, <2>3
<1>4. ASSUME NEW m \in Messages, Send(m) \/ QueueStep(m) PROVE Claims' /\ Windows'
  BY <1>3, <1>4 DEF QueueStep, VisibilityExpires, Redrive, Send
<1>5. ASSUME NEW p \in Pods, Receive(p) \/ ReceiveFails(p) PROVE Claims' /\ Windows'
  BY <1>3, <1>5 DEF Receive, ReceiveFails, Hand
<1>6. ASSUME NEW p \in Pods, Stop(p) \/ Exit(p) PROVE Claims' /\ Windows'
  BY <1>3, <1>6 DEF Stop, Exit
<1>7. ASSUME NEW s \in Slots, HandlerTimeout(s) \/ DeleteFails(s) PROVE Claims' /\ Windows'
  BY <1>3, <1>7 DEF HandlerTimeout, DeleteFails, Release
<1>8. ASSUME NEW s \in Slots, DeleteMessage(s) PROVE Claims' /\ Windows'
  <2>1. Msg(s) \in Messages
    BY <1>8 DEF DeleteMessage, BusySlotsHaveJobs, Msg
  <2>2. \A m \in Messages : queue'[m] = "deleted" => queue[m] = "deleted" \/ m = Msg(s)
    BY <1>8, <2>1 DEF DeleteMessage, Remove, Msg
  <2> QED
    BY <1>3, <1>8, <2>2 DEF DeleteMessage, Release
<1>9. ASSUME UNCHANGED detectorVars PROVE Claims' /\ Windows'
  BY <1>3, <1>9 DEF detectorVars, consumerVars
<1> QED
  BY <1>2, <1>4, <1>5, <1>6, <1>7, <1>8, <1>9 DEF Around, PodStep

(* Every step keeps the invariant.                                         *)
LEMMA FraudKeeps == FraudIInv /\ [FraudNext]_detectorVars => FraudIInv'
<1> SUFFICES ASSUME FraudIInv, [FraudNext]_detectorVars PROVE FraudIInv'
  OBVIOUS
<1>1. ConsumerIInv /\ DetectorTypeOK /\ Claims /\ Windows
  BY FraudIInvParts
<1>2. ConsumerIInv'
  BY <1>1, ConsumerKeeps, FraudStepsAreConsumerSteps
<1>3. DetectorTypeOK' /\ Claims' /\ Windows'
  <2>1. ASSUME NEW s \in Slots, Handle(s) PROVE DetectorTypeOK' /\ Claims' /\ Windows'
    BY <1>1, <2>1, HandlersKeepTypes, HandlersKeepClaims, HandlersKeepWindows DEF Claims
  <2> QED
    BY <1>1, <2>1, DeathsAreNoted, EndsOfWindowsKeep, AroundKeeps DEF FraudNext
<1> QED
  BY <1>2, <1>3, FraudIInvPartsPrimed

-----------------------------------------------------------------------------

(* The inductive invariant holds in every behaviour.                       *)
THEOREM FraudInductive == FraudSafeSpec => []FraudIInv
BY FraudStarts, FraudKeeps, PTL DEF FraudSafeSpec

(* An event counts once, to however many pods it is delivered, except when *)
(* the Redis client repeats an INCR.                                       *)
THEOREM EventsCountOnce == FraudSafeSpec => []CountedOnce
<1>1. FraudIInv => CountedOnce
  BY DEF FraudIInv
<1> QED
  BY <1>1, FraudInductive, PTL

(* No interleaving of handlers leaves a user's counter without a window:   *)
(* only a failed, repeated or interrupted call does.                       *)
THEOREM CountersGetWindows == FraudSafeSpec => []CountsAreBounded
<1>1. FraudIInv => CountsAreBounded
  BY DEF FraudIInv
<1> QED
  BY <1>1, FraudInductive, PTL

(* An event is not deleted uncounted, or unreported when it was suspect,   *)
(* unless a call was cut off after its claim or deliveries overlapped.     *)
THEOREM LostEventsAreExplained == FraudSafeSpec => []LostEventsNeedAborts
<1>1. FraudIInv => LostEventsNeedAborts
  <2> SUFFICES ASSUME FraudIInv, NEW m \in Messages \ (aborted \cup overlapped),
                      queue[m] = "deleted", KindOf[m] = "event"
               PROVE  Done(m)
    BY DEF LostEventsNeedAborts, Done
  <2> QED
    BY DEF FraudIInv, AcksExplained
<1> QED
  BY <1>1, FraudInductive, PTL
==============================================================================
