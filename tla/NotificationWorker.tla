-------------------------- MODULE NotificationWorker --------------------------
(***************************************************************************)
(* notification-worker: the handler of the notifications queue.  It claims *)
(* every message in Redis under its SQS message id (SETNX, dedup.Seen)     *)
(* before it looks at the type, writes the simulated notification, and     *)
(* never gives a claim back: unlike payment-worker it has no Unclaim, and  *)
(* nothing after the claim can fail but the process.                       *)
(***************************************************************************)
EXTENDS SqsConsumer

CONSTANTS
  KindOf,     \* what the body of each message holds
  RedisFails  \* do Redis calls fail while their ctx is alive?

\* OrderConfirmed, FraudFlagged and PaymentFailed are "notified" of
Kinds == {"notified", "other", "garbled"}

ASSUME NoticeAssumption ==
  /\ KindOf \in [Messages -> Kinds]
  /\ RedisFails \in BOOLEAN

VARIABLES
  step,       \* where the handler of each slot is
  claimed,    \* Redis notification:seen:<message id>
  notices,    \* how often the notification of a message was written
  cutOff      \* history: messages whose claim was taken by a call that ended
              \* without knowing of it, or died, before the notification

noticeVars == <<step, claimed, notices, cutOff>>
allVars == <<consumerVars, noticeVars>>

NoticeTypeOK ==
  /\ ConsumerTypeOK
  /\ step \in [Slots -> {"none", "claim", "notify"}]
  /\ claimed \subseteq Messages
  /\ notices \in [Messages -> Nat]
  /\ cutOff \subseteq Messages

NoticeInit ==
  /\ ConsumerInit
  /\ step = [s \in Slots |-> "none"]
  /\ claimed = {}
  /\ notices = [m \in Messages |-> 0]
  /\ cutOff = {}

Msg(s) == job[s][1]

Goto(s, l) == step' = [step EXCEPT ![s] = l]

-----------------------------------------------------------------------------
(* handle.                                                                 *)

Start(s) ==
  /\ Dispatch(s)
  /\ Goto(s, "claim")
  /\ UNCHANGED <<claimed, notices, cutOff>>

\* json.Unmarshal fails, every time
Garbled(s) ==
  /\ step[s] = "claim" /\ KindOf[Msg(s)] = "garbled"
  /\ HandlerError(s)
  /\ Goto(s, "none")
  /\ UNCHANGED <<claimed, notices, cutOff>>

AtSeen(s) == step[s] = "claim" /\ KindOf[Msg(s)] # "garbled"

Claim_GetThenSet(s) ==
  /\ AtSeen(s) /\ ~expired[s]
  /\ claimed' = claimed \cup {Msg(s)}
  /\ Goto(s, "notify")
  /\ UNCHANGED <<consumerVars, notices, cutOff>>
\* Seen: SETNX sets the key
Claim(s) ==
  /\ AtSeen(s) /\ ~expired[s] /\ Msg(s) \notin claimed
  /\ claimed' = claimed \cup {Msg(s)}
  /\ Goto(s, "notify")
  /\ UNCHANGED <<consumerVars, notices, cutOff>>

\* Seen: the key is there already
Skip(s) ==
  /\ AtSeen(s) /\ ~expired[s] /\ Msg(s) \in claimed
  /\ HandlerOK(s)
  /\ Goto(s, "none")
  /\ UNCHANGED <<claimed, notices, cutOff>>

\* SETNX ran, and its caller does not learn that it did
ClaimUnseen(s) ==
  /\ RedisFails /\ ~expired[s] /\ Msg(s) \notin claimed
  /\ claimed' = claimed \cup {Msg(s)}
  /\ cutOff' = cutOff \cup {Msg(s)}

SeenFails_Skips(s) ==
  /\ AtSeen(s)
  /\ RedisFails \/ expired[s]
  /\ HandlerOK(s)
  /\ Goto(s, "none")
  /\ UNCHANGED <<claimed, notices, cutOff>>
\* Seen fails, or ctx is done.  An error does not tell whether SETNX ran.
SeenFails(s) ==
  /\ AtSeen(s)
  /\ RedisFails \/ expired[s]
  /\ HandlerError(s)
  /\ Goto(s, "none")
  /\ ClaimUnseen(s) \/ UNCHANGED <<claimed, cutOff>>
  /\ UNCHANGED notices

\* The reply to SETNX is lost, and the client's own retry finds the key
SeenRepeats(s) ==
  /\ AtSeen(s)
  /\ ClaimUnseen(s)
  /\ HandlerOK(s)
  /\ Goto(s, "none")
  /\ UNCHANGED notices

Notify_Errors(s) ==
  /\ step[s] = "notify"
  /\ HandlerError(s)
  /\ Goto(s, "none")
  /\ UNCHANGED <<claimed, notices, cutOff>>
\* The switch on the type.  Writing the log does not ask whether ctx is done.
Notify(s) ==
  /\ step[s] = "notify"
  /\ notices' = IF KindOf[Msg(s)] = "notified" THEN [notices EXCEPT ![Msg(s)] = @ + 1]
                                               ELSE notices
  /\ HandlerOK(s)
  /\ Goto(s, "none")
  /\ UNCHANGED <<claimed, cutOff>>

-----------------------------------------------------------------------------
(* The consumer around it.                                                 *)

InHand(p) == {Msg(s) : s \in {t \in Slots : PodOf[t] = p /\ step[t] = "notify"}}

Die(p) ==
  /\ Kill(p)
  /\ step' = [s \in Slots |-> IF PodOf[s] = p THEN "none" ELSE step[s]]
  /\ cutOff' = cutOff \cup InHand(p)
  /\ UNCHANGED <<claimed, notices>>

Handle(s) ==
  \/ Start(s) \/ Garbled(s)
  \/ Claim(s) \/ Skip(s) \/ SeenFails(s) \/ SeenRepeats(s)
  \/ Notify(s)

Around ==
  /\ \/ \E m \in Messages : Send(m) \/ QueueStep(m)
     \/ \E p \in Pods : PodStep(p) \/ ReceiveFails(p) \/ Stop(p)
     \/ \E s \in Slots : HandlerTimeout(s) \/ DeleteMessage(s) \/ DeleteFails(s)
  /\ UNCHANGED noticeVars

NoticeNext ==
  \/ \E s \in Slots : Handle(s)
  \/ \E p \in Pods : Die(p)
  \/ Around

NoticeSafeSpec == NoticeInit /\ [][NoticeNext]_allVars

\* as in SqsConsumer: the queue's clock, the polling loop and the goroutines
NoticeSpec ==
  /\ NoticeSafeSpec
  /\ \A m \in Messages : WF_allVars(QueueStep(m) /\ UNCHANGED noticeVars)
  /\ \A p \in Pods : WF_allVars(PodStep(p) /\ UNCHANGED noticeVars)
  /\ \A s \in Slots : WF_allVars(
        Handle(s) \/ ((DeleteMessage(s) \/ DeleteFails(s)) /\ UNCHANGED noticeVars))

-----------------------------------------------------------------------------
(* What the worker guarantees.                                             *)

(* A message is notified of once at most, however often and to however     *)
(* many pods it is delivered at a time.                                    *)
OneNoticePerMessage == \A m \in Messages : notices[m] <= 1

(* A message that is deleted has been notified of, unless its claim was    *)
(* cut off, by a death or by a lost reply, or another delivery of it       *)
(* overlapped: errors and timeouts of the handler lose nothing.            *)
LostNoticesNeedCuts ==
  \A m \in Messages :
     queue[m] = "deleted" /\ KindOf[m] = "notified" /\ notices[m] = 0 =>
       m \in cutOff \cup overlapped

\* m has left the queue, and nothing is owed for it any more
Over(m) ==
  \/ queue[m] = "dead"
  \/ /\ queue[m] = "deleted"
     /\ KindOf[m] = "notified" => notices[m] = 1 \/ m \in cutOff

(* Every message leaves the queue in the end: no handler error, timeout or *)
(* restart leaves it, or the loop, stuck.  And an overlap of deliveries    *)
(* only makes its notification late: if it was deleted before it was       *)
(* notified of, the notification still follows, or its claim was cut off.  *)
NoticesArrive == \A m \in Messages : queue[m] = "visible" ~> Over(m)

-----------------------------------------------------------------------------
(* The inductive invariant behind the safety properties.                   *)

Owner(s, m) == step[s] = "notify" /\ Msg(s) = m

PhasesMatch ==
  \A s \in Slots : /\ step[s] # "none" <=> slot[s] = "handling"
                   /\ step[s] = "notify" => Msg(s) \in claimed

OwnersAreUnique ==
  \A s, t \in Slots : \A m \in Messages : Owner(s, m) /\ Owner(t, m) => s = t

\* no notice before the claim, and none while its owner has yet to write it
NoticesCounted ==
  \A m \in Messages :
     /\ notices[m] <= 1
     /\ m \notin claimed => notices[m] = 0
     /\ \A s \in Slots : Owner(s, m) => notices[m] = 0

ClaimsExplained ==
  \A m \in claimed :
     KindOf[m] = "notified" =>
       notices[m] = 1 \/ m \in cutOff \/ \E s \in Slots : Owner(s, m)

\* whoever is about to delete a message, or did, knows of its notice
AcksExplained ==
  \A m \in Messages :
     /\ KindOf[m] = "notified"
     /\ queue[m] = "deleted" \/ \E s \in Slots : slot[s] = "deleting" /\ Msg(s) = m
     => notices[m] = 1 \/ m \in cutOff \cup overlapped

NoticeIInv ==
  /\ NoticeTypeOK
  /\ ConsumerIInv
  /\ PhasesMatch
  /\ OwnersAreUnique
  /\ NoticesCounted
  /\ ClaimsExplained
  /\ AcksExplained
==============================================================================
