---------------------------- MODULE PaymentWorker ----------------------------
(***************************************************************************)
(* payment-worker: the handler of the payments queue.  It claims a message *)
(* in Redis under its SQS message id (SETNX, dedup.Seen), publishes the    *)
(* outcome of the payment, and releases the claim (DEL, dedup.Unclaim) if  *)
(* publishing failed.  Claims live for 24 h, as long as SQS keeps a        *)
(* message, so no claim expires while its message can still be delivered.  *)
(*                                                                         *)
(* Each step of the handler is a step of the consumer, or leaves the       *)
(* consumer alone.                                                         *)
(***************************************************************************)
EXTENDS SqsConsumer

CONSTANTS
  KindOf,     \* what the body of each message holds
  RedisFails, \* do Redis calls fail while their ctx is alive?
  MaxLost     \* bound on the replies of SNS that are lost for a message

Kinds == {"OrderPlaced", "other", "garbled"}

ASSUME PaymentAssumption ==
  /\ KindOf \in [Messages -> Kinds]
  /\ RedisFails \in BOOLEAN
  /\ MaxLost \in Nat

VARIABLES
  step,       \* where the handler of each slot is
  claimed,    \* Redis payment:seen:<message id>
  published,  \* how often SNS accepted an outcome for the message
  unreported, \* history: how many of these were lost on the worker, which saw
              \* the SDK's next attempt succeed, or its call fail
  stranded    \* history: messages whose claim outlived the handler call that
              \* took it, although that call did not publish

workerVars == <<step, claimed, published, unreported, stranded>>
payVars == <<consumerVars, workerVars>>

PayTypeOK ==
  /\ ConsumerTypeOK
  /\ step \in [Slots -> {"none", "claim", "publish", "unclaim"}]
  /\ claimed \subseteq Messages
  /\ published \in [Messages -> Nat]
  /\ unreported \in [Messages -> Nat]
  /\ stranded \subseteq Messages

PayInit ==
  /\ ConsumerInit
  /\ step = [s \in Slots |-> "none"]
  /\ claimed = {}
  /\ published = [m \in Messages |-> 0]
  /\ unreported = [m \in Messages |-> 0]
  /\ stranded = {}

Msg(s) == job[s][1]

Goto(s, l) == step' = [step EXCEPT ![s] = l]

-----------------------------------------------------------------------------
(* handle, one call on Redis or SNS after the other.                       *)

Start(s) ==
  /\ Dispatch(s)
  /\ Goto(s, "claim")
  /\ UNCHANGED <<claimed, published, unreported, stranded>>

\* json.Unmarshal fails, every time
Garbled(s) ==
  /\ step[s] = "claim" /\ KindOf[Msg(s)] = "garbled"
  /\ HandlerError(s)
  /\ Goto(s, "none")
  /\ UNCHANGED <<claimed, published, unreported, stranded>>

\* evt.Type is not OrderPlaced
Ignore(s) ==
  /\ step[s] = "claim" /\ KindOf[Msg(s)] = "other"
  /\ HandlerOK(s)
  /\ Goto(s, "none")
  /\ UNCHANGED <<claimed, published, unreported, stranded>>

AtSeen(s) == step[s] = "claim" /\ KindOf[Msg(s)] = "OrderPlaced"

Claim_GetThenSet(s) ==
  /\ AtSeen(s) /\ ~expired[s]
  /\ claimed' = claimed \cup {Msg(s)}
  /\ Goto(s, "publish")
  /\ UNCHANGED <<consumerVars, published, unreported, stranded>>
\* Seen: SETNX sets the key
Claim(s) ==
  /\ AtSeen(s) /\ ~expired[s] /\ Msg(s) \notin claimed
  /\ claimed' = claimed \cup {Msg(s)}
  /\ Goto(s, "publish")
  /\ UNCHANGED <<consumerVars, published, unreported, stranded>>

\* Seen: the key is there already
Skip(s) ==
  /\ AtSeen(s) /\ ~expired[s] /\ Msg(s) \in claimed
  /\ HandlerOK(s)
  /\ Goto(s, "none")
  /\ UNCHANGED <<claimed, published, unreported, stranded>>

\* Seen fails, or ctx is done.  An error does not tell whether SETNX ran.
SeenFails(s) ==
  /\ AtSeen(s)
  /\ RedisFails \/ expired[s]
  /\ HandlerError(s)
  /\ Goto(s, "none")
  /\ \/ UNCHANGED <<claimed, stranded>>
     \/ /\ RedisFails /\ ~expired[s] /\ Msg(s) \notin claimed
        /\ claimed' = claimed \cup {Msg(s)}
        /\ stranded' = stranded \cup {Msg(s)}
  /\ UNCHANGED <<published, unreported>>

\* The reply to SETNX is lost, and the client's own retry finds the key
SeenRepeats(s) ==
  /\ RedisFails
  /\ AtSeen(s) /\ ~expired[s] /\ Msg(s) \notin claimed
  /\ claimed' = claimed \cup {Msg(s)}
  /\ stranded' = stranded \cup {Msg(s)}
  /\ HandlerOK(s)
  /\ Goto(s, "none")
  /\ UNCHANGED <<published, unreported>>

\* within one call SNS accepts the event n times, and loses some of its replies
Accepted(m, n, lost) ==
  /\ unreported[m] + lost <= MaxLost
  /\ published' = [published EXCEPT ![m] = @ + n]
  /\ unreported' = [unreported EXCEPT ![m] = @ + lost]

\* OrderConfirmed or PaymentFailed goes out.  The AWS SDK tries again by itself when
\* a reply is lost (3 attempts by default; MaxLost limits them here).
Publish(s) ==
  /\ step[s] = "publish" /\ ~expired[s]
  /\ \E lost \in 0 .. MaxLost : Accepted(Msg(s), lost + 1, lost)
  /\ HandlerOK(s)
  /\ Goto(s, "none")
  /\ UNCHANGED <<claimed, stranded>>

PublishFails_KeepsClaim(s) ==
  /\ step[s] = "publish"
  /\ HandlerError(s)
  /\ Goto(s, "none")
  /\ UNCHANGED <<claimed, published, unreported, stranded>>
\* Publish returns an error, or ctx is done; SNS may have the event all the same
PublishFails(s) ==
  /\ step[s] = "publish"
  /\ \E lost \in 0 .. MaxLost : Accepted(Msg(s), lost, lost)
  /\ Goto(s, "unclaim")
  /\ UNCHANGED <<consumerVars, claimed, stranded>>

Unclaim(s) ==
  /\ step[s] = "unclaim" /\ ~expired[s]
  /\ claimed' = claimed \ {Msg(s)}
  /\ HandlerError(s)
  /\ Goto(s, "none")
  /\ UNCHANGED <<published, unreported, stranded>>

\* DEL fails; always so when ctx is done, which may be why publishing failed
UnclaimFails(s) ==
  /\ step[s] = "unclaim"
  /\ RedisFails \/ expired[s]
  /\ stranded' = stranded \cup {Msg(s)}
  /\ HandlerError(s)
  /\ Goto(s, "none")
  /\ UNCHANGED <<claimed, published, unreported>>

-----------------------------------------------------------------------------
(* The consumer around it.                                                 *)

\* the claims the pod's handlers hold at this moment
InHand(p) ==
  {Msg(s) : s \in {t \in Slots : PodOf[t] = p /\ step[t] \in {"publish", "unclaim"}}}

Die(p) ==
  /\ Kill(p)
  /\ step' = [s \in Slots |-> IF PodOf[s] = p THEN "none" ELSE step[s]]
  /\ stranded' = stranded \cup InHand(p)
  /\ UNCHANGED <<claimed, published, unreported>>

SendOrder(m) == Send(m) /\ UNCHANGED workerVars

Around ==
  /\ \/ \E m \in Messages : VisibilityExpires(m) \/ Redrive(m)
     \/ \E p \in Pods : Receive(p) \/ ReceiveFails(p) \/ Stop(p) \/ Exit(p)
     \/ \E s \in Slots : HandlerTimeout(s) \/ DeleteMessage(s) \/ DeleteFails(s)
  /\ UNCHANGED workerVars

Handle(s) ==
  \/ Start(s) \/ Garbled(s) \/ Ignore(s)
  \/ Claim(s) \/ Skip(s) \/ SeenFails(s) \/ SeenRepeats(s)
  \/ Publish(s) \/ PublishFails(s) \/ Unclaim(s) \/ UnclaimFails(s)

PayNext ==
  \/ \E s \in Slots : Handle(s)
  \/ \E p \in Pods : Die(p)
  \/ \E m \in Messages : SendOrder(m)
  \/ Around

PaySafeSpec == PayInit /\ [][PayNext]_payVars

-----------------------------------------------------------------------------
(* What the worker guarantees, and what it does not.                       *)

(* A message has one outcome, however often and to however many pods it is *)
(* delivered at a time; each further one was accepted by SNS without any   *)
(* call reporting it, and so published once more: by the AWS SDK when it   *)
(* lost the reply, or by the redelivery after Publish returned an error.   *)
OneOutcomePerMessage ==
  \A m \in Messages : published[m] <= 1 + unreported[m]

(* An order's message that is deleted has had its outcome published: a     *)
(* failed publish costs nothing because Unclaim makes the redelivery       *)
(* start afresh.  It takes a stranded claim or an overlap of deliveries to *)
(* lose an outcome.                                                        *)
LostOutcomesNeedStrandedClaims ==
  \A m \in Messages :
     queue[m] = "deleted" /\ KindOf[m] = "OrderPlaced" /\ published[m] = 0 =>
       m \in stranded \cup overlapped

(* The log line says "skipping already-processed message".  That is not so *)
(* when a claim was stranded: no run checks this, TLC refutes it.          *)
SkippedMeansProcessed ==
  [][\A s \in Slots : Skip(s) \/ SeenRepeats(s) => published[Msg(s)] >= 1]_payVars

-----------------------------------------------------------------------------
(* The inductive invariant behind the safety properties.                   *)

Owner(s, m) == step[s] \in {"publish", "unclaim"} /\ Msg(s) = m

PhasesMatch ==
  \A s \in Slots : /\ step[s] # "none" <=> slot[s] = "handling"
                   /\ step[s] \in {"publish", "unclaim"} =>
                        Msg(s) \in claimed /\ KindOf[Msg(s)] = "OrderPlaced"

OwnersAreUnique ==
  \A s, t \in Slots : \A m \in Messages : Owner(s, m) /\ Owner(t, m) => s = t

\* outcomes that count, one at most: none while a call may still publish
OutcomesCounted ==
  \A m \in Messages :
     /\ published[m] <= 1 + unreported[m]
     /\ m \notin claimed => published[m] <= unreported[m]
     /\ \A s \in Slots : Owner(s, m) => published[m] <= unreported[m]

ClaimsExplained ==
  \A m \in claimed :
     published[m] >= 1 \/ m \in stranded \/ \E s \in Slots : Owner(s, m)

\* whoever is about to delete an order's message, or did, knows of an outcome
AcksExplained ==
  \A m \in Messages :
     /\ KindOf[m] = "OrderPlaced"
     /\ queue[m] = "deleted" \/ \E s \in Slots : slot[s] = "deleting" /\ Msg(s) = m
     => published[m] >= 1 \/ m \in stranded \cup overlapped

PayIInv ==
  /\ PayTypeOK
  /\ ConsumerIInv
  /\ PhasesMatch
  /\ OwnersAreUnique
  /\ OutcomesCounted
  /\ ClaimsExplained
  /\ AcksExplained
==============================================================================
