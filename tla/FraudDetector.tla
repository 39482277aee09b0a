---------------------------- MODULE FraudDetector ----------------------------
(***************************************************************************)
(* fraud-detector: counts the events of each user in Redis, in a window    *)
(* that starts with the first of them, and reports a user whose count is   *)
(* beyond a threshold.  It claims a message first (dedup.Seen) and, unlike *)
(* payment-worker, never gives a claim back: whatever fails afterwards,    *)
(* the redelivery is skipped.                                              *)
(*                                                                         *)
(* The Redis client repeats a command whose reply was lost.  Repeated, a   *)
(* SETNX finds its own key and an INCR counts twice.                       *)
(***************************************************************************)
EXTENDS SqsConsumer

CONSTANTS
  Users,
  UserOf,      \* the user each message is about
  KindOf,      \* what the body of each message holds
  Threshold,   \* FRAUD_THRESHOLD
  MaxWindows,  \* bound on the number of windows that end
  RedisFails   \* do Redis calls fail while their ctx is alive?

ASSUME FraudAssumption ==
  /\ UserOf \in [Messages -> Users]
  /\ KindOf \in [Messages -> {"event", "FraudFlagged", "garbled"}]
  /\ Threshold \in Nat
  /\ MaxWindows \in Nat
  /\ RedisFails \in BOOLEAN

VARIABLES
  step,      \* where the handler of each slot is
  count,     \* what its INCR returned
  claimed,   \* Redis fraud:seen:<message id>
  counter,   \* Redis fraud:events:<user>, 0 when the key does not exist
  windowed,  \* does that key have an expiry?
  windows,   \* bound: windows that ended so far
  counted,   \* history: INCRs that ran for each message
  repeated,  \* history: those the client repeated
  suspect,   \* history: messages whose INCR returned more than Threshold
  flagged,   \* history: messages SNS accepted a FraudFlagged for
  aborted,   \* history: messages some call claimed and then did not finish
  unbounded  \* history: users whose first count was not followed by EXPIRE

fraudHistory == <<counted, repeated, suspect, flagged, aborted, unbounded>>
fraudVars ==
  <<step, count, claimed, counter, windowed, windows, fraudHistory>>
detectorVars == <<consumerVars, fraudVars>>

Msg(s) == job[s][1]
User(s) == UserOf[Msg(s)]

FraudTypeOK ==
  /\ ConsumerTypeOK
  /\ step \in [Slots -> {"none", "claim", "incr", "expire", "publish"}]
  /\ count \in [Slots -> Nat]
  /\ claimed \subseteq Messages
  /\ counter \in [Users -> Nat]
  /\ windowed \in [Users -> BOOLEAN]
  /\ windows \in 0 .. MaxWindows
  /\ counted \in [Messages -> Nat]
  /\ repeated \in [Messages -> Nat]
  /\ suspect \cup flagged \cup aborted \subseteq Messages
  /\ unbounded \subseteq Users
  /\ \A u \in Users : windowed[u] => counter[u] > 0

FraudInit ==
  /\ ConsumerInit
  /\ step = [s \in Slots |-> "none"]
  /\ count = [s \in Slots |-> 0]
  /\ claimed = {}
  /\ counter = [u \in Users |-> 0]
  /\ windowed = [u \in Users |-> FALSE]
  /\ windows = 0
  /\ counted = [m \in Messages |-> 0]
  /\ repeated = [m \in Messages |-> 0]
  /\ suspect = {} /\ flagged = {} /\ aborted = {} /\ unbounded = {}

-----------------------------------------------------------------------------
(* The ways a handler call goes on or ends.                                *)

Goto(s, l) == step' = [step EXCEPT ![s] = l]

Forget(s) == count' = [count EXCEPT ![s] = 0]

ReturnNil(s) == HandlerOK(s) /\ Goto(s, "none") /\ Forget(s)
ReturnError(s) == HandlerError(s) /\ Goto(s, "none") /\ Forget(s)

\* an error after the claim, which stays
Abort(s) ==
  /\ ReturnError(s)
  /\ aborted' = aborted \cup {Msg(s)}

-----------------------------------------------------------------------------
(* handle, one call on Redis or SNS after the other.                       *)

Start(s) ==
  /\ Dispatch(s)
  /\ Goto(s, "claim")
  /\ UNCHANGED <<count, claimed, counter, windowed, windows, fraudHistory>>

Garbled(s) ==
  /\ step[s] = "claim" /\ KindOf[Msg(s)] = "garbled"
  /\ ReturnError(s)
  /\ UNCHANGED <<claimed, counter, windowed, windows, fraudHistory>>

\* its own reports come back to it: the queue has no filter
IgnoreFlag(s) ==
  /\ step[s] = "claim" /\ KindOf[Msg(s)] = "FraudFlagged"
  /\ ReturnNil(s)
  /\ UNCHANGED <<claimed, counter, windowed, windows, fraudHistory>>

AtSeen(s) == step[s] = "claim" /\ KindOf[Msg(s)] = "event"

Claim_Again(s) ==
  /\ AtSeen(s) /\ ~expired[s]
  /\ claimed' = claimed \cup {Msg(s)}
  /\ Goto(s, "incr")
  /\ UNCHANGED <<consumerVars, count, counter, windowed, windows, fraudHistory>>
Claim(s) ==
  /\ AtSeen(s) /\ ~expired[s] /\ Msg(s) \notin claimed
  /\ claimed' = claimed \cup {Msg(s)}
  /\ Goto(s, "incr")
  /\ UNCHANGED <<consumerVars, count, counter, windowed, windows, fraudHistory>>

Skip(s) ==
  /\ AtSeen(s) /\ ~expired[s] /\ Msg(s) \in claimed
  /\ ReturnNil(s)
  /\ UNCHANGED <<claimed, counter, windowed, windows, counted, repeated, suspect,
                 flagged, aborted, unbounded>>

SeenFails(s) ==
  /\ AtSeen(s)
  /\ \/ /\ RedisFails \/ expired[s]
        /\ ReturnError(s)
        /\ UNCHANGED <<claimed, aborted>>
     \/ /\ RedisFails /\ ~expired[s] /\ Msg(s) \notin claimed
        /\ claimed' = claimed \cup {Msg(s)}
        /\ Abort(s)
  /\ UNCHANGED <<counter, windowed, windows, counted, repeated, suspect, flagged,
                 unbounded>>

\* the client's second SETNX finds the key of its first
SeenRepeats(s) ==
  /\ RedisFails
  /\ AtSeen(s) /\ ~expired[s] /\ Msg(s) \notin claimed
  /\ claimed' = claimed \cup {Msg(s)}
  /\ ReturnNil(s)
  /\ aborted' = aborted \cup {Msg(s)}
  /\ UNCHANGED <<counter, windowed, windows, counted, repeated, suspect, flagged, unbounded>>

CountUp(s, n) ==
  /\ counter' = [counter EXCEPT ![User(s)] = @ + n]
  /\ counted' = [counted EXCEPT ![Msg(s)] = @ + n]

Incr_WindowFromSecond(s) ==
  LET c == counter[User(s)] + 1
  IN  /\ step[s] = "incr" /\ ~expired[s]
      /\ CountUp(s, 1)
      /\ count' = [count EXCEPT ![s] = c]
      /\ suspect' = IF c > Threshold THEN suspect \cup {Msg(s)} ELSE suspect
      /\ Goto(s, IF c = 2 THEN "expire" ELSE "publish")
      /\ UNCHANGED <<consumerVars, claimed, windowed, windows, repeated, flagged,
                     aborted, unbounded>>
\* count == 1 starts a window; count > threshold is reported
Incr(s) ==
  LET c == counter[User(s)] + 1
  IN  /\ step[s] = "incr" /\ ~expired[s]
      /\ CountUp(s, 1)
      /\ count' = [count EXCEPT ![s] = c]
      /\ suspect' = IF c > Threshold THEN suspect \cup {Msg(s)} ELSE suspect
      /\ Goto(s, IF c = 1 THEN "expire" ELSE "publish")
      /\ UNCHANGED <<consumerVars, claimed, windowed, windows, repeated, flagged,
                     aborted, unbounded>>

\* counted twice: the handler sees the second result, which is never 1
IncrRepeats(s) ==
  LET c == counter[User(s)] + 2
  IN  /\ RedisFails
      /\ step[s] = "incr" /\ ~expired[s]
      /\ CountUp(s, 2)
      /\ repeated' = [repeated EXCEPT ![Msg(s)] = @ + 1]
      /\ count' = [count EXCEPT ![s] = c]
      /\ suspect' = IF c > Threshold THEN suspect \cup {Msg(s)} ELSE suspect
      /\ unbounded' = IF c = 2 THEN unbounded \cup {User(s)} ELSE unbounded
      /\ Goto(s, "publish")
      /\ UNCHANGED <<consumerVars, claimed, windowed, windows, flagged, aborted>>

IncrFails_LoggedOnly(s) ==
  /\ step[s] = "incr"
  /\ RedisFails \/ expired[s]
  /\ ReturnNil(s)
  /\ UNCHANGED <<claimed, counter, windowed, windows, fraudHistory>>
\* an error does not tell whether INCR ran
IncrFails(s) ==
  /\ step[s] = "incr"
  /\ \/ /\ RedisFails \/ expired[s]
        /\ UNCHANGED <<counter, counted, unbounded>>
     \/ /\ RedisFails /\ ~expired[s]
        /\ CountUp(s, 1)
        /\ unbounded' = IF counter[User(s)] = 0 THEN unbounded \cup {User(s)} ELSE unbounded
  /\ Abort(s)
  /\ UNCHANGED <<claimed, windowed, windows, repeated, suspect, flagged>>

Expire(s) ==
  /\ step[s] = "expire" /\ ~expired[s]
  /\ windowed' = [windowed EXCEPT ![User(s)] = TRUE]
  /\ Goto(s, "publish")
  /\ UNCHANGED <<consumerVars, count, claimed, counter, windows, fraudHistory>>

ExpireFails(s) ==
  /\ step[s] = "expire"
  /\ RedisFails \/ expired[s]
  /\ Abort(s)
  /\ unbounded' = unbounded \cup {User(s)}
  /\ UNCHANGED <<claimed, counter, windowed, windows, counted, repeated, suspect, flagged>>

NotFlagged(s) ==
  /\ step[s] = "publish" /\ count[s] <= Threshold
  /\ ReturnNil(s)
  /\ UNCHANGED <<claimed, counter, windowed, windows, fraudHistory>>

PublishFlag(s) ==
  /\ step[s] = "publish" /\ count[s] > Threshold /\ ~expired[s]
  /\ flagged' = flagged \cup {Msg(s)}
  /\ ReturnNil(s)
  /\ UNCHANGED <<claimed, counter, windowed, windows, counted, repeated, suspect,
                 aborted, unbounded>>

PublishFails(s) ==
  /\ step[s] = "publish" /\ count[s] > Threshold
  /\ flagged' \in {flagged, flagged \cup {Msg(s)}}
  /\ Abort(s)
  /\ UNCHANGED <<claimed, counter, windowed, windows, counted, repeated, suspect,
                 unbounded>>

-----------------------------------------------------------------------------
(* Redis and the consumer around the handler.                              *)

\* the key reaches its expiry
WindowEnds(u) ==
  /\ windowed[u]
  /\ windows < MaxWindows
  /\ windows' = windows + 1
  /\ counter' = [counter EXCEPT ![u] = 0]
  /\ windowed' = [windowed EXCEPT ![u] = FALSE]
  /\ UNCHANGED <<consumerVars, step, count, claimed, fraudHistory>>

SlotsOf(p) == {s \in Slots : PodOf[s] = p}

Die(p) ==
  /\ Kill(p)
  /\ step' = [s \in Slots |-> IF PodOf[s] = p THEN "none" ELSE step[s]]
  /\ count' = [s \in Slots |-> IF PodOf[s] = p THEN 0 ELSE count[s]]
  /\ aborted' = aborted \cup
       {Msg(s) : s \in {t \in SlotsOf(p) : step[t] \in {"incr", "expire", "publish"}}}
  /\ unbounded' = unbounded \cup {User(s) : s \in {t \in SlotsOf(p) : step[t] = "expire"}}
  /\ UNCHANGED <<claimed, counter, windowed, windows, counted, repeated, suspect, flagged>>

Around ==
  /\ \/ \E m \in Messages : Send(m) \/ QueueStep(m)
     \/ \E p \in Pods : PodStep(p) \/ ReceiveFails(p) \/ Stop(p)
     \/ \E s \in Slots : HandlerTimeout(s) \/ DeleteMessage(s) \/ DeleteFails(s)
  /\ UNCHANGED fraudVars

Handle(s) ==
  \/ Start(s) \/ Garbled(s) \/ IgnoreFlag(s)
  \/ Claim(s) \/ Skip(s) \/ SeenFails(s) \/ SeenRepeats(s)
  \/ Incr(s) \/ IncrRepeats(s) \/ IncrFails(s)
  \/ Expire(s) \/ ExpireFails(s)
  \/ NotFlagged(s) \/ PublishFlag(s) \/ PublishFails(s)

FraudNext ==
  \/ \E s \in Slots : Handle(s)
  \/ \E p \in Pods : Die(p)
  \/ \E u \in Users : WindowEnds(u)
  \/ Around

FraudSafeSpec == FraudInit /\ [][FraudNext]_detectorVars

-----------------------------------------------------------------------------
(* What the detector guarantees, and what it does not.                     *)

(* A message counts once, however often and to however many pods it is     *)
(* delivered, except when the client repeats an INCR.                      *)
CountedOnce == \A m \in Messages : counted[m] <= 1 + repeated[m]

(* A count that no window bounds is about to get one, or a call failed     *)
(* between INCR and EXPIRE, or its INCR was repeated: two handlers of one  *)
(* user, one of them counting while the other has yet to set the expiry,   *)
(* never leave the user without a window.                                  *)
CountsAreBounded ==
  \A u \in Users : counter[u] > 0 =>
     \/ windowed[u]
     \/ u \in unbounded
     \/ \E s \in Slots : step[s] = "expire" /\ User(s) = u

(* An event that is deleted was counted, and reported if it was beyond the *)
(* threshold, unless a call was cut off after its claim or deliveries      *)
(* overlapped.                                                             *)
LostEventsNeedAborts ==
  \A m \in Messages \ (aborted \cup overlapped) :
     queue[m] = "deleted" /\ KindOf[m] = "event" =>
       counted[m] >= 1 /\ (m \in suspect => m \in flagged)
-----------------------------------------------------------------------------
(* The inductive invariant behind them, proved in FraudDetectorProofs.     *)

Owner(s, m) == step[s] \in {"incr", "expire", "publish"} /\ Msg(s) = m

PhasesMatch ==
  \A s \in Slots :
     /\ step[s] # "none" <=> slot[s] = "handling"
     /\ step[s] \in {"incr", "expire", "publish"} => Msg(s) \in claimed

OwnersAreUnique ==
  \A s, t \in Slots : \A m \in Messages : Owner(s, m) /\ Owner(t, m) => s = t

\* nothing is counted before the claim, nor while its owner has yet to count
NotCountedYet(m) == counted[m] = 0 /\ m \notin suspect

ClaimsComeFirst ==
  /\ \A m \in Messages \ claimed : NotCountedYet(m)
  /\ \A s \in Slots :
       /\ step[s] = "incr" => NotCountedYet(Msg(s))
       /\ step[s] \in {"expire", "publish"} =>
            counted[Msg(s)] >= 1 /\ (Msg(s) \in suspect => count[s] > Threshold)

Done(m) == counted[m] >= 1 /\ (m \in suspect => m \in flagged)

ClaimsExplained ==
  \A m \in claimed :
     KindOf[m] = "event" => Done(m) \/ m \in aborted \/ \E s \in Slots : Owner(s, m)

\* whoever is about to delete an event, or did, knows what became of it
AcksExplained ==
  \A m \in Messages :
     /\ KindOf[m] = "event"
     /\ queue[m] = "deleted" \/ \E s \in Slots : slot[s] = "deleting" /\ Msg(s) = m
     => Done(m) \/ m \in aborted \cup overlapped

\* one handler at most is about to set a user's window, which has none yet
WindowsHaveOneSetter ==
  \A s \in Slots : step[s] = "expire" =>
     /\ counter[User(s)] > 0 /\ ~windowed[User(s)]
     /\ \A t \in Slots : step[t] = "expire" /\ User(t) = User(s) => t = s

FraudIInv ==
  /\ FraudTypeOK
  /\ ConsumerIInv
  /\ PhasesMatch
  /\ OwnersAreUnique
  /\ CountedOnce
  /\ ClaimsComeFirst
  /\ ClaimsExplained
  /\ AcksExplained
  /\ CountsAreBounded
  /\ WindowsHaveOneSetter
==============================================================================
