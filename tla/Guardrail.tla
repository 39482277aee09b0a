------------------------------ MODULE Guardrail ------------------------------
(***************************************************************************)
(* sentry's guardrail: a Lambda that is told of each call that opened a    *)
(* security group and takes the rules that admit 0.0.0.0/0 out again.      *)
(*                                                                         *)
(* CloudTrail reports a call whether it succeeded or not, late and perhaps *)
(* more than once; Lambda repeats an invocation that ended in an error.    *)
(* Meanwhile people open and close rules.  EC2 takes out the rules of one  *)
(* revocation together.  If one of them is not there, it takes out none in *)
(* most VPCs and says InvalidPermission.NotFound; in a default VPC it      *)
(* takes out the others and reports success.  In a default VPC a call may  *)
(* also give the name of the group instead of its id.                      *)
(***************************************************************************)
EXTENDS Naturals

CONSTANTS
  Rules,
  Calls,        \* of AuthorizeSecurityGroupIngress
  RulesOf,      \* the rules of each call that admit 0.0.0.0/0
  ByName,       \* calls that name the group and do not give its id
  Copies,       \* bound on the deliveries of each call's event
  MaxTries,     \* invocations for a delivery: the first and Lambda's repetitions
  MaxFaults,    \* bound on calls of the handler that fail
  MaxCloses,    \* bound on rules people close
  NoCall

Deliveries == UNION {{c} \X (1 .. Copies[c]) : c \in Calls}

ASSUME GuardrailAssumption ==
  /\ RulesOf \in [Calls -> SUBSET Rules]
  /\ ByName \subseteq Calls
  /\ Copies \in [Calls -> Nat \ {0}]
  /\ MaxTries \in Nat \ {0}
  /\ {MaxFaults, MaxCloses} \subseteq Nat
  /\ NoCall \notin Calls

VARIABLES
  defaultVpc,  \* is the group in a default VPC?
  open,        \* rules that are in force
  opener,      \* the call that put each rule in force
  called,      \* calls that were made
  phase,       \* where the handling of each delivery is
  tries,       \* invocations for it that have ended in an error
  notices,     \* e-mails about each call
  reverted,    \* history: calls whose event made EC2 take out a rule
  disturbed,   \* history: calls one of whose rules was closed other than by
               \* their own event
  struck,      \* history: calls whose handling a fault struck
  faults,      \* bound: failed calls so far
  closes       \* bound: rules closed by people so far

vars == <<defaultVpc, open, opener, called, phase, tries, notices, reverted, disturbed,
          struck, faults, closes>>

TypeOK ==
  /\ defaultVpc \in BOOLEAN
  /\ open \subseteq Rules
  /\ opener \in [Rules -> Calls \cup {NoCall}]
  /\ called \subseteq Calls
  /\ phase \in [Deliveries -> {"none", "pending", "notify", "done", "dropped"}]
  /\ tries \in [Deliveries -> 0 .. MaxTries]
  /\ notices \in [Calls -> Nat]
  /\ reverted \subseteq Calls
  /\ disturbed \subseteq Calls
  /\ struck \subseteq Calls
  /\ faults \in 0 .. MaxFaults
  /\ closes \in 0 .. MaxCloses

Init ==
  /\ defaultVpc \in BOOLEAN
  /\ open = {}
  /\ opener = [r \in Rules |-> NoCall]
  /\ called = {}
  /\ phase = [d \in Deliveries |-> "none"]
  /\ tries = [d \in Deliveries |-> 0]
  /\ notices = [c \in Calls |-> 0]
  /\ reverted = {} /\ disturbed = {} /\ struck = {}
  /\ faults = 0 /\ closes = 0

-----------------------------------------------------------------------------
(* EC2, the people who use it, and EventBridge.                            *)

\* A call that would add a rule that is there already adds none; CloudTrail
\* tells of it all the same
AuthorizeIngress(c) ==
  /\ c \notin called
  /\ c \in ByName => defaultVpc
  /\ called' = called \cup {c}
  /\ IF RulesOf[c] \cap open = {}
       THEN /\ open' = open \cup RulesOf[c]
            /\ opener' = [r \in Rules |-> IF r \in RulesOf[c] THEN c ELSE opener[r]]
       ELSE UNCHANGED <<open, opener>>
  /\ phase' = [phase EXCEPT ![<<c, 1>>] = "pending"]
  /\ UNCHANGED <<defaultVpc, tries, notices, reverted, disturbed, struck, faults, closes>>

\* EventBridge delivers an event once more
Duplicate(d) ==
  /\ d[1] \in called /\ phase[d] = "none"
  /\ phase' = [phase EXCEPT ![d] = "pending"]
  /\ UNCHANGED <<defaultVpc, open, opener, called, tries, notices, reverted, disturbed,
                 struck, faults, closes>>

CloseByHand(r) ==
  /\ r \in open
  /\ closes < MaxCloses
  /\ closes' = closes + 1
  /\ open' = open \ {r}
  /\ disturbed' = disturbed \cup {opener[r]}
  /\ UNCHANGED <<defaultVpc, opener, called, phase, tries, notices, reverted, struck, faults>>

\* RevokeSecurityGroupIngress finds what it needs
Found(c) == defaultVpc \/ RulesOf[c] \subseteq open

TakeOut(c) ==
  LET gone == RulesOf[c] \cap open
  IN  /\ Found(c)
      /\ open' = open \ gone
      /\ reverted' = IF gone = {} THEN reverted ELSE reverted \cup {c}
      /\ disturbed' = disturbed \cup ({opener[r] : r \in gone} \ {c})

-----------------------------------------------------------------------------
(* handler.                                                                *)

Moves(d, p) == phase' = [phase EXCEPT ![d] = p]

\* the event has no groupId: "skipping", whatever the call opened
NoGroupId(d) ==
  /\ phase[d] = "pending" /\ d[1] \in ByName
  /\ Moves(d, "done")
  /\ UNCHANGED <<defaultVpc, open, opener, called, tries, notices, reverted, disturbed,
                 struck, faults, closes>>

\* the event has a groupId, and rules to take out
Offending(d) == phase[d] = "pending" /\ d[1] \notin ByName /\ RulesOf[d[1]] # {}

Skip(d) ==
  /\ phase[d] = "pending" /\ d[1] \notin ByName /\ RulesOf[d[1]] = {}
  /\ Moves(d, "done")
  /\ UNCHANGED <<defaultVpc, open, opener, called, tries, notices, reverted, disturbed,
                 struck, faults, closes>>

Revoke_OneRule(d) ==
  /\ Offending(d) /\ Found(d[1])
  /\ \E r \in RulesOf[d[1]] : open' = open \ {r}
  /\ reverted' = reverted \cup {d[1]}
  /\ Moves(d, "notify")
  /\ UNCHANGED <<defaultVpc, opener, called, tries, notices, disturbed, struck, faults, closes>>
Revoke(d) ==
  /\ Offending(d)
  /\ TakeOut(d[1])
  /\ Moves(d, "notify")
  /\ UNCHANGED <<defaultVpc, opener, called, tries, notices, struck, faults, closes>>

AlreadyRemoved_TakesOthers(d) ==
  /\ Offending(d) /\ ~Found(d[1])
  /\ open' = open \ RulesOf[d[1]]
  /\ reverted' = IF open' = open THEN reverted ELSE reverted \cup {d[1]}
  /\ Moves(d, "done")
  /\ UNCHANGED <<defaultVpc, opener, called, tries, notices, disturbed, struck, faults, closes>>
\* InvalidPermission.NotFound: "no action needed"
AlreadyRemoved(d) ==
  /\ Offending(d) /\ ~Found(d[1])
  /\ Moves(d, "done")
  /\ UNCHANGED <<defaultVpc, open, opener, called, tries, notices, reverted, disturbed,
                 struck, faults, closes>>

Fault(d) ==
  /\ faults < MaxFaults
  /\ faults' = faults + 1
  /\ struck' = struck \cup {d[1]}

\* the invocation ends in an error, or dies: Lambda repeats it, or gives up
Repeat(d) ==
  /\ tries' = [tries EXCEPT ![d] = @ + 1]
  /\ Moves(d, IF tries[d] + 1 < MaxTries THEN "pending" ELSE "dropped")

RevokeFails_LoggedOnly(d) ==
  /\ Offending(d)
  /\ Fault(d)
  /\ Moves(d, "done")
  /\ UNCHANGED <<defaultVpc, open, opener, called, tries, notices, reverted, disturbed, closes>>
\* any other error; EC2 may have taken the rules out
RevokeFails(d) ==
  /\ Offending(d)
  /\ Fault(d)
  /\ Repeat(d)
  /\ TakeOut(d[1]) \/ UNCHANGED <<open, reverted, disturbed>>
  /\ UNCHANGED <<defaultVpc, opener, called, notices, closes>>

\* EC2's answer is lost, and the SDK's own repetition finds the rules gone
RevokeRepeats(d) ==
  /\ Offending(d) /\ ~defaultVpc
  /\ Fault(d)
  /\ TakeOut(d[1])
  /\ Moves(d, "done")
  /\ UNCHANGED <<defaultVpc, opener, called, tries, notices, closes>>

Notify(d) ==
  /\ phase[d] = "notify"
  /\ notices' = [notices EXCEPT ![d[1]] = @ + 1]
  /\ Moves(d, "done")
  /\ UNCHANGED <<defaultVpc, open, opener, called, tries, reverted, disturbed, struck,
                 faults, closes>>

\* Publish fails, which is only logged, or the invocation dies before it
NotifyFails(d) ==
  /\ phase[d] = "notify"
  /\ Fault(d)
  /\ Repeat(d) \/ (Moves(d, "done") /\ UNCHANGED tries)
  /\ UNCHANGED <<defaultVpc, open, opener, called, notices, reverted, disturbed, closes>>

-----------------------------------------------------------------------------

Handle(d) == NoGroupId(d) \/ Skip(d) \/ Revoke(d) \/ AlreadyRemoved(d) \/ Notify(d)

Next ==
  \/ \E c \in Calls : AuthorizeIngress(c)
  \/ \E r \in Rules : CloseByHand(r)
  \/ \E d \in Deliveries :
        Duplicate(d) \/ Handle(d) \/ RevokeFails(d) \/ RevokeRepeats(d) \/ NotifyFails(d)

SafeSpec == Init /\ [][Next]_vars

\* Lambda runs what it accepted
Spec == SafeSpec /\ \A d \in Deliveries : WF_vars(Handle(d))

-----------------------------------------------------------------------------
(* What the guardrail guarantees.                                          *)

(* When an event counts as handled, the rules its call opened are closed.  *)
(* There are two exceptions, one for each kind of VPC: an event without a  *)
(* groupId is skipped with its rules open, and "already removed (likely    *)
(* duplicate/backlogged event), no action needed" is wrong where one of    *)
(* several rules was closed by somebody else.                              *)
LeftOpen(c) == IF defaultVpc THEN c \in ByName ELSE c \in disturbed
HandledMeansClosed ==
  \A d \in Deliveries : \A r \in RulesOf[d[1]] :
     phase[d] = "done" /\ r \in open /\ opener[r] = d[1] => LeftOpen(d[1])

(* Whatever the guardrail takes out it tells of, unless a fault struck the *)
(* handling of that very event: duplicates, which find the rules gone,     *)
(* late events and races between deliveries silence nothing.               *)
RevocationsAreAnnounced ==
  \A c \in reverted :
     \/ notices[c] > 0
     \/ c \in struck
     \/ \E k \in 1 .. Copies[c] : phase[<<c, k>>] = "notify"

(* An open rule is closed in the end, unless Lambda gave up on the event   *)
(* of its opener, or that is one the handler leaves open.                  *)
GivenUp(c) == phase[<<c, 1>>] = "dropped" \/ LeftOpen(c)
OpenRulesAreClosed == \A r \in Rules : r \in open ~> r \notin open \/ GivenUp(opener[r])

-----------------------------------------------------------------------------
(* The inductive invariant behind the safety properties.                   *)

OpenRulesHaveOpeners ==
  \A r \in open : opener[r] \in called /\ r \in RulesOf[opener[r]]

UncalledAreQuiet == \A d \in Deliveries : d[1] \notin called => phase[d] = "none"

\* EC2 takes the name of a group in a default VPC only
NamesNeedDefaultVpc == called \cap ByName # {} => defaultVpc

\* a call no other has disturbed has all its rules open, or none
RulesFallTogether ==
  \A c \in Calls : \A q, r \in RulesOf[c] :
     c \notin disturbed /\ q \in open /\ opener[q] = c => r \in open /\ opener[r] = c

TriesLeft == \A d \in Deliveries : phase[d] # "dropped" => tries[d] < MaxTries

\* who is about to send a notice has closed the rules
NoticesFollowClosing ==
  \A d \in Deliveries : phase[d] = "notify" =>
     \A r \in RulesOf[d[1]] : r \in open => opener[r] # d[1]

GuardrailIInv ==
  /\ TypeOK
  /\ OpenRulesHaveOpeners
  /\ UncalledAreQuiet
  /\ NamesNeedDefaultVpc
  /\ TriesLeft
  /\ RulesFallTogether
  /\ NoticesFollowClosing
  /\ HandledMeansClosed
  /\ RevocationsAreAnnounced
==============================================================================
