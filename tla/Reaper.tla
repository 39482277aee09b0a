-------------------------------- MODULE Reaper --------------------------------
(***************************************************************************)
(* sentry's reaper Lambda.  Each invocation lists the volumes that are not *)
(* attached, then the addresses that are not associated, and sweeps over   *)
(* them one by one: it flags a resource that has no flag with the current  *)
(* time, and deletes one whose flag is older than the grace period.        *)
(*                                                                         *)
(* The tags it judges by are those of the listing; meanwhile people use    *)
(* and abandon resources, and another invocation may be under way, since   *)
(* EventBridge and Lambda deliver an event at least once.                  *)
(***************************************************************************)
EXTENDS Naturals, FiniteSets

CONSTANTS
  Resources,
  KindOf,       \* "volume" or "eip"
  Invocations,  \* of the Lambda, at a time
  Grace,        \* GRACE_PERIOD_SECONDS, in ticks longer than the Lambda's timeout
  NoFlag,       \* there is no tag sentry-flagged-at
  Garbled,      \* there is one that is not a time
  Nobody,
  MaxUses,      \* bound on how often a resource is taken into use
  MaxMishaps    \* bound on calls that fail and invocations that die

Flags == {NoFlag, Garbled} \cup 0 .. Grace

ASSUME ReaperAssumption ==
  /\ KindOf \in [Resources -> {"volume", "eip"}]
  /\ Grace \in Nat \ {0}
  /\ NoFlag \notin 0 .. Grace /\ Garbled \notin 0 .. Grace /\ NoFlag # Garbled
  /\ Nobody \notin Resources
  /\ MaxUses \in Nat /\ MaxMishaps \in Nat
  /\ IsFiniteSet(Invocations)

VARIABLES
  place,       \* each resource inUse, orphan or gone
  flag,        \* its tag, as the time since then, up to Grace
  orphanFor,   \* history: for how long it has been an orphan, up to Grace
  pc,          \* where each invocation is
  kind,        \* what it sweeps
  todo,        \* what it listed and has still to look at
  seen,        \* the tags as listed; then the stamp it is about to write
  cur,         \* the resource it looks at
  aged,        \* has time passed since the invocation began?
  uses,        \* bound: resources taken into use so far
  mishaps,     \* bound: faults so far
  reports,     \* messages "Reaped orphaned ..." sent, by resource
  reused,      \* history: resources taken into use while they were flagged,
               \* or listed by an invocation under way
  marred       \* history: resources whose deletion or report a fault marred

env == <<place, flag, orphanFor, uses, reused>>
lambda == <<pc, kind, todo, seen, cur, aged>>
reaperVars == <<env, lambda, mishaps, reports, marred>>

ReaperTypeOK ==
  /\ place \in [Resources -> {"inUse", "orphan", "gone"}]
  /\ flag \in [Resources -> Flags]
  /\ orphanFor \in [Resources -> 0 .. Grace]
  /\ pc \in [Invocations -> {"idle", "describe", "sweep", "flag", "delete", "notify"}]
  /\ kind \in [Invocations -> {"volume", "eip"}]
  /\ todo \in [Invocations -> SUBSET Resources]
  /\ seen \in [Invocations -> [Resources -> Flags]]
  /\ cur \in [Invocations -> Resources \cup {Nobody}]
  /\ aged \in [Invocations -> BOOLEAN]
  /\ uses \in 0 .. MaxUses
  /\ mishaps \in 0 .. MaxMishaps
  /\ reports \in [Resources -> Nat]
  /\ reused \subseteq Resources
  /\ marred \subseteq Resources

\* people put tags on their resources, too, but none with a time under this key
ReaperInit ==
  /\ place \in [Resources -> {"inUse", "orphan"}]
  /\ flag \in [Resources -> {NoFlag, Garbled}]
  /\ orphanFor = [r \in Resources |-> 0]
  /\ pc = [i \in Invocations |-> "idle"]
  /\ kind = [i \in Invocations |-> "volume"]
  /\ todo = [i \in Invocations |-> {}]
  /\ seen = [i \in Invocations |-> [r \in Resources |-> NoFlag]]
  /\ cur = [i \in Invocations |-> Nobody]
  /\ aged = [i \in Invocations |-> FALSE]
  /\ uses = 0
  /\ mishaps = 0
  /\ reports = [r \in Resources |-> 0]
  /\ reused = {}
  /\ marred = {}

-----------------------------------------------------------------------------
(* Time, and the people around.                                            *)

\* what time.Now().Sub makes of a time a tick later
Older(age) == IF age \in 0 .. Grace - 1 THEN age + 1 ELSE age

\* Lambda ends an invocation before time passes for it twice
Tick ==
  /\ \A i \in Invocations : ~aged[i]
  /\ flag' = [r \in Resources |-> Older(flag[r])]
  /\ seen' = [i \in Invocations |-> [r \in Resources |-> Older(seen[i][r])]]
  /\ orphanFor' =
       [r \in Resources |-> IF place[r] = "orphan" THEN Older(orphanFor[r]) ELSE orphanFor[r]]
  /\ aged' = [i \in Invocations |-> pc[i] # "idle"]
  /\ UNCHANGED <<place, uses, reused, pc, kind, todo, cur, mishaps, reports, marred>>

InSight(r) == \E i \in Invocations : r \in todo[i] \cup {cur[i]}

\* a volume is attached, an address associated
Use(r) ==
  /\ place[r] = "orphan"
  /\ uses < MaxUses
  /\ uses' = uses + 1
  /\ place' = [place EXCEPT ![r] = "inUse"]
  /\ orphanFor' = [orphanFor EXCEPT ![r] = 0]
  /\ reused' = IF flag[r] # NoFlag \/ InSight(r) THEN reused \cup {r} ELSE reused
  /\ UNCHANGED <<flag, lambda, mishaps, reports, marred>>

Abandon(r) ==
  /\ place[r] = "inUse"
  /\ place' = [place EXCEPT ![r] = "orphan"]
  /\ UNCHANGED <<flag, orphanFor, uses, reused, lambda, mishaps, reports, marred>>

-----------------------------------------------------------------------------
(* The Lambda.                                                             *)

Goto(i, l) == pc' = [pc EXCEPT ![i] = l]

\* handler: EventBridge's schedule
Invoke(i) ==
  /\ pc[i] = "idle"
  /\ Goto(i, "describe")
  /\ kind' = [kind EXCEPT ![i] = "volume"]
  /\ UNCHANGED <<env, todo, seen, cur, aged, mishaps, reports, marred>>

Listed(i) == {r \in Resources : KindOf[r] = kind[i] /\ place[r] = "orphan"}

\* DescribeVolumes (status available), DescribeAddresses (no association)
Describe(i) ==
  /\ pc[i] = "describe"
  /\ todo' = [todo EXCEPT ![i] = Listed(i)]
  /\ seen' = [seen EXCEPT ![i] = [r \in Resources |-> IF r \in Listed(i) THEN flag[r] ELSE NoFlag]]
  /\ Goto(i, "sweep")
  /\ UNCHANGED <<env, kind, cur, aged, mishaps, reports, marred>>

Verdict_Hasty(tag) ==
  CASE tag = NoFlag -> "flag" [] tag \in Grace - 1 .. Grace -> "delete" [] OTHER -> "sweep"
Verdict_Restamps(tag) ==
  CASE tag = Garbled -> "sweep" [] tag = Grace -> "delete" [] OTHER -> "flag"
\* what sweep does about a tag: no flag; the grace period is over; too young,
\* or not a time
Verdict(tag) ==
  CASE tag = NoFlag -> "flag" [] tag = Grace -> "delete" [] OTHER -> "sweep"

\* sweep, up to the call it makes
Look(i) ==
  /\ pc[i] = "sweep"
  /\ \E r \in todo[i] :
        /\ Goto(i, Verdict(seen[i][r]))
        /\ todo' = [todo EXCEPT ![i] = @ \ {r}]
        /\ cur' = [cur EXCEPT ![i] = IF pc'[i] = "sweep" THEN Nobody ELSE r]
        /\ seen' = [seen EXCEPT ![i][r] = IF pc'[i] = "flag" THEN 0 ELSE NoFlag]
  /\ UNCHANGED <<env, kind, aged, mishaps, reports, marred>>

\* back in the loop
NextOne(i) ==
  /\ Goto(i, "sweep")
  /\ cur' = [cur EXCEPT ![i] = Nobody]
  /\ seen' = [seen EXCEPT ![i] = [r \in Resources |-> IF r \in todo[i] THEN seen[i][r] ELSE NoFlag]]
  /\ UNCHANGED <<kind, todo, aged>>

Tagged(i) ==
  flag' = IF place[cur[i]] = "gone" THEN flag ELSE [flag EXCEPT ![cur[i]] = seen[i][cur[i]]]

\* CreateTags; what is in use takes a tag as well
Flag(i) ==
  /\ pc[i] = "flag"
  /\ Tagged(i)
  /\ NextOne(i)
  /\ UNCHANGED <<place, orphanFor, uses, reused, mishaps, reports, marred>>

Delete_IgnoresError(i) ==
  /\ pc[i] = "delete"
  /\ place' = IF place[cur[i]] = "orphan" THEN [place EXCEPT ![cur[i]] = "gone"] ELSE place
  /\ Goto(i, "notify")
  /\ UNCHANGED <<kind, todo, seen, cur, aged>>
  /\ UNCHANGED <<flag, orphanFor, uses, reused, mishaps, reports, marred>>
\* deleteFn; EC2 refuses what is in use or gone
Delete(i) ==
  /\ pc[i] = "delete"
  /\ \/ /\ place[cur[i]] = "orphan"
        /\ place' = [place EXCEPT ![cur[i]] = "gone"]
        /\ Goto(i, "notify")
        /\ UNCHANGED <<kind, todo, seen, cur, aged>>
     \/ /\ place[cur[i]] # "orphan"
        /\ NextOne(i)
        /\ UNCHANGED place
  /\ UNCHANGED <<flag, orphanFor, uses, reused, mishaps, reports, marred>>

Report(i) ==
  /\ pc[i] = "notify"
  /\ reports' = [reports EXCEPT ![cur[i]] = @ + 1]
  /\ NextOne(i)
  /\ UNCHANGED <<env, mishaps, marred>>

\* the addresses follow the volumes, whether or not they could be listed
EndSweep(i) ==
  /\ IF kind[i] = "volume"
     THEN Goto(i, "describe") /\ kind' = [kind EXCEPT ![i] = "eip"] /\ UNCHANGED aged
     ELSE Goto(i, "idle") /\ UNCHANGED kind /\ aged' = [aged EXCEPT ![i] = FALSE]
  /\ UNCHANGED <<env, todo, seen, cur, reports, marred>>

SweepDone(i) ==
  /\ pc[i] = "sweep" /\ todo[i] = {}
  /\ EndSweep(i)
  /\ UNCHANGED mishaps

-----------------------------------------------------------------------------
(* Faults.                                                                 *)

Mishap == mishaps < MaxMishaps /\ mishaps' = mishaps + 1

DescribeFails(i) == pc[i] = "describe" /\ EndSweep(i) /\ Mishap

\* a call has no effect; the code logs it and goes on
CallFails(i) ==
  /\ pc[i] \in {"flag", "delete", "notify"}
  /\ Mishap
  /\ marred' = IF pc[i] = "flag" THEN marred ELSE marred \cup {cur[i]}
  /\ NextOne(i)
  /\ UNCHANGED <<env, reports>>

\* the reply is lost.  The client calls again: a deletion is refused then, a
\* notice repeated
ReplyLost(i) ==
  /\ Mishap
  /\ \/ /\ pc[i] = "delete" /\ place[cur[i]] = "orphan"
        /\ place' = [place EXCEPT ![cur[i]] = "gone"]
        /\ NextOne(i)
        /\ UNCHANGED reports
     \/ /\ pc[i] = "notify"
        /\ reports' = [reports EXCEPT ![cur[i]] = @ + 1]
        /\ UNCHANGED <<place, lambda>>
  /\ marred' = marred \cup {cur[i]}
  /\ UNCHANGED <<flag, orphanFor, uses, reused>>

\* Lambda's timeout, or the end of its process
Die(i) ==
  /\ pc[i] # "idle"
  /\ Mishap
  /\ Goto(i, "idle")
  /\ todo' = [todo EXCEPT ![i] = {}]
  /\ seen' = [seen EXCEPT ![i] = [r \in Resources |-> NoFlag]]
  /\ cur' = [cur EXCEPT ![i] = Nobody]
  /\ aged' = [aged EXCEPT ![i] = FALSE]
  /\ marred' = IF pc[i] = "notify" THEN marred \cup {cur[i]} ELSE marred
  /\ UNCHANGED <<env, kind, reports>>

-----------------------------------------------------------------------------

LambdaStep(i) ==
  Invoke(i) \/ Describe(i) \/ Look(i) \/ Flag(i) \/ Delete(i) \/ Report(i) \/ SweepDone(i)

ReaperNext ==
  \/ Tick
  \/ \E r \in Resources : Use(r) \/ Abandon(r)
  \/ \E i \in Invocations :
        LambdaStep(i) \/ DescribeFails(i) \/ CallFails(i) \/ ReplyLost(i) \/ Die(i)

ReaperSafeSpec == ReaperInit /\ [][ReaperNext]_reaperVars

\* time passes, the schedule fires, and every call has a timeout
ReaperSpec ==
  ReaperSafeSpec /\ WF_reaperVars(Tick) /\ \A i \in Invocations : WF_reaperVars(LambdaStep(i))

-----------------------------------------------------------------------------
(* What the reaper guarantees, and what it does not.                       *)

(* variables.tf says of the grace period: "How long a flagged resource     *)
(* must remain orphaned before it's deleted".  It need not, if it was in   *)
(* use in between: no run checks this, TLC refutes it.                     *)
GraceIsKept == \A r \in Resources : place[r] = "gone" => orphanFor[r] = Grace

(* Only a resource that was in use again after an invocation had flagged   *)
(* or listed it is deleted early: its old flag is still there, and counts  *)
(* when it is abandoned anew.  No race of invocations shortens the period. *)
EarlyReapsNeedReuse ==
  \A r \in Resources \ reused : place[r] = "gone" => orphanFor[r] = Grace

\* the invocations that have deleted r and not yet said so
AboutToTell(r) == {i \in Invocations : pc[i] = "notify" /\ cur[i] = r}

(* What is deleted is announced once, also when two invocations delete it  *)
(* at a time; a fault can cost the notice or repeat it.                    *)
OneNoticePerReap ==
  \A r \in Resources \ marred :
     reports[r] + Cardinality(AboutToTell(r)) = IF place[r] = "gone" THEN 1 ELSE 0

(* An orphan does not stay one for ever, unless its flag is not a time:    *)
(* neither faults nor a concurrent invocation's new flag keep it alive.    *)
OrphansAreReaped ==
  \A r \in Resources :
     place[r] = "orphan" /\ flag[r] # Garbled ~> place[r] # "orphan"

-----------------------------------------------------------------------------
(* The inductive invariant behind the safety properties.                   *)

CallsHaveATarget ==
  \A i \in Invocations : pc[i] \in {"flag", "delete", "notify"} => cur[i] \in Resources

\* is tag no time, or one since which r has been an orphan?
IsEarned(tag, r) == tag \in 0 .. Grace => place[r] # "inUse" /\ tag <= orphanFor[r]

FlagsAreEarned == \A r \in Resources \ reused : IsEarned(flag[r], r)

\* what an invocation has listed was an orphan all the while
ListingsAreEarned ==
  \A r \in Resources \ reused, i \in Invocations : r \in todo[i] \cup {cur[i]} =>
     /\ place[r] # "inUse"
     /\ IsEarned(seen[i][r], r)
     /\ pc[i] = "delete" /\ cur[i] = r => orphanFor[r] = Grace

ReaperIInv ==
  /\ ReaperTypeOK
  /\ CallsHaveATarget
  /\ FlagsAreEarned
  /\ ListingsAreEarned
  /\ EarlyReapsNeedReuse
  /\ OneNoticePerReap
================================================================================
