---------------------------- MODULE SentryProofs -----------------------------
(***************************************************************************)
(* Theorems about sentry's Lambdas: about Guardrail, for any sets of rules *)
(* and calls, any number of duplicates, repetitions and faults, and any    *)
(* VPC; and about Reaper, for any set of resources, any finite set of      *)
(* concurrent invocations, any grace period and any number of mishaps.     *)
(***************************************************************************)
EXTENDS Guardrail, Reaper, FiniteSetTheorems, TLAPS

-----------------------------------------------------------------------------
(* Guardrail.                                                              *)

(* A delivery is one of a call's, the first among them.                    *)
LEMMA DeliveryPairs ==
  /\ \A d \in Deliveries : d[1] \in Calls /\ \E k \in 1 .. Copies[d[1]] : d = <<d[1], k>>
  /\ \A c \in Calls : <<c, 1>> \in Deliveries
  /\ \A c \in Calls : \A k \in 1 .. Copies[c] : <<c, k>> \in Deliveries
BY GuardrailAssumption DEF GuardrailAssumption, Deliveries

(* Nothing is open and no event is under way in the initial state.         *)
LEMMA GuardrailStarts == Init => GuardrailIInv
<1> SUFFICES ASSUME Init PROVE GuardrailIInv
  OBVIOUS
<1>1. \A d \in Deliveries : d[1] \in Calls
  BY DeliveryPairs
<1>2. TypeOK
  BY GuardrailAssumption DEF GuardrailAssumption, Init, TypeOK
<1>3. OpenRulesHaveOpeners /\ RulesFallTogether /\ RevocationsAreAnnounced
  BY DEF Init, OpenRulesHaveOpeners, RulesFallTogether, RevocationsAreAnnounced
<1>4. /\ UncalledAreQuiet /\ NamesNeedDefaultVpc /\ TriesLeft
      /\ NoticesFollowClosing /\ HandledMeansClosed
  BY GuardrailAssumption
     DEF GuardrailAssumption, Init, UncalledAreQuiet, NamesNeedDefaultVpc, TriesLeft, NoticesFollowClosing,
         HandledMeansClosed
<1> QED
  BY <1>2, <1>3, <1>4 DEF GuardrailIInv

-----------------------------------------------------------------------------
(* The rules and who opened them.                                          *)

RulesTypeOK ==
  /\ open \subseteq Rules
  /\ opener \in [Rules -> Calls \cup {NoCall}]
  /\ called \subseteq Calls
  /\ disturbed \subseteq Calls

\* the part of the invariant that does not look at events
RulesInv == RulesTypeOK /\ OpenRulesHaveOpeners /\ RulesFallTogether

rulesVars == <<open, opener, called, disturbed>>

(* A revocation takes all open rules of its call out, and says so of every *)
(* other call it took a rule from.                                         *)
LEMMA TakingOutKeepsRules ==
  ASSUME RulesInv, NEW c \in Calls, TakeOut(c), UNCHANGED <<opener, called>>
  PROVE  /\ RulesInv'
         /\ \A r \in RulesOf[c] : r \notin open'
         /\ open' \subseteq open /\ disturbed \subseteq disturbed'
<1> USE GuardrailAssumption DEF GuardrailAssumption, RulesInv
<1>1. /\ open' = open \ (RulesOf[c] \cap open)
      /\ disturbed' = disturbed \cup ({opener[r] : r \in RulesOf[c] \cap open} \ {c})
  BY DEF TakeOut
<1>2. RulesTypeOK'
  BY <1>1 DEF RulesTypeOK, OpenRulesHaveOpeners
<1>3. OpenRulesHaveOpeners'
  BY <1>1 DEF OpenRulesHaveOpeners
<1>4. RulesFallTogether'
  <2> SUFFICES ASSUME NEW b \in Calls, NEW q \in RulesOf[b], NEW r \in RulesOf[b],
                      b \notin disturbed', q \in open', opener[q] = b
               PROVE  r \in open' /\ opener[r] = b
    BY DEF RulesFallTogether
  <2>1. b # c
    BY <1>1
  <2>2. r \in open /\ opener[r] = b
    BY <1>1 DEF RulesFallTogether
  <2>3. r \notin RulesOf[c]
    BY <1>1, <2>1, <2>2
  <2> QED
    BY <1>1, <2>2, <2>3
<1> QED
  BY <1>1, <1>2, <1>3, <1>4

(* Every step keeps the rules in order.                                    *)
LEMMA RulesKept == RulesInv /\ [Next]_vars => RulesInv'
<1> SUFFICES ASSUME RulesInv, [Next]_vars PROVE RulesInv'
  OBVIOUS
<1> USE GuardrailAssumption DEF GuardrailAssumption, RulesInv
<1>1. ASSUME UNCHANGED rulesVars PROVE RulesInv'
  BY <1>1 DEF rulesVars, RulesTypeOK, OpenRulesHaveOpeners, RulesFallTogether
<1>2. ASSUME NEW c \in Calls, AuthorizeIngress(c) PROVE RulesInv'
  <2>1. /\ c \notin called /\ called' = called \cup {c} /\ disturbed' = disturbed
        /\ RulesOf[c] \in SUBSET Rules
    BY <1>2 DEF AuthorizeIngress
  <2>2. CASE RulesOf[c] \cap open = {}
    <3>1. /\ open' = open \cup RulesOf[c]
          /\ opener' = [r \in Rules |-> IF r \in RulesOf[c] THEN c ELSE opener[r]]
      BY <1>2, <2>2 DEF AuthorizeIngress
    <3>2. RulesTypeOK'
      BY <2>1, <3>1 DEF RulesTypeOK
    <3>3. \A r \in open' : \/ r \in RulesOf[c] /\ opener'[r] = c
                           \/ r \in open /\ r \notin RulesOf[c] /\ opener'[r] = opener[r]
      BY <2>1, <2>2, <3>1 DEF RulesTypeOK
    <3>4. OpenRulesHaveOpeners'
      BY <2>1, <3>3 DEF OpenRulesHaveOpeners
    <3>5. RulesFallTogether'
      <4> SUFFICES ASSUME NEW b \in Calls, NEW q \in RulesOf[b], NEW r \in RulesOf[b],
                          b \notin disturbed, q \in open', opener'[q] = b
                   PROVE  r \in open' /\ opener'[r] = b
        BY <2>1 DEF RulesFallTogether
      <4>1. CASE b = c
        BY <2>1, <3>1, <4>1
      <4>2. CASE b # c
        <5>1. q \in open /\ opener[q] = b
          BY <3>3, <4>2
        <5>2. r \in open /\ opener[r] = b
          BY <5>1 DEF RulesFallTogether
        <5> QED
          BY <2>2, <3>1, <5>2 DEF RulesTypeOK
      <4> QED
        BY <4>1, <4>2
    <3> QED
      BY <3>2, <3>4, <3>5
  <2>3. CASE RulesOf[c] \cap open # {}
    <3>1. open' = open /\ opener' = opener
      BY <1>2, <2>3 DEF AuthorizeIngress
    <3> QED
      BY <2>1, <3>1 DEF RulesTypeOK, OpenRulesHaveOpeners, RulesFallTogether
  <2> QED
    BY <2>2, <2>3
<1>3. ASSUME NEW r \in Rules, CloseByHand(r) PROVE RulesInv'
  <2>1. /\ open' = open \ {r} /\ r \in open /\ disturbed' = disturbed \cup {opener[r]}
        /\ UNCHANGED <<opener, called>>
    BY <1>3 DEF CloseByHand
  <2>2. RulesTypeOK' /\ OpenRulesHaveOpeners'
    BY <2>1 DEF RulesTypeOK, OpenRulesHaveOpeners
  <2>3. RulesFallTogether'
    BY <2>1 DEF RulesFallTogether
  <2> QED
    BY <2>2, <2>3
<1>4. ASSUME NEW d \in Deliveries, Handle(d) \/ RevokeFails(d) \/ RevokeRepeats(d) PROVE RulesInv'
  <2>1. d[1] \in Calls
    BY DeliveryPairs
  <2>2. UNCHANGED <<opener, called>> /\ (TakeOut(d[1]) \/ UNCHANGED rulesVars)
    BY <1>4 DEF Handle, NoGroupId, Skip, Revoke, AlreadyRemoved, Notify, RevokeFails, RevokeRepeats, rulesVars
  <2> QED
    BY <1>1, <2>1, <2>2, TakingOutKeepsRules
<1>5. ASSUME NEW d \in Deliveries, Duplicate(d) \/ NotifyFails(d) PROVE UNCHANGED rulesVars
  BY <1>5 DEF Duplicate, NotifyFails, rulesVars
<1>6. ASSUME UNCHANGED vars PROVE UNCHANGED rulesVars
  BY <1>6 DEF vars, rulesVars
<1> QED
  BY <1>1, <1>2, <1>3, <1>4, <1>5, <1>6 DEF Next

-----------------------------------------------------------------------------
(* The events.                                                             *)

EventsTypeOK ==
  /\ defaultVpc \in BOOLEAN
  /\ phase \in [Deliveries -> {"none", "pending", "notify", "done", "dropped"}]
  /\ tries \in [Deliveries -> 0 .. MaxTries]
  /\ notices \in [Calls -> Nat]
  /\ reverted \subseteq Calls
  /\ struck \subseteq Calls
  /\ faults \in 0 .. MaxFaults
  /\ closes \in 0 .. MaxCloses

\* the part of the invariant that is about events only
EventsInv == EventsTypeOK /\ UncalledAreQuiet /\ NamesNeedDefaultVpc /\ TriesLeft

(* A step of the handler moves one delivery, at most once more than it may *)
(* be repeated.                                                            *)
LEMMA HandlerMovesOne ==
  ASSUME EventsTypeOK, TriesLeft, NEW d \in Deliveries, phase[d] \in {"pending", "notify"},
         \/ Repeat(d)
         \/ \E p \in {"notify", "done"} : Moves(d, p) /\ UNCHANGED tries
  PROVE  /\ phase' \in [Deliveries -> {"none", "pending", "notify", "done", "dropped"}]
         /\ tries' \in [Deliveries -> 0 .. MaxTries]
         /\ TriesLeft'
         /\ \A e \in Deliveries \ {d} : phase'[e] = phase[e]
<1> USE GuardrailAssumption DEF GuardrailAssumption, EventsTypeOK, TriesLeft, Moves
<1>1. CASE Repeat(d)
  <2>1. tries[d] \in Nat /\ MaxTries \in Nat /\ tries[d] < MaxTries
    OBVIOUS
  <2>2. tries' = [tries EXCEPT ![d] = tries[d] + 1]
    BY <1>1 DEF Repeat
  <2>3. PICK p \in {"pending", "dropped"} :
          phase' = [phase EXCEPT ![d] = p] /\ (p = "pending" => tries[d] + 1 < MaxTries)
    BY <1>1 DEF Repeat
  <2> QED
    BY <2>1, <2>2, <2>3
<1>2. CASE \E p \in {"notify", "done"} : Moves(d, p) /\ UNCHANGED tries
  BY <1>2
<1> QED
  BY <1>1, <1>2

(* Every step keeps the bookkeeping of events in order.                    *)
LEMMA EventsKept == RulesInv /\ EventsInv /\ [Next]_vars => EventsInv'
<1> SUFFICES ASSUME RulesInv, EventsInv, [Next]_vars PROVE EventsInv'
  OBVIOUS
<1> USE GuardrailAssumption DEF GuardrailAssumption, EventsInv
<1>1. ASSUME NEW c \in Calls, AuthorizeIngress(c) PROVE EventsInv'
  <2>1. /\ <<c, 1>> \in Deliveries /\ called' = called \cup {c}
        /\ phase' = [phase EXCEPT ![<<c, 1>>] = "pending"] /\ phase[<<c, 1>>] = "none"
        /\ UNCHANGED <<defaultVpc, tries, notices, reverted, struck, faults, closes>>
        /\ c \in ByName => defaultVpc
    BY <1>1, DeliveryPairs DEF AuthorizeIngress, UncalledAreQuiet
  <2>2. NamesNeedDefaultVpc'
    BY <2>1 DEF NamesNeedDefaultVpc
  <2> QED
    BY <2>1, <2>2 DEF EventsTypeOK, UncalledAreQuiet, TriesLeft
<1>2. ASSUME NEW d \in Deliveries, Duplicate(d) PROVE EventsInv'
  BY <1>2 DEF Duplicate, EventsTypeOK, UncalledAreQuiet, NamesNeedDefaultVpc, TriesLeft
<1>3. ASSUME NEW r \in Rules, CloseByHand(r) PROVE EventsInv'
  BY <1>3 DEF CloseByHand, EventsTypeOK, UncalledAreQuiet, NamesNeedDefaultVpc, TriesLeft
<1>4. ASSUME NEW d \in Deliveries,
             Handle(d) \/ RevokeFails(d) \/ RevokeRepeats(d) \/ NotifyFails(d)
      PROVE  EventsInv'
  <2>1. d[1] \in Calls /\ phase[d] \in {"pending", "notify"}
    BY <1>4, DeliveryPairs
       DEF Handle, NoGroupId, Skip, Revoke, AlreadyRemoved, Notify, RevokeFails, RevokeRepeats,
           NotifyFails, Offending
  <2>2. Repeat(d) \/ \E p \in {"notify", "done"} : Moves(d, p) /\ UNCHANGED tries
    BY <1>4 DEF Handle, NoGroupId, Skip, Revoke, AlreadyRemoved, Notify, RevokeFails,
                RevokeRepeats, NotifyFails
  <2>3. /\ UNCHANGED <<defaultVpc, called, closes>>
        /\ reverted' \in {reverted, reverted \cup {d[1]}}
        /\ notices' \in {notices, [notices EXCEPT ![d[1]] = @ + 1]}
        /\ UNCHANGED <<struck, faults>> \/ Fault(d)
    BY <1>4 DEF Handle, NoGroupId, Skip, Revoke, AlreadyRemoved, Notify, RevokeFails,
                RevokeRepeats, NotifyFails, TakeOut
  <2>4. EventsTypeOK'
    <3>1. notices' \in [Calls -> Nat] /\ reverted' \subseteq Calls
      BY <2>1, <2>3 DEF EventsTypeOK
    <3>2. struck' \subseteq Calls /\ faults' \in 0 .. MaxFaults
      BY <2>1, <2>3 DEF EventsTypeOK, Fault
    <3> QED
      BY <2>1, <2>2, <2>3, <3>1, <3>2, HandlerMovesOne DEF EventsTypeOK
  <2>5. UncalledAreQuiet' /\ NamesNeedDefaultVpc' /\ TriesLeft'
    BY <2>1, <2>2, <2>3, HandlerMovesOne DEF UncalledAreQuiet, NamesNeedDefaultVpc
  <2> QED
    BY <2>4, <2>5
<1>5. ASSUME UNCHANGED vars PROVE EventsInv'
  BY <1>5 DEF vars, EventsTypeOK, UncalledAreQuiet, NamesNeedDefaultVpc, TriesLeft
<1> QED
  BY <1>1, <1>2, <1>3, <1>4, <1>5 DEF Next

-----------------------------------------------------------------------------
(* What the handling of an event leaves behind.                            *)

\* the rules of a handled event are closed, and about to be told of
ClosedInv == NoticesFollowClosing /\ HandledMeansClosed

(* If nothing new is open and nobody else's trouble is forgotten, the      *)
(* events that stay where they are stay right.                             *)
LEMMA ClosedFramed ==
  ASSUME ClosedInv, NEW d \in Deliveries, UNCHANGED <<defaultVpc, opener>>,
         open' \subseteq open, disturbed \subseteq disturbed',
         \A e \in Deliveries \ {d} : phase'[e] = phase[e] \/ phase'[e] \notin {"notify", "done"},
         phase'[d] \in {"notify", "done"} =>
            \A r \in RulesOf[d[1]] : r \in open' /\ opener[r] = d[1] =>
               phase'[d] = "done" /\ LeftOpen(d[1])
  PROVE  ClosedInv'
<1> USE DEF ClosedInv
<1>1. NoticesFollowClosing'
  BY DEF NoticesFollowClosing
<1>2. HandledMeansClosed'
  <2>1. \A c : LeftOpen(c) => LeftOpen(c)'
    BY DEF LeftOpen
  <2> QED
    BY <2>1 DEF HandledMeansClosed
<1> QED
  BY <1>1, <1>2

(* Every step leaves the rules of the handled events closed.               *)
LEMMA ClosedKept == RulesInv /\ EventsInv /\ ClosedInv /\ [Next]_vars => ClosedInv'
<1> SUFFICES ASSUME RulesInv, EventsInv, ClosedInv, [Next]_vars PROVE ClosedInv'
  OBVIOUS
<1> USE GuardrailAssumption DEF GuardrailAssumption, RulesInv, EventsInv, EventsTypeOK
<1>1. ASSUME NEW c \in Calls, AuthorizeIngress(c) PROVE ClosedInv'
  <2>1. \A e \in Deliveries : phase'[e] \in {"notify", "done"} =>
           phase'[e] = phase[e] /\ e[1] # c
    BY <1>1 DEF AuthorizeIngress, UncalledAreQuiet
  <2>2. /\ UNCHANGED <<defaultVpc, disturbed>>
        /\ \A r \in Rules : r \in open' /\ opener'[r] # c => r \in open /\ opener'[r] = opener[r]
    BY <1>1 DEF AuthorizeIngress, RulesTypeOK
  <2>3. \A e \in Deliveries : e[1] \in Calls /\ RulesOf[e[1]] \subseteq Rules
    BY DeliveryPairs
  <2>4. NoticesFollowClosing'
    BY <2>1, <2>2, <2>3 DEF ClosedInv, NoticesFollowClosing
  <2>5. HandledMeansClosed'
    BY <2>1, <2>2, <2>3 DEF ClosedInv, HandledMeansClosed, LeftOpen
  <2> QED
    BY <2>4, <2>5 DEF ClosedInv
<1>2. ASSUME NEW d \in Deliveries, Duplicate(d) PROVE ClosedInv'
  BY <1>2, ClosedFramed DEF Duplicate
<1>3. ASSUME NEW r \in Rules, CloseByHand(r) PROVE ClosedInv'
  BY <1>3 DEF CloseByHand, ClosedInv, NoticesFollowClosing, HandledMeansClosed, LeftOpen
<1>4. ASSUME NEW d \in Deliveries, NoGroupId(d) \/ Skip(d) PROVE ClosedInv'
  <2>1. /\ phase'[d] = "done" /\ UNCHANGED <<defaultVpc, open, opener, disturbed>>
        /\ \A e \in Deliveries \ {d} : phase'[e] = phase[e]
    BY <1>4 DEF NoGroupId, Skip, Moves
  <2>2. NoGroupId(d) => LeftOpen(d[1])
    BY DeliveryPairs DEF NoGroupId, UncalledAreQuiet, NamesNeedDefaultVpc, LeftOpen
  <2>3. Skip(d) => RulesOf[d[1]] = {}
    BY DEF Skip
  <2> QED
    BY <1>4, <2>1, <2>2, <2>3, ClosedFramed
<1>5. ASSUME NEW d \in Deliveries, Revoke(d) \/ RevokeRepeats(d) PROVE ClosedInv'
  <2>1. d[1] \in Calls /\ TakeOut(d[1]) /\ UNCHANGED <<defaultVpc, opener, called>>
    BY <1>5, DeliveryPairs DEF Revoke, RevokeRepeats
  <2>2. \A e \in Deliveries \ {d} : phase'[e] = phase[e]
    BY <1>5 DEF Revoke, RevokeRepeats, Moves
  <2> QED
    BY <2>1, <2>2, ClosedFramed, TakingOutKeepsRules
<1>6. ASSUME NEW d \in Deliveries, AlreadyRemoved(d) PROVE ClosedInv'
  <2>1. /\ d[1] \in Calls /\ ~defaultVpc /\ phase'[d] = "done"
        /\ \A e \in Deliveries \ {d} : phase'[e] = phase[e]
        /\ UNCHANGED <<defaultVpc, open, opener, disturbed>>
    BY <1>6, DeliveryPairs DEF AlreadyRemoved, Moves, Found
  <2>2. PICK q \in RulesOf[d[1]] : q \notin open
    BY <1>6 DEF AlreadyRemoved, Found
  <2>3. ASSUME NEW r \in RulesOf[d[1]], r \in open, opener[r] = d[1]
        PROVE  d[1] \in disturbed
    BY <2>1, <2>2, <2>3 DEF RulesFallTogether
  <2> QED
    BY <2>1, <2>3, ClosedFramed DEF LeftOpen
<1>7. ASSUME NEW d \in Deliveries, RevokeFails(d) PROVE ClosedInv'
  <2>1. /\ d[1] \in Calls /\ UNCHANGED <<defaultVpc, opener, called>>
        /\ TakeOut(d[1]) \/ UNCHANGED <<open, disturbed>>
        /\ phase[d] \in {"pending", "notify"} /\ Repeat(d)
    BY <1>7, DeliveryPairs DEF RevokeFails, Offending
  <2>2. phase'[d] \in {"pending", "dropped"} /\ \A e \in Deliveries \ {d} : phase'[e] = phase[e]
    BY <2>1 DEF Repeat, Moves
  <2> QED
    BY <2>1, <2>2, ClosedFramed, TakingOutKeepsRules
<1>8. ASSUME NEW d \in Deliveries, Notify(d) \/ NotifyFails(d) PROVE ClosedInv'
  <2>1. /\ phase[d] = "notify" /\ UNCHANGED <<defaultVpc, open, opener, disturbed>>
        /\ \A e \in Deliveries \ {d} : phase'[e] = phase[e]
    BY <1>8 DEF Notify, NotifyFails, Repeat, Moves
  <2>2. \A r \in RulesOf[d[1]] : r \in open => opener[r] # d[1]
    BY <2>1 DEF ClosedInv, NoticesFollowClosing
  <2> QED
    BY <2>1, <2>2, ClosedFramed
<1>9. ASSUME UNCHANGED vars PROVE ClosedInv'
  BY <1>9 DEF vars, ClosedInv, NoticesFollowClosing, HandledMeansClosed, LeftOpen
<1> QED
  BY <1>1, <1>2, <1>3, <1>4, <1>5, <1>6, <1>7, <1>8, <1>9 DEF Next, Handle

(* Every step keeps what was taken out announced, or about to be.          *)
LEMMA AnnouncedKept ==
  EventsInv /\ RevocationsAreAnnounced /\ [Next]_vars => RevocationsAreAnnounced'
<1> SUFFICES ASSUME EventsInv, RevocationsAreAnnounced, [Next]_vars, NEW c \in reverted',
                    ~(notices'[c] > 0), c \notin struck'
             PROVE  \E k \in 1 .. Copies[c] : phase'[<<c, k>>] = "notify"
  BY DEF RevocationsAreAnnounced
<1> USE DEF EventsInv, EventsTypeOK
<1>0. c \in Calls => \A k \in 1 .. Copies[c] : <<c, k>> \in Deliveries
  BY DeliveryPairs
<1>1. ASSUME c \in reverted, notices'[c] = notices[c], struck \subseteq struck',
             \A k \in 1 .. Copies[c] : phase[<<c, k>>] = "notify" => phase'[<<c, k>>] = "notify"
      PROVE  \E k \in 1 .. Copies[c] : phase'[<<c, k>>] = "notify"
  BY <1>1 DEF RevocationsAreAnnounced
<1>2. ASSUME NEW b \in Calls, AuthorizeIngress(b)
      PROVE  \E k \in 1 .. Copies[c] : phase'[<<c, k>>] = "notify"
  <2>1. /\ UNCHANGED <<notices, reverted, struck>> /\ <<b, 1>> \in Deliveries
        /\ phase' = [phase EXCEPT ![<<b, 1>>] = "pending"] /\ phase[<<b, 1>>] = "none"
    BY <1>2, DeliveryPairs DEF AuthorizeIngress, UncalledAreQuiet
  <2> QED
    BY <1>0, <1>1, <2>1
<1>3. ASSUME NEW r \in Rules, CloseByHand(r)
      PROVE  \E k \in 1 .. Copies[c] : phase'[<<c, k>>] = "notify"
  BY <1>1, <1>3 DEF CloseByHand
<1>4. ASSUME NEW d \in Deliveries, Duplicate(d) \/ NoGroupId(d) \/ Skip(d) \/ AlreadyRemoved(d)
      PROVE  \E k \in 1 .. Copies[c] : phase'[<<c, k>>] = "notify"
  BY <1>0, <1>1, <1>4 DEF Duplicate, NoGroupId, Skip, AlreadyRemoved, Offending, Moves
<1>5. ASSUME NEW d \in Deliveries, Revoke(d)
      PROVE  \E k \in 1 .. Copies[c] : phase'[<<c, k>>] = "notify"
  <2>1. /\ phase[d] = "pending" /\ phase' = [phase EXCEPT ![d] = "notify"]
        /\ reverted' \in {reverted, reverted \cup {d[1]}} /\ UNCHANGED <<notices, struck>>
    BY <1>5 DEF Revoke, Offending, TakeOut, Moves
  <2>2. PICK b \in Calls : \E k \in 1 .. Copies[b] : d = <<b, k>>
    BY DeliveryPairs
  <2>3. CASE c = b
    BY <2>1, <2>2, <2>3
  <2>4. CASE c # b
    BY <1>0, <1>1, <2>1, <2>2, <2>4
  <2> QED
    BY <2>3, <2>4
<1>6. ASSUME NEW d \in Deliveries, RevokeFails(d) \/ RevokeRepeats(d) \/ NotifyFails(d)
      PROVE  \E k \in 1 .. Copies[c] : phase'[<<c, k>>] = "notify"
  <2>1. /\ \A e \in Deliveries \ {d} : phase'[e] = phase[e]
        /\ struck' = struck \cup {d[1]} /\ notices' = notices
        /\ reverted' \subseteq reverted \cup {d[1]}
    BY <1>6 DEF RevokeFails, RevokeRepeats, NotifyFails, Fault, Repeat, Moves, TakeOut
  <2>2. c # d[1]
    BY <2>1
  <2> QED
    BY <1>0, <1>1, <2>1, <2>2
<1>7. ASSUME NEW d \in Deliveries, Notify(d)
      PROVE  \E k \in 1 .. Copies[c] : phase'[<<c, k>>] = "notify"
  <2>1. /\ \A e \in Deliveries \ {d} : phase'[e] = phase[e]
        /\ notices' = [notices EXCEPT ![d[1]] = @ + 1] /\ UNCHANGED <<reverted, struck>>
    BY <1>7 DEF Notify, Moves
  <2>2. c # d[1] /\ c \in Calls
    BY <2>1
  <2>3. notices'[c] = notices[c]
    BY <2>1, <2>2
  <2>4. \A k \in 1 .. Copies[c] : phase'[<<c, k>>] = phase[<<c, k>>]
    BY <1>0, <2>1, <2>2
  <2> QED
    BY <1>1, <2>1, <2>3, <2>4
<1>8. ASSUME UNCHANGED vars
      PROVE  \E k \in 1 .. Copies[c] : phase'[<<c, k>>] = "notify"
  BY <1>1, <1>8 DEF vars
<1> QED
  BY <1>2, <1>3, <1>4, <1>5, <1>6, <1>7, <1>8 DEF Next, Handle

(* Every step keeps the invariant.                                         *)
LEMMA GuardrailKeeps == GuardrailIInv /\ [Next]_vars => GuardrailIInv'
<1>1. GuardrailIInv <=> RulesInv /\ EventsInv /\ ClosedInv /\ RevocationsAreAnnounced
  BY DEF GuardrailIInv, TypeOK, RulesInv, RulesTypeOK, EventsInv, EventsTypeOK, ClosedInv
<1>2. (RulesInv /\ EventsInv /\ ClosedInv /\ RevocationsAreAnnounced)' => GuardrailIInv'
  BY DEF GuardrailIInv, TypeOK, RulesInv, RulesTypeOK, EventsInv, EventsTypeOK, ClosedInv
<1> QED
  BY <1>1, <1>2, RulesKept, EventsKept, ClosedKept, AnnouncedKept

-----------------------------------------------------------------------------

(* The inductive invariant holds in every behaviour.                       *)
THEOREM GuardrailInductive == SafeSpec => []GuardrailIInv
BY GuardrailStarts, GuardrailKeeps, PTL DEF SafeSpec

(* What counts as handled is closed, whatever duplicates, repetitions,     *)
(* faults and races there are, but for two kinds of call: in a default VPC *)
(* one that named the group, in others one of whose rules somebody else    *)
(* closed first.                                                           *)
THEOREM HandledIsClosed == SafeSpec => []HandledMeansClosed
BY GuardrailInductive, PTL DEF GuardrailIInv

(* What is taken out is told of, unless a fault struck that very event.    *)
THEOREM RevocationsAreTold == SafeSpec => []RevocationsAreAnnounced
BY GuardrailInductive, PTL DEF GuardrailIInv

-----------------------------------------------------------------------------
(* Reaper.                                                                 *)

(* Time turns tags into tags, and keeps an age at most what it was at most. *)
LEMMA OlderTags ==
  /\ \A t \in Flags : Older(t) \in Flags /\ (Older(t) \in 0 .. Grace <=> t \in 0 .. Grace)
  /\ \A a \in 0 .. Grace : Older(a) \in 0 .. Grace
  /\ \A a, b \in 0 .. Grace : a <= b => Older(a) <= Older(b)
  /\ Older(Grace) = Grace
  /\ \A a \in 0 .. Grace : a <= Grace
BY ReaperAssumption DEF ReaperAssumption, Older, Flags

(* What sweep decides, case by case.                                       *)
LEMMA Verdicts ==
  ASSUME NEW t \in Flags
  PROVE  /\ Verdict(t) \in {"flag", "delete", "sweep"}
         /\ Verdict(t) = "delete" => t = Grace
BY ReaperAssumption DEF ReaperAssumption, Verdict, Flags

Shape == ReaperTypeOK /\ CallsHaveATarget

(* No invocation runs in the initial state.                                *)
LEMMA ReaperStarts == ReaperInit => ReaperIInv
<1> SUFFICES ASSUME ReaperInit PROVE ReaperIInv
  OBVIOUS
<1> USE ReaperAssumption DEF ReaperAssumption, ReaperInit
<1>1. ReaperTypeOK
  BY DEF ReaperTypeOK, Flags
<1>2. CallsHaveATarget
  BY DEF CallsHaveATarget
<1>3. FlagsAreEarned /\ ListingsAreEarned /\ EarlyReapsNeedReuse
  BY DEF FlagsAreEarned, ListingsAreEarned, EarlyReapsNeedReuse, IsEarned
<1>4. \A r \in Resources : AboutToTell(r) = {}
  BY DEF AboutToTell
<1>5. OneNoticePerReap
  <2>1. \A r \in Resources : /\ Cardinality(AboutToTell(r)) = 0
                            /\ reports[r] = 0 /\ place[r] # "gone"
    BY <1>4, FS_EmptySet
  <2> HIDE DEF ReaperInit
  <2> QED
    BY <2>1 DEF OneNoticePerReap
<1> QED
  BY <1>1, <1>2, <1>3, <1>5 DEF ReaperIInv

(* Every step keeps the types, and each call its target.                   *)
LEMMA ShapeKept == Shape /\ [ReaperNext]_reaperVars => Shape'
<1> SUFFICES ASSUME Shape, [ReaperNext]_reaperVars PROVE Shape'
  OBVIOUS
<1> USE ReaperAssumption DEF ReaperAssumption, Shape, ReaperTypeOK, CallsHaveATarget
<1>0. NoFlag \in Flags /\ 0 \in Flags /\ "volume" \in {"volume", "eip"}
  BY DEF Flags
<1>1. CASE Tick
  <2>1. /\ flag' \in [Resources -> Flags] /\ orphanFor' \in [Resources -> 0 .. Grace]
        /\ seen' \in [Invocations -> [Resources -> Flags]]
        /\ aged' \in [Invocations -> BOOLEAN]
    BY <1>1, OlderTags DEF Tick
  <2> QED
    BY <1>1, <2>1 DEF Tick
<1>2. ASSUME NEW r \in Resources, Use(r) \/ Abandon(r) PROVE Shape'
  BY <1>2 DEF Use, Abandon, lambda
<1>3. ASSUME NEW i \in Invocations, Invoke(i) PROVE Shape'
  BY <1>3 DEF Invoke, Goto, env
<1>4. ASSUME NEW i \in Invocations, Describe(i) PROVE Shape'
  BY <1>0, <1>4 DEF Describe, Goto, env, Listed
<1>5. ASSUME NEW i \in Invocations, Look(i) PROVE Shape'
  <2>1. PICK r \in todo[i] :
          /\ pc' = [pc EXCEPT ![i] = Verdict(seen[i][r])]
          /\ todo' = [todo EXCEPT ![i] = @ \ {r}]
          /\ cur' = [cur EXCEPT ![i] = IF pc'[i] = "sweep" THEN Nobody ELSE r]
          /\ seen' = [seen EXCEPT ![i][r] = IF pc'[i] = "flag" THEN 0 ELSE NoFlag]
    BY <1>5 DEF Look, Goto
  <2>2. r \in Resources /\ Verdict(seen[i][r]) \in {"flag", "delete", "sweep"}
    BY Verdicts
  <2>3. pc' \in [Invocations -> {"idle", "describe", "sweep", "flag", "delete", "notify"}]
    BY <2>1, <2>2
  <2>4. seen' \in [Invocations -> [Resources -> Flags]]
    BY <1>0, <2>1, <2>2
  <2>5. CallsHaveATarget' /\ cur' \in [Invocations -> Resources \cup {Nobody}]
    BY <2>1, <2>2, <2>3
  <2> QED
    BY <1>5, <2>1, <2>3, <2>4, <2>5 DEF Look, env
<1>6. ASSUME NEW i \in Invocations, NextOne(i)
      PROVE  /\ pc' \in [Invocations -> {"idle", "describe", "sweep", "flag", "delete", "notify"}]
             /\ kind' \in [Invocations -> {"volume", "eip"}]
             /\ todo' \in [Invocations -> SUBSET Resources]
             /\ seen' \in [Invocations -> [Resources -> Flags]]
             /\ cur' \in [Invocations -> Resources \cup {Nobody}]
             /\ aged' \in [Invocations -> BOOLEAN]
             /\ CallsHaveATarget'
  BY <1>0, <1>6 DEF NextOne, Goto
<1>7. ASSUME NEW i \in Invocations, Flag(i) PROVE Shape'
  <2>1. flag' \in [Resources -> Flags]
    BY <1>7 DEF Flag, Tagged
  <2> QED
    BY <1>6, <1>7, <2>1 DEF Flag
<1>8. ASSUME NEW i \in Invocations, Delete(i) PROVE Shape'
  <2>1. CASE NextOne(i) /\ UNCHANGED place
    BY <1>6, <1>8, <2>1 DEF Delete
  <2>2. CASE Goto(i, "notify") /\ place' = [place EXCEPT ![cur[i]] = "gone"]
               /\ UNCHANGED <<kind, todo, seen, cur, aged>>
    BY <1>8, <2>2 DEF Delete, Goto
  <2> QED
    BY <1>8, <2>1, <2>2 DEF Delete
<1>9. ASSUME NEW i \in Invocations, Report(i) PROVE Shape'
  BY <1>6, <1>9 DEF Report, env
<1>10. ASSUME NEW i \in Invocations, SweepDone(i) \/ DescribeFails(i) PROVE Shape'
  <2>1. mishaps' \in 0 .. MaxMishaps
    BY <1>10 DEF SweepDone, DescribeFails, Mishap
  <2>2. /\ pc' = [pc EXCEPT ![i] = IF kind[i] = "volume" THEN "describe" ELSE "idle"]
        /\ kind' = kind \/ kind' = [kind EXCEPT ![i] = "eip"]
        /\ aged' = aged \/ aged' = [aged EXCEPT ![i] = FALSE]
        /\ UNCHANGED <<place, flag, orphanFor, uses, reused, todo, seen, cur, reports, marred>>
    BY <1>10 DEF SweepDone, DescribeFails, EndSweep, Goto, env
  <2>3. /\ pc' \in [Invocations -> {"idle", "describe", "sweep", "flag", "delete", "notify"}]
        /\ kind' \in [Invocations -> {"volume", "eip"}] /\ aged' \in [Invocations -> BOOLEAN]
    BY <2>2
  <2>4. CallsHaveATarget'
    BY <2>2
  <2> QED
    BY <2>1, <2>2, <2>3, <2>4
<1>11. ASSUME NEW i \in Invocations, CallFails(i) PROVE Shape'
  BY <1>6, <1>11 DEF CallFails, Mishap, env
<1>12. ASSUME NEW i \in Invocations, ReplyLost(i) PROVE Shape'
  <2>1. CASE pc[i] = "delete" /\ NextOne(i) /\ place' = [place EXCEPT ![cur[i]] = "gone"]
               /\ UNCHANGED reports
    BY <1>6, <1>12, <2>1 DEF ReplyLost, Mishap
  <2>2. CASE pc[i] = "notify" /\ reports' = [reports EXCEPT ![cur[i]] = @ + 1]
               /\ UNCHANGED <<place, lambda>>
    BY <1>12, <2>2 DEF ReplyLost, Mishap, lambda
  <2> QED
    BY <1>12, <2>1, <2>2 DEF ReplyLost
<1>13. ASSUME NEW i \in Invocations, Die(i) PROVE Shape'
  BY <1>0, <1>13 DEF Die, Mishap, Goto, env
<1>14. CASE UNCHANGED reaperVars
  BY <1>14 DEF reaperVars, env, lambda
<1> QED
  BY <1>1, <1>2, <1>3, <1>4, <1>5, <1>7, <1>8, <1>9, <1>10, <1>11, <1>12, <1>13, <1>14
     DEF ReaperNext, LambdaStep

-----------------------------------------------------------------------------
(* Nothing is deleted early but what was in use again.                     *)

Earned == FlagsAreEarned /\ ListingsAreEarned /\ EarlyReapsNeedReuse

\* what FlagsAreEarned and ListingsAreEarned say of r
Earns(r) ==
  /\ IsEarned(flag[r], r)
  /\ \A i \in Invocations : r \in todo[i] \cup {cur[i]} =>
       /\ place[r] # "inUse"
       /\ IsEarned(seen[i][r], r)
       /\ pc[i] = "delete" /\ cur[i] = r => orphanFor[r] = Grace
  /\ place[r] = "gone" => orphanFor[r] = Grace

(* Earned, resource by resource.                                           *)
LEMMA EarnedOneByOne ==
  /\ Earned <=> \A r \in Resources \ reused : Earns(r)
  /\ Earned' <=> \A r \in Resources \ reused' : Earns(r)'
BY DEF Earned, Earns, FlagsAreEarned, ListingsAreEarned, EarlyReapsNeedReuse

(* A step of one invocation that only goes on with what it has listed      *)
(* keeps a resource's time earned.                                         *)
LEMMA EarnsFramed ==
  ASSUME NEW r \in Resources, Earns(r), NEW i \in Invocations,
         UNCHANGED <<place, flag, orphanFor>>,
         \A j \in Invocations \ {i} : /\ todo'[j] = todo[j] /\ cur'[j] = cur[j]
                                      /\ seen'[j] = seen[j] /\ pc'[j] = pc[j],
         r \in todo'[i] \cup {cur'[i]} =>
           /\ place[r] # "inUse"
           /\ IsEarned(seen'[i][r], r)
           /\ pc'[i] = "delete" /\ cur'[i] = r => orphanFor[r] = Grace
  PROVE  Earns(r)'
<1> SUFFICES ASSUME NEW j \in Invocations, (r \in todo[j] \cup {cur[j]})'
             PROVE  /\ place'[r] # "inUse"
                    /\ IsEarned(seen[j][r], r)'
                    /\ (pc[j] = "delete" /\ cur[j] = r => orphanFor[r] = Grace)'
  BY DEF Earns, IsEarned
<1>1. CASE j = i
  BY <1>1 DEF IsEarned
<1>2. CASE j # i
  BY <1>2 DEF Earns, IsEarned
<1> QED
  BY <1>1, <1>2

(* Time makes tags and orphans older alike.                                *)
LEMMA EarnsOverTime ==
  ASSUME Shape, NEW r \in Resources, Earns(r), Tick
  PROVE  Earns(r)'
<1> USE DEF Shape, ReaperTypeOK
<1>1. /\ place'[r] = place[r] /\ flag'[r] = Older(flag[r])
      /\ orphanFor'[r] = IF place[r] = "orphan" THEN Older(orphanFor[r]) ELSE orphanFor[r]
      /\ \A i \in Invocations : seen'[i][r] = Older(seen[i][r])
      /\ UNCHANGED <<todo, cur, pc>>
  BY DEF Tick
<1>2. place[r] # "orphan" => place[r] = "inUse" \/ orphanFor[r] = Grace
  BY DEF Earns
<1>3. ASSUME NEW t \in Flags, IsEarned(t, r)
      PROVE  Older(t) \in 0 .. Grace => place'[r] # "inUse" /\ Older(t) <= orphanFor'[r]
  <2> SUFFICES ASSUME Older(t) \in 0 .. Grace
               PROVE  place'[r] # "inUse" /\ Older(t) <= orphanFor'[r]
    OBVIOUS
  <2>1. t \in 0 .. Grace /\ place[r] # "inUse" /\ t <= orphanFor[r]
    BY <1>3, OlderTags DEF IsEarned
  <2>2. CASE place[r] = "orphan"
    BY <1>1, <2>1, <2>2, OlderTags
  <2>3. CASE place[r] # "orphan"
    BY <1>1, <1>2, <2>1, <2>3, OlderTags
  <2> QED
    BY <2>2, <2>3
<1>4. orphanFor[r] = Grace => orphanFor'[r] = Grace
  BY <1>1, OlderTags
<1>5. IsEarned(flag[r], r)'
  BY <1>1, <1>3 DEF Earns, IsEarned
<1>6. \A i \in Invocations : r \in todo[i] \cup {cur[i]} => IsEarned(seen[i][r], r)'
  BY <1>1, <1>3 DEF Earns, IsEarned
<1> QED
  BY <1>1, <1>4, <1>5, <1>6 DEF Earns

(* What an invocation flags, it stamps with a time at which the resource   *)
(* was an orphan already.                                                  *)
LEMMA EarnsInSweep ==
  ASSUME Shape, NEW r \in Resources, Earns(r), NEW i \in Invocations,
         Describe(i) \/ Look(i) \/ Flag(i)
  PROVE  Earns(r)'
<1> USE ReaperAssumption DEF ReaperAssumption, Shape, ReaperTypeOK
<1>0. /\ IsEarned(NoFlag, r)
      /\ place[r] # "inUse" => IsEarned(0, r)
  BY DEF IsEarned
<1>1. CASE Describe(i)
  <2>1. /\ todo' = [todo EXCEPT ![i] = Listed(i)] /\ pc' = [pc EXCEPT ![i] = "sweep"]
        /\ seen' = [seen EXCEPT ![i] = [q \in Resources |-> IF q \in Listed(i) THEN flag[q] ELSE NoFlag]]
        /\ UNCHANGED <<place, flag, orphanFor, cur>>
    BY <1>1 DEF Describe, Goto, env
  <2>2. r \in todo'[i] \cup {cur'[i]} => place[r] # "inUse"
    BY <2>1 DEF Listed, Earns
  <2>3. seen'[i][r] \in {flag[r], NoFlag}
    BY <2>1
  <2>4. IsEarned(seen'[i][r], r)
    BY <1>0, <2>3 DEF Earns
  <2>5. pc'[i] # "delete"
    BY <2>1
  <2>6. \A j \in Invocations \ {i} : /\ todo'[j] = todo[j] /\ cur'[j] = cur[j]
                                      /\ seen'[j] = seen[j] /\ pc'[j] = pc[j]
    BY <2>1
  <2> QED
    BY <2>1, <2>2, <2>4, <2>5, <2>6, EarnsFramed
<1>2. CASE Look(i)
  <2>1. PICK q \in todo[i] :
          /\ pc' = [pc EXCEPT ![i] = Verdict(seen[i][q])]
          /\ todo' = [todo EXCEPT ![i] = @ \ {q}]
          /\ cur' = [cur EXCEPT ![i] = IF pc'[i] = "sweep" THEN Nobody ELSE q]
          /\ seen' = [seen EXCEPT ![i][q] = IF pc'[i] = "flag" THEN 0 ELSE NoFlag]
    BY <1>2 DEF Look, Goto
  <2>2. UNCHANGED <<place, flag, orphanFor>>
    BY <1>2 DEF Look, env
  <2>3. \A j \in Invocations \ {i} : /\ todo'[j] = todo[j] /\ cur'[j] = cur[j]
                                      /\ seen'[j] = seen[j] /\ pc'[j] = pc[j]
    BY <2>1
  <2>4. r \in todo'[i] \cup {cur'[i]} => r \in todo[i]
    BY <2>1
  <2>5. r \in todo[i] => place[r] # "inUse" /\ IsEarned(seen[i][r], r)
    BY DEF Earns
  <2>6. seen'[i][r] \in {seen[i][r], 0, NoFlag}
    BY <2>1
  <2>7. r \in todo[i] => IsEarned(seen'[i][r], r)
    BY <1>0, <2>5, <2>6
  <2>8. pc'[i] = "delete" /\ cur'[i] = r => orphanFor[r] = Grace
    <3> SUFFICES ASSUME pc'[i] = "delete", cur'[i] = r PROVE orphanFor[r] = Grace
      OBVIOUS
    <3>1. q = r /\ Verdict(seen[i][r]) = "delete" /\ r \in todo[i]
      BY <2>1
    <3>2. seen[i][r] = Grace
      BY <3>1, Verdicts
    <3>3. Grace <= orphanFor[r] /\ orphanFor[r] \in 0 .. Grace
      BY <2>5, <3>1, <3>2 DEF IsEarned
    <3>4. \A a \in 0 .. Grace : Grace <= a => a = Grace
      OBVIOUS
    <3> QED
      BY <3>3, <3>4
  <2> QED
    BY <2>2, <2>3, <2>4, <2>5, <2>7, <2>8, EarnsFramed
<1>3. CASE Flag(i)
  <2>1. /\ UNCHANGED <<place, orphanFor, todo>> /\ pc' = [pc EXCEPT ![i] = "sweep"]
        /\ cur' = [cur EXCEPT ![i] = Nobody]
        /\ seen' = [seen EXCEPT ![i] = [q \in Resources |-> IF q \in todo[i] THEN seen[i][q] ELSE NoFlag]]
    BY <1>3 DEF Flag, NextOne, Goto
  <2>2. flag'[r] = flag[r] \/ (cur[i] = r /\ flag'[r] = seen[i][r])
    BY <1>3 DEF Flag, Tagged
  <2>3. IsEarned(flag'[r], r)
    BY <2>2 DEF Earns
  <2>4. \A j \in Invocations : r \in todo'[j] \cup {cur'[j]} =>
          /\ r \in todo[j] \cup {cur[j]}
          /\ seen'[j][r] \in {seen[j][r], NoFlag}
          /\ pc'[j] = "delete" /\ cur'[j] = r => pc[j] = "delete" /\ cur[j] = r
    BY <2>1
  <2>5. \A j \in Invocations : r \in todo'[j] \cup {cur'[j]} =>
          /\ place[r] # "inUse"
          /\ IsEarned(seen'[j][r], r)
          /\ pc'[j] = "delete" /\ cur'[j] = r => orphanFor[r] = Grace
    BY <1>0, <2>4 DEF Earns
  <2> QED
    BY <2>1, <2>3, <2>5 DEF Earns, IsEarned
<1> QED
  BY <1>1, <1>2, <1>3

(* An invocation deletes only what was an orphan for the grace period.     *)
LEMMA EarnsInDelete ==
  ASSUME Shape, NEW r \in Resources, Earns(r), NEW i \in Invocations,
         Delete(i) \/ ReplyLost(i)
  PROVE  Earns(r)'
<1> USE ReaperAssumption DEF ReaperAssumption, Shape, ReaperTypeOK
<1>0. IsEarned(NoFlag, r)
  BY DEF IsEarned
<1>1. /\ UNCHANGED <<flag, orphanFor, todo>>
      /\ place'[r] = place[r] \/ (pc[i] = "delete" /\ cur[i] = r /\ place'[r] = "gone")
  BY DEF Delete, ReplyLost, NextOne, lambda
<1>2. \A j \in Invocations :
        /\ pc'[j] = "delete" => pc[j] = "delete"
        /\ cur'[j] \in {cur[j], Nobody}
        /\ seen'[j][r] \in {seen[j][r], NoFlag}
  BY DEF Delete, ReplyLost, NextOne, Goto, lambda
<1>3. \A j \in Invocations : r \in todo'[j] \cup {cur'[j]} =>
        /\ r \in todo[j] \cup {cur[j]}
        /\ seen'[j][r] \in {seen[j][r], NoFlag}
        /\ pc'[j] = "delete" /\ cur'[j] = r => pc[j] = "delete" /\ cur[j] = r
  BY <1>1, <1>2
<1>4. \A j \in Invocations : r \in todo'[j] \cup {cur'[j]} =>
        /\ place[r] # "inUse"
        /\ IsEarned(seen'[j][r], r)
        /\ pc'[j] = "delete" /\ cur'[j] = r => orphanFor[r] = Grace
  BY <1>0, <1>3 DEF Earns
<1>5. place'[r] = "gone" => orphanFor[r] = Grace
  BY <1>1 DEF Earns
<1>6. place'[r] = "inUse" => place[r] = "inUse"
  BY <1>1
<1> QED
  BY <1>1, <1>4, <1>5, <1>6 DEF Earns, IsEarned

(* The other steps of an invocation forget or keep what it listed.         *)
LEMMA EarnsElsewhere ==
  ASSUME Shape, NEW r \in Resources, Earns(r), NEW i \in Invocations,
         \/ Invoke(i) \/ Report(i) \/ SweepDone(i) \/ DescribeFails(i)
         \/ CallFails(i) \/ Die(i)
  PROVE  Earns(r)'
<1> USE ReaperAssumption DEF ReaperAssumption, Shape, ReaperTypeOK
<1>0. IsEarned(NoFlag, r)
  BY DEF IsEarned
<1>1. UNCHANGED <<place, flag, orphanFor>>
  BY DEF Invoke, Report, SweepDone, DescribeFails, EndSweep, CallFails, Die, env
<1>2. /\ todo'[i] \subseteq todo[i] /\ cur'[i] \in {cur[i], Nobody}
      /\ seen'[i][r] \in {seen[i][r], NoFlag} /\ pc'[i] # "delete"
      /\ \A j \in Invocations \ {i} : /\ todo'[j] = todo[j] /\ cur'[j] = cur[j]
                                       /\ seen'[j] = seen[j] /\ pc'[j] = pc[j]
  BY DEF Invoke, Report, SweepDone, DescribeFails, EndSweep, CallFails, Die, NextOne, Goto
<1>3. r \in todo'[i] \cup {cur'[i]} => place[r] # "inUse" /\ IsEarned(seen'[i][r], r)
  BY <1>0, <1>2 DEF Earns
<1> QED
  BY <1>1, <1>2, <1>3, EarnsFramed

(* A resource taken into use that no invocation has flagged or listed has  *)
(* no time to its name.                                                    *)
LEMMA EarnsInUse ==
  ASSUME Shape, NEW r \in Resources \ reused', Earns(r), NEW q \in Resources,
         Use(q) \/ Abandon(q)
  PROVE  Earns(r)'
<1> USE DEF Shape, ReaperTypeOK
<1>0. UNCHANGED <<flag, todo, seen, cur, pc>>
  BY DEF Use, Abandon, lambda
<1>1. CASE q # r
  <2>1. place'[r] = place[r] /\ orphanFor'[r] = orphanFor[r]
    BY <1>1 DEF Use, Abandon
  <2> QED
    BY <1>0, <2>1 DEF Earns, IsEarned
<1>2. CASE q = r /\ Use(r)
  <2>1. flag[r] = NoFlag /\ ~InSight(r) /\ place'[r] = "inUse"
    BY <1>2 DEF Use
  <2>2. \A i \in Invocations : r \notin todo[i] \cup {cur[i]}
    BY <2>1 DEF InSight
  <2>3. NoFlag \notin 0 .. Grace
    BY ReaperAssumption DEF ReaperAssumption
  <2> QED
    BY <1>0, <2>1, <2>2, <2>3 DEF Earns, IsEarned
<1>3. CASE q = r /\ Abandon(r)
  <2>1. place[r] = "inUse" /\ place'[r] = "orphan" /\ orphanFor' = orphanFor
    BY <1>3 DEF Abandon
  <2> QED
    BY <1>0, <2>1 DEF Earns, IsEarned
<1> QED
  BY <1>1, <1>2, <1>3

(* Every step keeps the time earned.                                       *)
LEMMA EarnedKept == Shape /\ Earned /\ [ReaperNext]_reaperVars => Earned'
<1> SUFFICES ASSUME Shape, Earned, [ReaperNext]_reaperVars, NEW r \in Resources \ reused'
             PROVE  Earns(r)'
  BY EarnedOneByOne
<1>1. reused \subseteq reused'
  BY DEF ReaperNext, LambdaStep, reaperVars, env, Tick, Use, Abandon, Invoke, Describe, Look, Flag,
         Delete, Report, SweepDone, DescribeFails, EndSweep, CallFails, ReplyLost, Die
<1>2. r \in Resources /\ Earns(r)
  BY <1>1, EarnedOneByOne
<1>3. CASE UNCHANGED reaperVars
  BY <1>2, <1>3 DEF reaperVars, env, lambda, Earns, IsEarned
<1> QED
  BY <1>2, <1>3, EarnsOverTime, EarnsInSweep, EarnsInDelete, EarnsElsewhere, EarnsInUse
     DEF ReaperNext, LambdaStep

-----------------------------------------------------------------------------
(* One message for each deletion.                                          *)

\* what OneNoticePerReap says of r
Told(r) == reports[r] + Cardinality(AboutToTell(r)) = IF place[r] = "gone" THEN 1 ELSE 0

(* The invocations about to tell of a resource are finitely many.          *)
LEMMA TellersFinite ==
  ASSUME NEW r
  PROVE  IsFiniteSet(AboutToTell(r)) /\ Cardinality(AboutToTell(r)) \in Nat
<1>1. IsFiniteSet(AboutToTell(r))
  BY ReaperAssumption, FS_Subset DEF ReaperAssumption, AboutToTell
<1> QED
  BY <1>1, FS_CardinalityType

(* Only a deletion makes one more of them, and only a message, a mishap or *)
(* a death one less.                                                       *)
LEMMA ToldKept ==
  ASSUME Shape, OneNoticePerReap, NEW r \in Resources \ marred', [ReaperNext]_reaperVars
  PROVE  Told(r)'
<1> USE DEF Shape, ReaperTypeOK
<1>0. marred \subseteq marred'
  BY DEF ReaperNext, LambdaStep, reaperVars, Tick, Use, Abandon, Invoke, Describe, Look, Flag,
         Delete, Report, SweepDone, DescribeFails, EndSweep, CallFails, ReplyLost, Die
<1>1. Told(r) /\ r \in Resources
  BY <1>0 DEF OneNoticePerReap, Told
<1> DEFINE Same == /\ AboutToTell(r)' = AboutToTell(r) /\ reports'[r] = reports[r]
                   /\ place'[r] = "gone" <=> place[r] = "gone"
<1>2. Same => Told(r)'
  BY <1>1 DEF Told
<1>3. reports[r] \in Nat /\ Cardinality(AboutToTell(r)) \in Nat /\ IsFiniteSet(AboutToTell(r))
  BY <1>1, TellersFinite
<1>4. ASSUME NEW q \in Resources, Use(q) \/ Abandon(q) PROVE Same
  BY <1>1, <1>4 DEF Use, Abandon, lambda, AboutToTell
<1>5. CASE Tick
  BY <1>2, <1>5 DEF Tick, AboutToTell
<1>6. ASSUME NEW i \in Invocations, Invoke(i) \/ Describe(i) PROVE Same
  BY <1>6 DEF Invoke, Describe, Goto, env, AboutToTell
<1>7. ASSUME NEW i \in Invocations, Look(i) PROVE Same
  <2>1. PICK q \in todo[i] :
          /\ pc[i] = "sweep" /\ pc' = [pc EXCEPT ![i] = Verdict(seen[i][q])]
          /\ \E c : cur' = [cur EXCEPT ![i] = c]
    BY <1>7 DEF Look, Goto
  <2>2. pc'[i] # "notify" /\ \A j \in Invocations \ {i} : pc'[j] = pc[j] /\ cur'[j] = cur[j]
    BY <2>1, Verdicts
  <2>3. AboutToTell(r)' = AboutToTell(r)
    BY <2>1, <2>2 DEF AboutToTell
  <2> QED
    BY <1>7, <2>3 DEF Look, env
<1>8. ASSUME NEW i \in Invocations, NextOne(i), pc[i] # "notify" \/ cur[i] # r
      PROVE  AboutToTell(r)' = AboutToTell(r)
  BY <1>8 DEF NextOne, Goto, AboutToTell
<1>9. ASSUME NEW i \in Invocations, Flag(i) PROVE Same
  BY <1>8, <1>9 DEF Flag
<1>10. ASSUME NEW i \in Invocations, Delete(i) PROVE Told(r)'
  <2>1. CASE NextOne(i) /\ UNCHANGED place
    BY <1>2, <1>8, <1>10, <2>1 DEF Delete
  <2>2. CASE /\ place[cur[i]] = "orphan" /\ place' = [place EXCEPT ![cur[i]] = "gone"]
             /\ Goto(i, "notify") /\ UNCHANGED cur
    <3>1. pc[i] = "delete" /\ reports' = reports
      BY <1>10 DEF Delete
    <3>2. CASE cur[i] # r
      <4>1. AboutToTell(r)' = AboutToTell(r) /\ place'[r] = place[r]
        BY <2>2, <3>1, <3>2 DEF Goto, AboutToTell
      <4> QED
        BY <1>2, <3>1, <4>1
    <3>3. CASE cur[i] = r
      <4>1. AboutToTell(r)' = AboutToTell(r) \cup {i} /\ i \notin AboutToTell(r)
        BY <2>2, <3>1, <3>3 DEF Goto, AboutToTell
      <4>2. Cardinality(AboutToTell(r)') = Cardinality(AboutToTell(r)) + 1
        BY <1>3, <4>1, FS_AddElement
      <4>3. place[r] = "orphan" /\ place'[r] = "gone"
        BY <1>1, <2>2, <3>3
      <4> QED
        BY <1>1, <1>3, <3>1, <4>2, <4>3 DEF Told
    <3> QED
      BY <3>2, <3>3
  <2> QED
    BY <1>10, <2>1, <2>2 DEF Delete
<1>11. ASSUME NEW i \in Invocations, Report(i) PROVE Told(r)'
  <2>1. /\ pc[i] = "notify" /\ NextOne(i) /\ UNCHANGED place
        /\ reports' = [reports EXCEPT ![cur[i]] = @ + 1]
    BY <1>11 DEF Report, env
  <2>2. CASE cur[i] # r
    <3>1. Same
      BY <1>1, <1>8, <2>1, <2>2
    <3> QED
      BY <1>2, <3>1
  <2>3. CASE cur[i] = r
    <3>1. AboutToTell(r)' = AboutToTell(r) \ {i} /\ i \in AboutToTell(r)
      BY <2>1, <2>3 DEF NextOne, Goto, AboutToTell
    <3>2. Cardinality(AboutToTell(r)') = Cardinality(AboutToTell(r)) - 1
      BY <1>3, <3>1, FS_RemoveElement
    <3>3. reports'[r] = reports[r] + 1
      BY <1>1, <2>1, <2>3
    <3> QED
      BY <1>1, <1>3, <2>1, <3>2, <3>3 DEF Told
  <2> QED
    BY <2>2, <2>3
<1>12. ASSUME NEW i \in Invocations, SweepDone(i) \/ DescribeFails(i) PROVE Same
  <2>1. /\ pc[i] # "notify" /\ pc'[i] # "notify" /\ UNCHANGED <<cur, place, reports>>
        /\ \A j \in Invocations \ {i} : pc'[j] = pc[j]
    BY <1>12 DEF SweepDone, DescribeFails, EndSweep, Goto, env
  <2> QED
    BY <2>1 DEF AboutToTell
<1>13. ASSUME NEW i \in Invocations, CallFails(i) PROVE Same
  <2>1. pc[i] # "notify" \/ cur[i] # r
    BY <1>13 DEF CallFails
  <2> QED
    BY <1>8, <1>13, <2>1 DEF CallFails, env
<1>14. ASSUME NEW i \in Invocations, ReplyLost(i) PROVE Same
  <2>1. cur[i] # r
    BY <1>14 DEF ReplyLost
  <2>2. CASE NextOne(i) /\ place' = [place EXCEPT ![cur[i]] = "gone"] /\ UNCHANGED reports
    BY <1>1, <1>8, <2>1, <2>2
  <2>3. CASE reports' = [reports EXCEPT ![cur[i]] = @ + 1] /\ UNCHANGED <<place, lambda>>
    BY <1>1, <2>1, <2>3 DEF lambda, AboutToTell
  <2> QED
    BY <1>14, <2>2, <2>3 DEF ReplyLost
<1>15. ASSUME NEW i \in Invocations, Die(i) PROVE Same
  <2>1. pc[i] # "notify" \/ cur[i] # r
    BY <1>15 DEF Die
  <2>2. /\ pc'[i] = "idle" /\ UNCHANGED <<place, reports>>
        /\ \A j \in Invocations \ {i} : pc'[j] = pc[j] /\ cur'[j] = cur[j]
    BY <1>15 DEF Die, Goto, env
  <2> QED
    BY <2>1, <2>2 DEF AboutToTell
<1>16. CASE UNCHANGED reaperVars
  BY <1>2, <1>16 DEF reaperVars, env, lambda, AboutToTell
<1> QED
  BY <1>2, <1>4, <1>5, <1>6, <1>7, <1>9, <1>10, <1>11, <1>12, <1>13, <1>14, <1>15, <1>16
     DEF ReaperNext, LambdaStep

-----------------------------------------------------------------------------

(* ReaperIInv is an inductive invariant of the reaper.                     *)
THEOREM ReaperInductive == ReaperSafeSpec => []ReaperIInv
<1>1. ReaperIInv /\ [ReaperNext]_reaperVars => ReaperIInv'
  <2> SUFFICES ASSUME ReaperIInv, [ReaperNext]_reaperVars PROVE ReaperIInv'
    OBVIOUS
  <2>1. Shape /\ Earned /\ OneNoticePerReap
    BY DEF ReaperIInv, Shape, Earned
  <2>2. Shape' /\ Earned'
    BY <2>1, ShapeKept, EarnedKept
  <2>3. OneNoticePerReap'
    BY <2>1, ToldKept DEF OneNoticePerReap, Told
  <2> QED
    BY <2>2, <2>3 DEF ReaperIInv, Shape, Earned
<1> QED
  BY <1>1, ReaperStarts, PTL DEF ReaperSafeSpec

(* However invocations race, and whatever fails, a resource is deleted     *)
(* before its grace period is over only if it was in use again after it    *)
(* had been flagged or listed.                                             *)
THEOREM NothingIsReapedEarly == ReaperSafeSpec => []EarlyReapsNeedReuse
BY ReaperInductive, PTL DEF ReaperIInv

(* A deletion is announced once, by whichever of several invocations made  *)
(* it, unless a fault struck the call that deletes or the one that tells.  *)
THEOREM ReapsAreToldOnce == ReaperSafeSpec => []OneNoticePerReap
BY ReaperInductive, PTL DEF ReaperIInv
==============================================================================
