-------------------------- MODULE OutboxRelayProofs --------------------------
(***************************************************************************)
(* Theorems about OutboxRelay, for any set of rows, any finite set of      *)
(* relays, any batch size, any order of creation times, any set of poison  *)
(* rows and any number of faults; and about Catalog, which runs the relay, *)
(* for any set of requests as well.                                        *)
(***************************************************************************)
EXTENDS Catalog, FiniteSetTheorems, TLAPS

\* the part of the invariant that counts nothing
Core ==
  /\ RelayTypeOK
  /\ LocksAreExclusive
  /\ LockedRowsArePending
  /\ BusyRelaysHaveARow
  /\ AtLeastOnce
  /\ NothingInvented

(* Nobody holds a row and nothing is delivered in the initial state.       *)
LEMMA CoreInit == RelayInit => Core
BY OutboxAssumption
   DEF RelayInit, Core, RelayTypeOK, LocksAreExclusive, LockedRowsArePending,
       BusyRelaysHaveARow, AtLeastOnce, NothingInvented

(* Every step of the handlers, the relays and the faults keeps Core.       *)
LEMMA CoreStep == Core /\ [RelayNext]_relayVars => Core'
<1> USE OutboxAssumption DEF Core, RelayTypeOK, LocksAreExclusive, LockedRowsArePending,
            BusyRelaysHaveARow, AtLeastOnce, NothingInvented
<1> SUFFICES ASSUME Core, [RelayNext]_relayVars PROVE Core'
  OBVIOUS
<1>1. ASSUME NEW o \in Rows, Record(o) PROVE Core'
  BY <1>1 DEF Record, loopVars
<1>2. ASSUME NEW w \in Relays, Tick(w) PROVE Core'
  BY <1>2 DEF Tick
<1>3. ASSUME NEW w \in Relays, Select(w) PROVE Core'
  BY <1>3 DEF Select, Oldest, Selectable, Locked
<1>4. ASSUME NEW w \in Relays, EndBatch(w) PROVE Core'
  BY <1>4 DEF EndBatch, Wait
<1>5. ASSUME NEW w \in Relays, PublishOK(w) PROVE Core'
  BY <1>5 DEF PublishOK, Accept
<1>6. ASSUME NEW w \in Relays, PublishRejected(w) PROVE Core'
  BY <1>6 DEF PublishRejected, Return
<1>7. ASSUME NEW w \in Relays, MarkCommit(w) PROVE Core'
  BY <1>7 DEF MarkCommit, Return
<1>8. ASSUME NEW w \in Relays, MarkOnDeadTx(w) PROVE Core'
  BY <1>8 DEF MarkOnDeadTx, Return
<1>9. ASSUME NEW w \in Relays, PollFails(w) PROVE Core'
  BY <1>9 DEF PollFails, Wait, Fault
<1>10. ASSUME NEW w \in Relays, SinkFails(w) PROVE Core'
  BY <1>10 DEF SinkFails, Return, Fault, Accept
<1>11. ASSUME NEW w \in Relays, MarkFails(w) PROVE Core'
  BY <1>11 DEF MarkFails, Return, Fault
<1>12. ASSUME NEW w \in Relays, TxLost(w) PROVE Core'
  BY <1>12 DEF TxLost, Fault
<1>13. ASSUME NEW w \in Relays, Restart(w) PROVE Core'
  BY <1>13 DEF Restart, Wait, Fault, Accept
<1>14. ASSUME NEW w \in Relays, SinkRepeats(w) PROVE Core'
  BY <1>14 DEF SinkRepeats, Fault, Accept, loopVars
<1>15. CASE UNCHANGED relayVars
  BY <1>15 DEF relayVars, loopVars
<1> QED
  BY <1>1, <1>2, <1>3, <1>4, <1>5, <1>6, <1>7, <1>8, <1>9, <1>10, <1>11,
     <1>12, <1>13, <1>14, <1>15 DEF RelayNext, RelayStep, FaultStep

-----------------------------------------------------------------------------
(* Counting deliveries.                                                    *)

\* what DeliveriesAccounted says of one row
Accounted(o) ==
  delivered[o] + Cardinality(Orphans(o)) <= strikes[o] + IF Done(o) THEN 1 ELSE 0

(* The orphans of a row are relays, so there are finitely many.            *)
LEMMA OrphansFinite ==
  ASSUME NEW o \in Rows
  PROVE  /\ IsFiniteSet(Orphans(o)) /\ Cardinality(Orphans(o)) \in Nat
         /\ IsFiniteSet(Orphans(o))' /\ Cardinality(Orphans(o))' \in Nat
<1>1. IsFiniteSet(Orphans(o)) /\ IsFiniteSet(Orphans(o)')
  BY OutboxAssumption, FS_Subset DEF Orphans, OutboxAssumption
<1> QED
  BY <1>1, FS_CardinalityType

(* When the orphans of a row grow by at most one relay, or shrink by one,  *)
(* so does their number.                                                   *)
LEMMA OrphansChange ==
  ASSUME NEW o \in Rows, NEW w \in Relays
  PROVE  /\ Orphans(o)' = Orphans(o) \cup {w} =>
              Cardinality(Orphans(o))' <= Cardinality(Orphans(o)) + 1
         /\ Orphans(o)' = Orphans(o) \ {w} =>
              /\ Cardinality(Orphans(o))' <= Cardinality(Orphans(o))
              /\ w \in Orphans(o) =>
                   Cardinality(Orphans(o))' = Cardinality(Orphans(o)) - 1
<1>1. IsFiniteSet(Orphans(o)) /\ Cardinality(Orphans(o)) \in Nat
  BY OrphansFinite
<1>2. Cardinality(Orphans(o) \cup {w}) =
        IF w \in Orphans(o) THEN Cardinality(Orphans(o)) ELSE Cardinality(Orphans(o)) + 1
  BY <1>1, FS_AddElement
<1>3. Cardinality(Orphans(o) \ {w}) =
        IF w \in Orphans(o) THEN Cardinality(Orphans(o)) - 1 ELSE Cardinality(Orphans(o))
  BY <1>1, FS_RemoveElement
<1>4. Cardinality(Orphans(o) \cup {w}) <= Cardinality(Orphans(o)) + 1
  BY <1>1, <1>2
<1>5. /\ Cardinality(Orphans(o) \ {w}) <= Cardinality(Orphans(o))
      /\ w \in Orphans(o) => Cardinality(Orphans(o) \ {w}) = Cardinality(Orphans(o)) - 1
  BY <1>1, <1>3
<1> QED
  BY <1>4, <1>5

(* A step that leaves the books of a row alone, or only lets the row become *)
(* done or an orphan disappear, keeps the row accounted for.               *)
LEMMA BooksBalance ==
  ASSUME Core, NEW o \in Rows, Accounted(o),
         NEW k \in Nat, NEW j \in Nat, delivered'[o] = delivered[o] + k,
         strikes'[o] = strikes[o] + j,
         Cardinality(Orphans(o))' \in Nat,
         \/ k <= j /\ (Done(o) => Done(o)') /\ Cardinality(Orphans(o))' <= Cardinality(Orphans(o))
         \/ /\ k = 1 /\ j = 0
            /\ \/ /\ ~Done(o) /\ Done(o)'
                  /\ Cardinality(Orphans(o))' <= Cardinality(Orphans(o))
               \/ /\ Done(o) => Done(o)'
                  /\ Cardinality(Orphans(o))' = Cardinality(Orphans(o)) - 1
         \/ k = 0 /\ j = 1 /\ (Done(o) => Done(o)')
              /\ Cardinality(Orphans(o))' <= Cardinality(Orphans(o)) + 1
         \/ k = 0 /\ j = 1 /\ Cardinality(Orphans(o))' <= Cardinality(Orphans(o))
  PROVE  Accounted(o)'
<1>1. /\ delivered[o] \in Nat /\ strikes[o] \in Nat
      /\ Cardinality(Orphans(o)) \in Nat
  BY OrphansFinite DEF Core, RelayTypeOK
<1>2. \A d, s, c, c2, x, y : 
        /\ d \in Nat /\ s \in Nat /\ c \in Nat /\ c2 \in Nat /\ x \in {0,1} /\ y \in {0,1}
        /\ d + c <= s + x
        /\ \/ k <= j /\ x <= y /\ c2 <= c
           \/ /\ k = 1 /\ j = 0
              /\ \/ x = 0 /\ y = 1 /\ c2 <= c
                 \/ x <= y /\ c2 = c - 1
           \/ k = 0 /\ j = 1 /\ x <= y /\ c2 <= c + 1
           \/ k = 0 /\ j = 1 /\ c2 <= c
        => d + k + c2 <= s + j + y
  OBVIOUS
<1>3. /\ (IF Done(o) THEN 1 ELSE 0) \in {0,1} /\ (IF Done(o) THEN 1 ELSE 0)' \in {0,1}
      /\ Done(o) <=> (IF Done(o) THEN 1 ELSE 0) = 1
      /\ Done(o)' <=> (IF Done(o) THEN 1 ELSE 0)' = 1
  OBVIOUS
<1> QED
  BY <1>1, <1>2, <1>3 DEF Accounted

(* Every step keeps every row accounted for.  Same: the step does not       *)
(* concern the row's books.                                                *)
LEMMA DeliveriesStep ==
  Core /\ Core' /\ DeliveriesAccounted /\ [RelayNext]_relayVars => DeliveriesAccounted'
<1> SUFFICES ASSUME Core, Core', [RelayNext]_relayVars, NEW o \in Rows, Accounted(o)
             PROVE  Accounted(o)'
  BY DEF DeliveriesAccounted, Accounted
<1> DEFINE Same == /\ delivered'[o] = delivered[o] /\ strikes'[o] = strikes[o]
                   /\ Orphans(o)' = Orphans(o) /\ (Done(o) => Done(o)')
<1> USE DEF Core, RelayTypeOK
<1>0. Cardinality(Orphans(o)) \in Nat /\ Cardinality(Orphans(o))' \in Nat
  BY OrphansFinite
<1>a. Same => Accounted(o)'
  BY <1>0, BooksBalance
<1>1. ASSUME NEW p \in Rows, Record(p) PROVE Accounted(o)'
  <2> Same
    BY <1>1 DEF Record, loopVars, Orphans, Done
  <2> QED  BY <1>a
<1>2. ASSUME NEW w \in Relays, Tick(w) PROVE Accounted(o)'
  <2> Same
    BY <1>2 DEF Tick, Orphans, Done, LockedRowsArePending
  <2> QED  BY <1>a
<1>3. ASSUME NEW w \in Relays, Select(w) PROVE Accounted(o)'
  <2> Same
    BY <1>3 DEF Select, Orphans, Done
  <2> QED  BY <1>a
<1>4. ASSUME NEW w \in Relays, EndBatch(w) PROVE Accounted(o)'
  <2> Same
    BY <1>4 DEF EndBatch, Wait, Orphans, Done
  <2> QED  BY <1>a
<1>5. ASSUME NEW w \in Relays, PublishOK(w) PROVE Accounted(o)'
  <2>1. CASE row[w] # o
    <3> Same
      BY <1>5, <2>1 DEF PublishOK, Accept, Orphans, Done, BusyRelaysHaveARow
    <3> QED  BY <1>a
  <2>2. CASE row[w] = o /\ tx[w]
    <3>1. /\ delivered'[o] = delivered[o] + 1 /\ strikes'[o] = strikes[o] + 0
          /\ Orphans(o)' = Orphans(o) /\ Done(o)'
      BY <1>5, <2>2 DEF PublishOK, Accept, Orphans, Done
    <3>2. ~Done(o)
      BY <1>5, <2>2 DEF PublishOK, Done, LocksAreExclusive, LockedRowsArePending
    <3> QED  BY <3>1, <3>2, <1>0, BooksBalance
  <2>3. CASE row[w] = o /\ ~tx[w]
    <3>1. /\ delivered'[o] = delivered[o] + 1 /\ strikes'[o] = strikes[o] + 0
          /\ Orphans(o)' = Orphans(o) \ {w} /\ w \in Orphans(o)
      BY <1>5, <2>3 DEF PublishOK, Accept, Orphans
    <3>2. Done(o) => Done(o)'
      BY <1>5, <2>3 DEF PublishOK, Done
    <3> QED  BY <3>1, <3>2, <1>0, OrphansChange, BooksBalance
  <2> QED  BY <2>1, <2>2, <2>3
<1>6. ASSUME NEW w \in Relays, PublishRejected(w) PROVE Accounted(o)'
  <2>1. /\ delivered'[o] = delivered[o] /\ strikes'[o] = strikes[o]
        /\ Orphans(o)' = Orphans(o) \ {w} /\ (Done(o) => Done(o)')
    BY <1>6 DEF PublishRejected, Return, Orphans, Done
  <2>2. Cardinality(Orphans(o))' <= Cardinality(Orphans(o))
    BY <2>1, OrphansChange
  <2>3. /\ delivered'[o] = delivered[o] + 0 /\ strikes'[o] = strikes[o] + 0
        /\ 0 \in Nat /\ 0 <= 0
    BY <2>1
  <2> HIDE DEF Core, RelayTypeOK
  <2> QED  BY <2>1, <2>2, <2>3, <1>0, BooksBalance
<1>7. ASSUME NEW w \in Relays, MarkCommit(w) PROVE Accounted(o)'
  <2> Same
    BY <1>7 DEF MarkCommit, Return, Orphans, Done
  <2> QED  BY <1>a
<1>8. ASSUME NEW w \in Relays, MarkOnDeadTx(w) PROVE Accounted(o)'
  <2> Same
    BY <1>8 DEF MarkOnDeadTx, Return, Orphans, Done
  <2> QED  BY <1>a
<1>9. ASSUME NEW w \in Relays, PollFails(w) PROVE Accounted(o)'
  <2>1. CASE row[w] = o
    <3>1. /\ delivered'[o] = delivered[o] + 0 /\ strikes'[o] = strikes[o] + 1
          /\ Orphans(o)' = Orphans(o)
      BY <1>9, <2>1 DEF PollFails, Wait, Fault, Orphans
    <3> QED  BY <3>1, <1>0, BooksBalance
  <2>2. CASE row[w] # o
    <3> Same
      BY <1>9, <2>2 DEF PollFails, Wait, Fault, Orphans, Done
    <3> QED  BY <1>a
  <2> QED  BY <2>1, <2>2
<1>10. ASSUME NEW w \in Relays, SinkFails(w) PROVE Accounted(o)'
  <2>1. CASE row[w] = o
    <3>1. /\ \E k \in {0, 1} : delivered'[o] = delivered[o] + k
          /\ strikes'[o] = strikes[o] + 1
          /\ Orphans(o)' = Orphans(o) \ {w} /\ (Done(o) => Done(o)')
      BY <1>10, <2>1 DEF SinkFails, Return, Fault, Accept, Orphans, Done
    <3>2. PICK k \in {0, 1} : delivered'[o] = delivered[o] + k
      BY <3>1
    <3>3. Cardinality(Orphans(o))' <= Cardinality(Orphans(o))
      BY <3>1, OrphansChange
    <3>4. k \in Nat /\ k <= 1
      OBVIOUS
    <3> QED  BY <3>1, <3>2, <3>3, <3>4, <1>0, BooksBalance
  <2>2. CASE row[w] # o
    <3> Same
      BY <1>10, <2>2
         DEF SinkFails, Return, Fault, Accept, Orphans, Done, BusyRelaysHaveARow
    <3> QED  BY <1>a
  <2> QED  BY <2>1, <2>2
<1>11. ASSUME NEW w \in Relays, MarkFails(w) PROVE Accounted(o)'
  <2>1. CASE row[w] = o
    <3>1. /\ delivered'[o] = delivered[o] + 0 /\ strikes'[o] = strikes[o] + 1
          /\ Orphans(o)' = Orphans(o)
      BY <1>11, <2>1 DEF MarkFails, Return, Fault, Orphans
    <3> QED  BY <3>1, <1>0, BooksBalance
  <2>2. CASE row[w] # o
    <3> Same
      BY <1>11, <2>2 DEF MarkFails, Return, Fault, Orphans, Done
    <3> QED  BY <1>a
  <2> QED  BY <2>1, <2>2
<1>12. ASSUME NEW w \in Relays, TxLost(w) PROVE Accounted(o)'
  <2>1. CASE row[w] = o /\ pc[w] = "publishing"
    <3>1. /\ delivered'[o] = delivered[o] + 0 /\ strikes'[o] = strikes[o] + 1
          /\ Orphans(o)' = Orphans(o) \cup {w} /\ (Done(o) => Done(o)')
      BY <1>12, <2>1 DEF TxLost, Fault, Orphans, Done
    <3> QED  BY <3>1, <1>0, OrphansChange, BooksBalance
  <2>2. CASE row[w] = o /\ pc[w] # "publishing"
    <3>1. /\ delivered'[o] = delivered[o] + 0 /\ strikes'[o] = strikes[o] + 1
          /\ Orphans(o)' = Orphans(o)
      BY <1>12, <2>2 DEF TxLost, Fault, Orphans
    <3> QED  BY <3>1, <1>0, BooksBalance
  <2>3. CASE row[w] # o
    <3> Same
      BY <1>12, <2>3 DEF TxLost, Fault, Orphans, Done
    <3> QED  BY <1>a
  <2> QED  BY <2>1, <2>2, <2>3
<1>13. ASSUME NEW w \in Relays, Restart(w) PROVE Accounted(o)'
  <2>1. CASE row[w] = o /\ pc[w] = "publishing"
    <3>1. /\ \E k \in {0, 1} : delivered'[o] = delivered[o] + k
          /\ strikes'[o] = strikes[o] + 1
          /\ Orphans(o)' = Orphans(o) \ {w} /\ (Done(o) => Done(o)')
      BY <1>13, <2>1 DEF Restart, Wait, Fault, Accept, Orphans, Done
    <3>2. PICK k \in {0, 1} : delivered'[o] = delivered[o] + k
      BY <3>1
    <3>3. Cardinality(Orphans(o))' <= Cardinality(Orphans(o))
      BY <3>1, OrphansChange
    <3>4. k \in Nat /\ k <= 1
      OBVIOUS
    <3> QED  BY <3>1, <3>2, <3>3, <3>4, <1>0, BooksBalance
  <2>2. CASE row[w] = o /\ pc[w] # "publishing"
    <3>1. /\ delivered'[o] = delivered[o] + 0 /\ strikes'[o] = strikes[o] + 1
          /\ Orphans(o)' = Orphans(o)
      BY <1>13, <2>2 DEF Restart, Wait, Fault, Orphans
    <3> QED  BY <3>1, <1>0, BooksBalance
  <2>3. CASE row[w] # o
    <3> Same
      BY <1>13, <2>3 DEF Restart, Wait, Fault, Accept, Orphans, Done, BusyRelaysHaveARow
    <3> QED  BY <1>a
  <2> QED  BY <2>1, <2>2, <2>3
<1>14. ASSUME NEW w \in Relays, SinkRepeats(w) PROVE Accounted(o)'
  <2>1. CASE row[w] = o
    <3>1. /\ delivered'[o] = delivered[o] + 1 /\ strikes'[o] = strikes[o] + 1
          /\ Orphans(o)' = Orphans(o) /\ (Done(o) => Done(o)')
      BY <1>14, <2>1 DEF SinkRepeats, Fault, Accept, loopVars, Orphans, Done
    <3> QED  BY <3>1, <1>0, BooksBalance
  <2>2. CASE row[w] # o
    <3> Same
      BY <1>14, <2>2
         DEF SinkRepeats, Fault, Accept, loopVars, Orphans, Done, BusyRelaysHaveARow
    <3> QED  BY <1>a
  <2> QED  BY <2>1, <2>2
<1>15. CASE UNCHANGED relayVars
  <2> Same
    BY <1>15 DEF relayVars, loopVars, Orphans, Done
  <2> QED  BY <1>a
<1> QED
  BY <1>1, <1>2, <1>3, <1>4, <1>5, <1>6, <1>7, <1>8, <1>9, <1>10, <1>11,
     <1>12, <1>13, <1>14, <1>15 DEF RelayNext, RelayStep, FaultStep

(* No relay holds a row, so no row has orphans, at the start.              *)
LEMMA DeliveriesInit == RelayInit => DeliveriesAccounted
<1> SUFFICES ASSUME RelayInit, NEW o \in Rows PROVE Accounted(o)
  BY DEF DeliveriesAccounted, Accounted
<1>1. Orphans(o) = {}
  BY DEF RelayInit, Orphans
<1>2. delivered[o] = 0 /\ strikes[o] = 0
  BY DEF RelayInit
<1> QED
  BY <1>1, <1>2, FS_EmptySet DEF Accounted

-----------------------------------------------------------------------------
(* The results.                                                            *)

(* RelayIInv is an inductive invariant of the relay.                            *)
THEOREM RelayInductive == RelaySafeSpec => []RelayIInv
<1>1. RelayInit => Core /\ DeliveriesAccounted
  BY CoreInit, DeliveriesInit
<1>2. Core /\ DeliveriesAccounted /\ [RelayNext]_relayVars => (Core /\ DeliveriesAccounted)'
  BY CoreStep, DeliveriesStep
<1>3. Core /\ DeliveriesAccounted => RelayIInv
  BY DEF RelayIInv, Core
<1> QED
  BY <1>1, <1>2, <1>3, PTL DEF RelaySafeSpec

(* Variables keep their types.                                             *)
THEOREM RelayTypeCorrect == RelaySafeSpec => []RelayTypeOK
BY RelayInductive, PTL DEF RelayIInv

(* A row marked published has been accepted by the sink: the relay loses   *)
(* no event, whatever fails and however the relays interleave.             *)
THEOREM NoEventLost == RelaySafeSpec => []AtLeastOnce
BY RelayInductive, PTL DEF RelayIInv

(* The books of a row bound its deliveries.                                *)
LEMMA DeliveriesCounted == RelayIInv => DuplicatesNeedFaults
<1> SUFFICES ASSUME RelayIInv, NEW o \in Rows PROVE delivered[o] <= 1 + strikes[o]
  BY DEF DuplicatesNeedFaults
<1>1. Cardinality(Orphans(o)) \in Nat
  BY OrphansFinite
<1>2. delivered[o] \in Nat /\ strikes[o] \in Nat
  BY DEF RelayIInv, RelayTypeOK
<1>3. delivered[o] + Cardinality(Orphans(o)) <= strikes[o] + IF Done(o) THEN 1 ELSE 0
  BY DEF RelayIInv, DeliveriesAccounted
<1> QED
  BY <1>1, <1>2, <1>3

(* Each delivery of a row beyond the first is matched by a fault that      *)
(* struck a relay holding it; without faults every event goes out once,    *)
(* with any number of replicas.                                            *)
THEOREM DuplicatesArePaidFor == RelaySafeSpec => []DuplicatesNeedFaults
BY DeliveriesCounted, RelayInductive, PTL

(* The relay implements the safety half of EventDelivery: each step        *)
(* records, tells or settles one event, or changes nothing the rest of the *)
(* system can see.                                                         *)
THEOREM RelayImplements == RelaySafeSpec => Promise!SafeSpec
<1> DEFINE recorded == {o \in Good : outbox[o] # "absent"}
           told     == {o \in Good : delivered[o] > 0}
           settled  == {o \in Good : outbox[o] = "published"}
<1>0. Good \subseteq Rows
  BY DEF Good
<1>1. RelayInit => Promise!Init
  BY <1>0 DEF RelayInit, Promise!Init
<1>2. RelayIInv /\ [RelayNext]_relayVars => [Promise!Next]_(Promise!vars)
  <2> SUFFICES ASSUME RelayIInv, [RelayNext]_relayVars
               PROVE  [Promise!Next]_(Promise!vars)
    OBVIOUS
  <2> USE DEF RelayIInv, RelayTypeOK
  <2>0. ASSUME UNCHANGED <<outbox, delivered>> PROVE UNCHANGED Promise!vars
    BY <2>0 DEF Promise!vars
  <2>a. ASSUME NEW w \in Relays, pc[w] = "publishing", row[w] \notin Poison,
               Accept(row[w]), UNCHANGED outbox
        PROVE  Promise!Next
    <3>1. PICK o \in Good : o = row[w] /\ outbox[o] # "absent"
      BY <2>a DEF BusyRelaysHaveARow, Good
    <3>2. told' = told \cup {o} /\ recorded' = recorded /\ settled' = settled
      BY <2>a, <3>1, <1>0 DEF Accept
    <3>3. Promise!Tell(o)
      BY <3>1, <3>2 DEF Promise!Tell
    <3> QED
      BY <3>3 DEF Promise!Next
  <2>1. ASSUME NEW p \in Rows, Record(p) PROVE Promise!Next \/ UNCHANGED Promise!vars
    <3>1. CASE p \in Good
      <4>1. recorded' = recorded \cup {p} /\ told' = told /\ settled' = settled
        BY <2>1, <3>1, <1>0 DEF Record
      <4>2. p \notin recorded
        BY <2>1 DEF Record
      <4>3. Promise!Record(p)
        BY <4>1, <4>2 DEF Promise!Record
      <4> QED
        BY <3>1, <4>3 DEF Promise!Next
    <3>2. CASE p \notin Good
      <4>1. recorded' = recorded /\ told' = told /\ settled' = settled
        BY <2>1, <3>2, <1>0 DEF Record
      <4> QED
        BY <4>1 DEF Promise!vars
    <3> QED
      BY <3>1, <3>2
  <2>2. ASSUME NEW w \in Relays, MarkCommit(w) PROVE Promise!Next \/ UNCHANGED Promise!vars
    <3>1. PICK o \in Rows : o = row[w] /\ delivered[o] >= 1 /\ outbox[o] = "pending"
      BY <2>2 DEF MarkCommit, BusyRelaysHaveARow, LockedRowsArePending
    <3>2. CASE o \in Good
      <4>1. settled' = settled \cup {o} /\ recorded' = recorded /\ told' = told
        BY <2>2, <3>1, <3>2, <1>0 DEF MarkCommit
      <4>2. o \in told
        BY <3>1, <3>2
      <4>3. Promise!Settle(o)
        BY <4>1, <4>2 DEF Promise!Settle
      <4> QED
        BY <3>2, <4>3 DEF Promise!Next
    <3>3. CASE o \notin Good
      <4>1. settled' = settled /\ recorded' = recorded /\ told' = told
        BY <2>2, <3>1, <3>3, <1>0 DEF MarkCommit
      <4> QED
        BY <4>1 DEF Promise!vars
    <3> QED
      BY <3>2, <3>3
  <2>3. ASSUME NEW w \in Relays, PublishOK(w) PROVE Promise!Next
    BY <2>3, <2>a DEF PublishOK
  <2>4. ASSUME NEW w \in Relays, SinkFails(w) \/ SinkRepeats(w)
        PROVE  Promise!Next \/ UNCHANGED Promise!vars
    BY <2>4, <2>a, <2>0 DEF SinkFails, SinkRepeats
  <2>5. ASSUME NEW w \in Relays, Restart(w)
        PROVE  Promise!Next \/ UNCHANGED Promise!vars
    BY <2>5, <2>a, <2>0 DEF Restart
  <2>6. ASSUME NEW w \in Relays,
               \/ Tick(w) \/ Select(w) \/ EndBatch(w) \/ PublishRejected(w)
               \/ MarkOnDeadTx(w) \/ PollFails(w) \/ MarkFails(w) \/ TxLost(w)
        PROVE  UNCHANGED Promise!vars
    BY <2>6, <2>0 DEF Tick, Select, EndBatch, PublishRejected, MarkOnDeadTx,
                      PollFails, MarkFails, TxLost
  <2>7. CASE UNCHANGED relayVars
    BY <2>7, <2>0 DEF relayVars
  <2> QED
    BY <2>1, <2>2, <2>3, <2>4, <2>5, <2>6, <2>7 DEF RelayNext, RelayStep, FaultStep
<1> QED
  BY <1>1, <1>2, RelayInductive, PTL DEF RelaySafeSpec, Promise!SafeSpec

-----------------------------------------------------------------------------
(* Catalog: the relay with a search index as its sink.                     *)

(* Each step of the catalog is a step of the relay, or leaves it alone.    *)
LEMMA CatalogStepsAreRelaySteps == [CatalogNext]_catalogVars => [RelayNext]_relayVars
<1> SUFFICES ASSUME [CatalogNext]_catalogVars PROVE [RelayNext]_relayVars
  OBVIOUS
<1>1. ASSUME NEW r \in Requests, Save(r) \/ SaveFails(r) PROVE [RelayNext]_relayVars
  <2>1. ProductOf[r] \in Rows
    BY CatalogAssumption DEF CatalogAssumption, Products
  <2>2. Record(ProductOf[r]) \/ UNCHANGED relayVars
    BY <1>1 DEF Save, SaveFails, Commit, InsertOutboxEvent
  <2> QED
    BY <2>1, <2>2 DEF RelayNext
<1>2. ASSUME NEW r \in Requests, Arrive(r) \/ ArriveInvalid(r) PROVE UNCHANGED relayVars
  BY <1>2 DEF Arrive, ArriveInvalid
<1>3. ASSUME NEW w \in Relays, IndexStep(w) \/ IndexFault(w) PROVE RelayNext
  BY <1>3 DEF IndexStep, IndexFault, RelayNext
<1>4. CASE UNCHANGED catalogVars
  BY <1>4 DEF catalogVars
<1> QED
  BY <1>1, <1>2, <1>3, <1>4 DEF CatalogNext

(* Go's conversion of any int yields an int32.                             *)
LEMMA Int32IsInt32 ==
  ASSUME NEW n \in Int
  PROVE  Int32(n) \in -(Int32Max + 1) .. Int32Max
<1>1. Int32Max \in Nat /\ 2 * (Int32Max + 1) \in Nat \ {0}
  BY CatalogAssumption DEF CatalogAssumption
<1>2. \A a, b : a \in Int /\ b \in Nat \ {0} => a % b \in 0 .. b - 1
  OBVIOUS
<1>3. (n + Int32Max + 1) % (2 * (Int32Max + 1)) \in 0 .. 2 * (Int32Max + 1) - 1
  BY <1>1, <1>2
<1>4. \A x \in Int : x \in 0 .. 2 * (Int32Max + 1) - 1
        => x - (Int32Max + 1) \in -(Int32Max + 1) .. Int32Max
  BY <1>1
<1> QED
  BY <1>3, <1>4 DEF Int32

(* The document of a request is a document, and not the lack of one.       *)
LEMMA DocIsDoc == \A r \in Requests : Doc(r) \in Docs /\ Doc(r) # NoDoc
<1> SUFFICES ASSUME NEW r \in Requests PROVE Doc(r) \in Docs /\ Doc(r) # NoDoc
  OBVIOUS
<1>1. PriceOf[r] \in Int /\ r # "none"
  BY CatalogAssumption DEF CatalogAssumption
<1>2. Int32(PriceOf[r]) \in -(Int32Max + 1) .. Int32Max
  BY <1>1, Int32IsInt32
<1>3. Doc(r).from = r /\ NoDoc.from = "none"
  BY DEF Doc, NoDoc
<1> QED
  BY <1>1, <1>2, <1>3 DEF Doc, Docs

(* The relay's own steps: no row appears or disappears, and the number of   *)
(* times an event was accepted never goes down.                            *)
LEMMA RelayLeavesRows ==
  ASSUME RelayIInv, NEW w \in Relays, RelayStep(w) \/ FaultStep(w), NEW p \in Rows
  PROVE  /\ outbox'[p] = "absent" <=> outbox[p] = "absent"
         /\ delivered'[p] = delivered[p] \/ delivered'[p] > delivered[p]
<1> USE DEF RelayIInv, RelayTypeOK
<1>1. /\ outbox'[p] = outbox[p] \/ (outbox[p] = "pending" /\ outbox'[p] = "published")
      /\ delivered' = delivered \/ Accept(row[w])
  BY DEF RelayStep, FaultStep, Tick, Select, EndBatch, PublishOK, PublishRejected, MarkCommit,
         MarkOnDeadTx, PollFails, SinkFails, SinkRepeats, MarkFails, TxLost, Restart,
         LockedRowsArePending
<1>2. delivered[p] \in Nat /\ (delivered'[p] = delivered[p] \/ delivered'[p] = delivered[p] + 1)
  BY <1>1 DEF Accept
<1> QED
  BY <1>1, <1>2

\* what CatalogIInv says of the catalog's own variables
Mirrors == CatalogTypeOK /\ DocsMirrorProducts /\ DeliveredIsIndexed /\ AnswersAreStored

(* Nothing is stored, indexed or answered at the start.                    *)
LEMMA MirrorsInit == RelayTypeOK /\ CatalogInit => Mirrors
BY DEF Mirrors, CatalogInit, RelayInit, CatalogTypeOK, DocsMirrorProducts, DeliveredIsIndexed,
       AnswersAreStored, Products

(* A transaction of POST /products keeps product, payload and row together, *)
(* whether it is the first with its key or comes too late.                 *)
LEMMA CommitMirrors ==
  ASSUME RelayIInv, RelayTypeOK', Mirrors, NEW r \in Requests, Commit(r)
  PROVE  /\ products' \in [Products -> Docs \cup {NoDoc}]
         /\ payload' \in [Products -> Docs \cup {NoDoc}]
         /\ products'[ProductOf[r]] # NoDoc
         /\ \A p \in Products : products[p] # NoDoc => products'[p] = products[p]
         /\ DocsMirrorProducts' /\ DeliveredIsIndexed'
<1> USE DEF Mirrors, CatalogTypeOK, DocsMirrorProducts, DeliveredIsIndexed, Products
<1> DEFINE q == ProductOf[r]
<1>1. q \in Rows /\ Doc(r) \in Docs /\ Doc(r) # NoDoc
  BY DocIsDoc, CatalogAssumption DEF CatalogAssumption
<1>2. CASE outbox[q] = "absent"
  <2>1. /\ products' = [products EXCEPT ![q] = Doc(r)] /\ products[q] = NoDoc
        /\ payload' = [payload EXCEPT ![q] = Doc(r)] /\ index' = index
        /\ outbox' = [outbox EXCEPT ![q] = "pending"] /\ delivered' = delivered
    BY <1>1, <1>2 DEF Commit, CreateProduct, InsertOutboxEvent, Record
  <2>2. delivered[q] = 0
    BY <1>1, <1>2 DEF RelayIInv, NothingInvented
  <2> QED
    BY <1>1, <2>1, <2>2 DEF RelayIInv, RelayTypeOK
<1>3. CASE outbox[q] # "absent"
  <2>1. UNCHANGED <<outbox, delivered, products, payload, index>> /\ products[q] # NoDoc
    BY <1>1, <1>3 DEF Commit, CreateProduct, InsertOutboxEvent, relayVars
  <2> QED
    BY <1>1, <2>1
<1> QED
  BY <1>2, <1>3

(* Every step of the catalog keeps the mirror.                             *)
LEMMA MirrorsStep ==
  ASSUME RelayIInv, RelayIInv', Mirrors, [CatalogNext]_catalogVars
  PROVE  Mirrors'
<1> USE DEF Mirrors, CatalogTypeOK, Products
<1>0. RelayTypeOK'
  BY DEF RelayIInv
<1>1. ASSUME UNCHANGED <<relayVars, products, payload, index>>, NEW r \in Requests,
             request' \in [Requests -> {"new", "saving", "done"}], UNCHANGED answer
      PROVE  Mirrors'
  BY <1>0, <1>1 DEF relayVars, DocsMirrorProducts, DeliveredIsIndexed, AnswersAreStored
<1>2. ASSUME NEW r \in Requests, Arrive(r) \/ ArriveInvalid(r) PROVE Mirrors'
  <2>1. request' \in [Requests -> {"new", "saving", "done"}]
    BY <1>2 DEF Arrive, ArriveInvalid
  <2> QED
    BY <1>1, <1>2, <2>1 DEF Arrive, ArriveInvalid
<1>3. ASSUME NEW r \in Requests, Commit(r), answer' = answer \/ Answer(r),
             request' = [request EXCEPT ![r] = "done"]
      PROVE  Mirrors'
  <2>1. ProductOf \in [Requests -> Rows]
    BY CatalogAssumption DEF CatalogAssumption
  <2>2. /\ products' \in [Products -> Docs \cup {NoDoc}]
        /\ payload' \in [Products -> Docs \cup {NoDoc}]
        /\ \A p \in Products : products[p] # NoDoc => products'[p] = products[p]
        /\ DocsMirrorProducts' /\ DeliveredIsIndexed'
    BY <1>0, <1>3, CommitMirrors
  <2>3. index' = index
    BY <1>3 DEF Commit
  <2>4. answer' \in [Requests -> Docs \cup {NoDoc}]
    BY <1>3, <2>1, <2>2 DEF Answer
  <2>5. AnswersAreStored'
    BY <1>3, <2>1, <2>2 DEF Answer, AnswersAreStored
  <2> QED
    BY <1>0, <1>3, <2>2, <2>3, <2>4, <2>5
<1>4. ASSUME NEW r \in Requests, Save(r) PROVE Mirrors'
  BY <1>3, <1>4 DEF Save
<1>5. ASSUME NEW r \in Requests, SaveFails(r) PROVE Mirrors'
  <2>1. CASE Commit(r)
    BY <1>3, <1>5, <2>1 DEF SaveFails
  <2>2. CASE UNCHANGED <<relayVars, products, payload, index>>
    <3>1. request' \in [Requests -> {"new", "saving", "done"}]
      BY <1>5 DEF SaveFails
    <3> QED
      BY <1>1, <1>5, <2>2, <3>1 DEF SaveFails
  <2> QED
    BY <1>5, <2>1, <2>2 DEF SaveFails
<1>6. ASSUME NEW w \in Relays, IndexStep(w) \/ IndexFault(w) PROVE Mirrors'
  <2>1. /\ index' = [p \in Products |->
                      IF delivered'[p] > delivered[p] THEN payload[p] ELSE index[p]]
        /\ UNCHANGED <<products, payload, request, answer>>
        /\ RelayStep(w) \/ FaultStep(w)
    BY <1>6 DEF IndexStep, IndexFault, IndexDoc
  <2>2. \A p \in Rows : /\ outbox'[p] = "absent" <=> outbox[p] = "absent"
                        /\ delivered'[p] = delivered[p] \/ delivered'[p] > delivered[p]
    BY <2>1, RelayLeavesRows
  <2>3. DocsMirrorProducts'
    BY <2>1, <2>2 DEF DocsMirrorProducts
  <2>4. DeliveredIsIndexed'
    BY <2>1, <2>2 DEF DocsMirrorProducts, DeliveredIsIndexed
  <2>5. AnswersAreStored' /\ index' \in [Products -> Docs \cup {NoDoc}]
    BY <2>1 DEF AnswersAreStored
  <2> QED
    BY <1>0, <2>1, <2>3, <2>4, <2>5
<1>7. CASE UNCHANGED catalogVars
  BY <1>0, <1>7 DEF catalogVars, relayVars, DocsMirrorProducts, DeliveredIsIndexed, AnswersAreStored
<1> QED
  BY <1>2, <1>4, <1>5, <1>6, <1>7 DEF CatalogNext

(* The catalog's outbox is emptied by the relay as OutboxRelay has it, so   *)
(* that what is proved of the relay holds of the catalog.                  *)
THEOREM CatalogRunsRelay == CatalogSafeSpec => RelaySafeSpec
<1>1. CatalogInit => RelayInit
  BY DEF CatalogInit
<1> QED
  BY <1>1, CatalogStepsAreRelaySteps, PTL DEF CatalogSafeSpec, RelaySafeSpec

(* CatalogIInv is an inductive invariant of the catalog.                   *)
THEOREM CatalogInductive == CatalogSafeSpec => []CatalogIInv
<1>1. CatalogInit /\ RelayIInv => Mirrors
  BY MirrorsInit DEF RelayIInv
<1>2. RelayIInv /\ RelayIInv' /\ Mirrors /\ [CatalogNext]_catalogVars => Mirrors'
  BY MirrorsStep
<1>3. RelayIInv /\ Mirrors => CatalogIInv
  BY DEF Mirrors, CatalogIInv
<1>4. CatalogSafeSpec => []RelayIInv
  BY CatalogRunsRelay, RelayInductive, PTL
<1> QED
  BY <1>1, <1>2, <1>3, <1>4, PTL DEF CatalogSafeSpec

(* A product, its outbox row and the document in the index never disagree, *)
(* whichever of several requests with one key came first; and the relay    *)
(* marks no product as published that a search cannot find.                *)
THEOREM IndexMirrors == CatalogSafeSpec => []IndexMirrorsProducts
<1>1. CatalogIInv => PublishedIsIndexed
  <2> SUFFICES ASSUME CatalogIInv, NEW p \in Products, outbox[p] = "published"
               PROVE  index[p] = products[p]
    BY DEF PublishedIsIndexed
  <2>1. delivered[p] \in Nat /\ delivered[p] >= 1
    BY DEF CatalogIInv, RelayIInv, RelayTypeOK, AtLeastOnce, Products
  <2> QED
    BY <2>1 DEF CatalogIInv, DeliveredIsIndexed
<1>2. CatalogIInv => IndexMirrorsProducts
  BY <1>1 DEF CatalogIInv, IndexMirrorsProducts
<1> QED
  BY <1>2, CatalogInductive, PTL

(* What a 201 answered is what is stored, then and ever after.             *)
THEOREM AnswersStay == CatalogSafeSpec => []AnswersAreStored
BY CatalogInductive, PTL DEF CatalogIInv
==============================================================================
