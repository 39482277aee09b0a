----------------------------- MODULE OutboxRelay -----------------------------
(***************************************************************************)
(* The transactional outbox table and the relay loops that empty it.       *)
(* order-service publishes each row to SNS; catalog-service runs the same  *)
(* loop and indexes each row in OpenSearch.  Every replica runs one relay. *)
(*                                                                         *)
(* A relay holds a row through a database transaction (SELECT .. FOR       *)
(* UPDATE SKIP LOCKED) while it calls the sink, and marks the row only     *)
(* afterwards.  The transaction may be lost under the relay's feet, the    *)
(* sink may accept an event more than once in one call, or accept it and   *)
(* still report an error, and a replica may stop between any two steps.    *)
(***************************************************************************)
EXTENDS Naturals, FiniteSets

CONSTANTS
  Rows,       \* outbox row ids: the ids of the orders (of the products)
  Relays,     \* the relay loops, one per replica
  CreatedAt,  \* created_at of each row; rows commit in any order
  BatchSize,  \* iterations of publishOutboxBatch per tick (20 in the code)
  Poison,     \* rows whose event the sink rejects every time
  MaxFaults,  \* bound on the number of faults in a behaviour
  NoRow

ASSUME OutboxAssumption ==
  /\ CreatedAt \in [Rows -> Nat]
  /\ BatchSize \in Nat \ {0}
  /\ Poison \subseteq Rows
  /\ MaxFaults \in Nat
  /\ NoRow \notin Rows
  /\ IsFiniteSet(Relays)

VARIABLES
  outbox,     \* table outbox: each row absent, pending or published
  pc,         \* where each relay is in publishNextOutboxEvent
  row,        \* the row a relay read (the Go variable `row')
  tx,         \* is the relay's transaction, with its row lock, still alive?
  batch,      \* iterations left in the relay's current batch
  delivered,  \* how often the sink accepted the event of each row
  faults,     \* history: number of faults so far
  strikes     \* history: how many faults struck a relay working on each row

loopVars == <<pc, row, tx, batch>>
relayVars == <<outbox, pc, row, tx, batch, delivered, faults, strikes>>

RelayTypeOK ==
  /\ outbox \in [Rows -> {"absent", "pending", "published"}]
  /\ pc \in [Relays -> {"waiting", "polling", "publishing", "marking"}]
  /\ row \in [Relays -> Rows \cup {NoRow}]
  /\ tx \in [Relays -> BOOLEAN]
  /\ batch \in [Relays -> 0 .. BatchSize]
  /\ delivered \in [Rows -> Nat]
  /\ faults \in 0 .. MaxFaults
  /\ strikes \in [Rows -> Nat]

RelayInit ==
  /\ outbox = [o \in Rows |-> "absent"]
  /\ pc = [w \in Relays |-> "waiting"]
  /\ row = [w \in Relays |-> NoRow]
  /\ tx = [w \in Relays |-> FALSE]
  /\ batch = [w \in Relays |-> 0]
  /\ delivered = [o \in Rows |-> 0]
  /\ faults = 0
  /\ strikes = [o \in Rows |-> 0]

-----------------------------------------------------------------------------
(* The queries.                                                            *)

Locked(o) == \E w \in Relays : tx[w] /\ row[w] = o

\* ListUnpublishedOutboxEvents: WHERE published = false .. SKIP LOCKED
Selectable_NoSkipLocked == {o \in Rows : outbox[o] = "pending"}
Selectable == {o \in Rows : outbox[o] = "pending" /\ ~Locked(o)}

\* ORDER BY created_at LIMIT 1, ties in any order
Oldest(o) == o \in Selectable /\ \A p \in Selectable : CreatedAt[o] <= CreatedAt[p]

\* The handler's transaction commits: InsertOutboxEvent, ON CONFLICT DO NOTHING
Record(o) ==
  /\ outbox[o] = "absent"
  /\ outbox' = [outbox EXCEPT ![o] = "pending"]
  /\ UNCHANGED <<loopVars, delivered, faults, strikes>>

-----------------------------------------------------------------------------
(* The relay loop.                                                         *)

\* publishNextOutboxEvent returns: the transaction ends, the batch goes on
Return(w) ==
  /\ pc' = [pc EXCEPT ![w] = "polling"]
  /\ row' = [row EXCEPT ![w] = NoRow]
  /\ tx' = [tx EXCEPT ![w] = FALSE]

Wait_KeepsLock(w) ==
  /\ pc' = [pc EXCEPT ![w] = "waiting"]
  /\ batch' = [batch EXCEPT ![w] = 0]
  /\ UNCHANGED <<row, tx>>
\* ... with hadWork = false, or the loop is restarted: nothing until a tick
Wait(w) ==
  /\ pc' = [pc EXCEPT ![w] = "waiting"]
  /\ row' = [row EXCEPT ![w] = NoRow]
  /\ tx' = [tx EXCEPT ![w] = FALSE]
  /\ batch' = [batch EXCEPT ![w] = 0]

Fault(w) ==
  /\ faults < MaxFaults
  /\ faults' = faults + 1
  /\ strikes' = [o \in Rows |-> IF o = row[w] THEN strikes[o] + 1 ELSE strikes[o]]

Accept(o) == delivered' = [delivered EXCEPT ![o] = @ + 1]

Tick(w) ==
  /\ pc[w] = "waiting"
  /\ pc' = [pc EXCEPT ![w] = "polling"]
  /\ batch' = [batch EXCEPT ![w] = BatchSize]
  /\ UNCHANGED <<outbox, row, tx, delivered, faults, strikes>>

\* BEGIN and the poll query find a row: this transaction now locks it
Select(w) ==
  /\ pc[w] = "polling" /\ batch[w] > 0
  /\ \E o \in Rows :
        /\ Oldest(o)
        /\ row' = [row EXCEPT ![w] = o]
  /\ tx' = [tx EXCEPT ![w] = TRUE]
  /\ pc' = [pc EXCEPT ![w] = "publishing"]
  /\ batch' = [batch EXCEPT ![w] = @ - 1]
  /\ UNCHANGED <<outbox, delivered, faults, strikes>>

\* No row to take, or all iterations of the batch are used up
EndBatch(w) ==
  /\ pc[w] = "polling"
  /\ batch[w] = 0 \/ Selectable = {}
  /\ Wait(w)
  /\ UNCHANGED <<outbox, delivered, faults, strikes>>

PublishOK(w) ==
  /\ pc[w] = "publishing" /\ row[w] \notin Poison
  /\ Accept(row[w])
  /\ pc' = [pc EXCEPT ![w] = "marking"]
  /\ UNCHANGED <<outbox, row, tx, batch, faults, strikes>>

MarkCommit_RollsBack(w) ==
  /\ pc[w] = "marking" /\ tx[w]
  /\ Return(w)
  /\ UNCHANGED <<outbox, batch, delivered, faults, strikes>>
\* MarkOutboxEventPublished and COMMIT (also when the commit's reply is lost)
MarkCommit(w) ==
  /\ pc[w] = "marking" /\ tx[w]
  /\ outbox' = [outbox EXCEPT ![row[w]] = "published"]
  /\ Return(w)
  /\ UNCHANGED <<batch, delivered, faults, strikes>>

\* The transaction died earlier: UPDATE or COMMIT reports it
MarkOnDeadTx(w) ==
  /\ pc[w] = "marking" /\ ~tx[w]
  /\ Return(w)
  /\ UNCHANGED <<outbox, batch, delivered, faults, strikes>>

\* The sink rejects the event for good; the rollback frees the row
PublishRejected(w) ==
  /\ pc[w] = "publishing" /\ row[w] \in Poison
  /\ Return(w)
  /\ UNCHANGED <<outbox, batch, delivered, faults, strikes>>

RelayStep(w) ==
  \/ Tick(w) \/ Select(w) \/ EndBatch(w)
  \/ PublishOK(w) \/ PublishRejected(w)
  \/ MarkCommit(w) \/ MarkOnDeadTx(w)

-----------------------------------------------------------------------------
(* Faults.                                                                 *)

\* BEGIN or the poll query fails: hadWork = false ends the batch
PollFails(w) ==
  /\ pc[w] = "polling"
  /\ Fault(w)
  /\ Wait(w)
  /\ UNCHANGED <<outbox, delivered>>

\* Publish returns an error (or its 10 s are over); the sink may have the event
SinkFails(w) ==
  /\ pc[w] = "publishing" /\ row[w] \notin Poison
  /\ Accept(row[w]) \/ UNCHANGED delivered
  /\ Fault(w)
  /\ Return(w)
  /\ UNCHANGED <<outbox, batch>>

\* The sink accepts the event and its reply is lost: within the same call the
\* client (the AWS SDK, opensearch-go) tries again
SinkRepeats(w) ==
  /\ pc[w] = "publishing" /\ row[w] \notin Poison
  /\ Accept(row[w])
  /\ Fault(w)
  /\ UNCHANGED <<outbox, loopVars>>

\* MarkOutboxEventPublished or COMMIT fails: the deferred rollback frees the row
MarkFails(w) ==
  /\ pc[w] = "marking" /\ tx[w]
  /\ Fault(w)
  /\ Return(w)
  /\ UNCHANGED <<outbox, batch, delivered>>

\* The database drops the relay's connection: the lock is gone, the relay goes on
TxLost(w) ==
  /\ tx[w]
  /\ Fault(w)
  /\ tx' = [tx EXCEPT ![w] = FALSE]
  /\ UNCHANGED <<outbox, pc, row, batch, delivered>>

\* The replica stops (crash, SIGTERM) and a new one starts its loop
Restart(w) ==
  /\ pc[w] # "waiting"
  /\ \/ UNCHANGED delivered
     \/ pc[w] = "publishing" /\ row[w] \notin Poison /\ Accept(row[w])
  /\ Fault(w)
  /\ Wait(w)
  /\ UNCHANGED outbox

FaultStep(w) ==
  \/ PollFails(w) \/ SinkFails(w) \/ SinkRepeats(w)
  \/ MarkFails(w) \/ TxLost(w) \/ Restart(w)

-----------------------------------------------------------------------------
RelayNext ==
  \/ \E o \in Rows : Record(o)
  \/ \E w \in Relays : RelayStep(w) \/ FaultStep(w)

RelaySafeSpec == RelayInit /\ [][RelayNext]_relayVars

\* The ticker fires every 2 s, a call of the sink ends by its timeout at the latest, and
\* Postgres answers or the connection fails (the code gives these calls no deadline)
RelaySpec == RelaySafeSpec /\ \A w \in Relays : WF_relayVars(RelayStep(w))

-----------------------------------------------------------------------------
(* What the relay guarantees.                                              *)

(* A row marked published was accepted by the sink: no order of commits,   *)
(* lost connections and restarts drops an event behind publishOutboxBatch. *)
AtLeastOnce == \A o \in Rows : outbox[o] = "published" => delivered[o] >= 1

(* Nothing is delivered for a row no transaction committed.                *)
NothingInvented == \A o \in Rows : outbox[o] = "absent" => delivered[o] = 0

(* Replicas working side by side never cause a duplicate: the row lock of  *)
(* the poll query makes them share the rows, and every delivery beyond the *)
(* first was paid for by a fault that struck a relay holding that row.     *)
DuplicatesNeedFaults == \A o \in Rows : delivered[o] <= 1 + strikes[o]

\* rows whose event the sink accepts
Good == Rows \ Poison

(* The relay implements the promise of a transactional outbox for these    *)
(* rows, including that every recorded event is told and settled in the    *)
(* end, as long as no older row is poisoned.                               *)
Promise == INSTANCE EventDelivery WITH
  Rows     <- Good,
  recorded <- {o \in Good : outbox[o] # "absent"},
  told     <- {o \in Good : delivered[o] > 0},
  settled  <- {o \in Good : outbox[o] = "published"}

PromiseKept == Promise!Spec

-----------------------------------------------------------------------------
(* The inductive invariant behind the safety properties.                   *)

LocksAreExclusive ==
  \A v, w \in Relays : tx[v] /\ tx[w] /\ row[v] = row[w] => v = w

LockedRowsArePending ==
  \A w \in Relays : tx[w] => /\ pc[w] \in {"publishing", "marking"}
                            /\ row[w] \in Rows
                            /\ outbox[row[w]] = "pending"

BusyRelaysHaveARow ==
  \A w \in Relays : pc[w] \in {"publishing", "marking"} =>
     /\ row[w] \in Rows
     /\ outbox[row[w]] # "absent"
     /\ pc[w] = "marking" => delivered[row[w]] >= 1

\* relays about to deliver o although their lock on it is gone
Orphans(o) == {w \in Relays : pc[w] = "publishing" /\ ~tx[w] /\ row[w] = o}

\* the one delivery of o that needs no fault is behind us
Done(o) ==
  \/ outbox[o] = "published"
  \/ \E w \in Relays : tx[w] /\ row[w] = o /\ pc[w] = "marking"

DeliveriesAccounted ==
  \A o \in Rows :
     delivered[o] + Cardinality(Orphans(o)) <= strikes[o] + IF Done(o) THEN 1 ELSE 0

RelayIInv ==
  /\ RelayTypeOK
  /\ LocksAreExclusive
  /\ LockedRowsArePending
  /\ BusyRelaysHaveARow
  /\ AtLeastOnce
  /\ NothingInvented
  /\ DeliveriesAccounted
==============================================================================
