# A verification project for tf-man

The repository holds several Terraform projects. One of them, `stampede`, is a
program of its own: seven Go services that sell goods in a flash sale, on
Postgres, Redis, SNS, SQS and OpenSearch. A smaller one, `sentry`, has three Go
Lambdas. This directory models the part of that code in which several actors
share state, calls are lost or repeated, and processes die half-way; checks the
models with TLC; and proves the most important results with TLAPS.

Paths are relative to `src/stampede/apps/` unless they start with `src/`.

## 1. The system

### Components and the state they keep

| Component | State | Operations | What makes it correct |
|---|---|---|---|
| order-service (`order-service/main.go`) | Postgres: `orders`, `outbox` | POST /orders (`handleCreateOrder`), GET, the outbox relay loop, a consumer of status events (`handleStatusEvent`) | the order row and its event are stored together; a client's retry adds nothing; what is ordered was reserved |
| inventory-service (`inventory-service/main.go`, `redis/reserve.lua`) | Redis: `stock:<item>`, `reservation:<order>` (24 h) | POST /reserve, POST /items/{id}/stock | an order takes stock once; stock never goes negative |
| catalog-service (`catalog-service/main.go`) | Postgres: `products`, `outbox`; OpenSearch index | POST/GET product, search, the same relay loop with the index as its sink | every product becomes searchable |
| outbox relay (in both services) | rows pending or published, a row lock per relay | poll, publish, mark, commit | no event is lost; duplicates only after a fault; the backlog drains |
| `internal/sqsconsumer` with SQS | queue, receive counts, semaphore, a context per handler | receive, dispatch, handle, delete, shut down | a message is deleted only after its handler accepted it; no slot is lost; every message leaves the queue |
| payment-worker with `internal/dedup` | Redis `payment:seen:<message>` (24 h) | claim, decide, publish, unclaim | one outcome per message |
| fraud-detector | Redis: seen keys, a counter per user with a window | claim, count, flag | every order is counted once; counters expire |
| notification-worker | Redis: seen keys | claim, notify | a notification per event |
| edge-gateway | the WebSocket hub: a buffered channel per client | register, unregister, broadcast, subscribe to Redis | a slow client neither blocks the hub nor crashes it |
| process wiring (`main` of each service, `internal/shutdown`, `internal/health`) | errgroup, signal context | start, stop | a failed part stops the process |
| sentry Lambdas | EC2 tags, security group rules | flag and delete volumes, revoke rules | nothing in use is deleted; a rule reported as removed is removed |

### How they interact

    client -> edge-gateway -> order-service --HTTP--> inventory-service -> Redis
                                   | one transaction
                                   v
                             orders + outbox --relay--> SNS --filter--> SQS payments      -> payment-worker
                                   ^                     |          SQS fraud         -> fraud-detector
                                   |                     |          SQS notifications -> notification-worker
                                   +-- status consumer <-+-- SQS order status <-- outcomes of payment-worker

Every service runs two replicas (`replicas: 2` in
`src/stampede/gitops/apps/*/deployment.yaml`), so every loop and handler below
runs at least twice, concurrently.

### What is hard here

* **Calls that time out and go on running.** `inventoryClient.Reserve` gives a
  call 5 s and tries three times; the HTTP server of order-service cuts the
  answer after 10 s. A call that was given up on may still take stock.
* **Two stores, no common transaction.** Redis (stock) and Postgres (orders);
  Postgres (outbox) and SNS or OpenSearch; Redis (claims) and SNS (outcomes).
* **Deliveries that overlap.** A message is invisible for 30 s from its
  receive, its handler may run for 30 s from its dispatch: a message that waits
  for a slot is delivered again while it is worked on.
* **Death between two steps**, with row locks (released by Postgres) and claims
  (released by nobody for 24 h).

`PROJECT.json` lists the hazards one by one, each at its line and with the
properties that would notice it going wrong.

## 2. Plan

The order follows a purchase: take the stock, save the order, tell the others,
charge, and only then the parts around it.

| Order | Module | Models | State |
|---|---|---|---|
| 1 | `EventDelivery` | the abstract promise: what is recorded is told, then settled | done |
| 2 | `OutboxRelay`, `OutboxRelayProofs` | the relay loops of all replicas; implements `EventDelivery` | done, proved |
| 3 | `Checkout`, `CheckoutProofs` | POST /orders, the reserve protocol, reserve.lua, the transaction | done, proved |
| 4 | `SqsConsumer`, `SqsConsumerProofs` | the consumer loop and the queue; its deletions implement `EventDelivery` too | done, proved |
| 5 | `PaymentWorker`, `OrderPipelineProofs` | the payment handler on top of `SqsConsumer` | done, proved |
| 6 | `OrderPipeline` | relay, topic, payment-worker and status consumer together: what becomes of an order when its event is published twice or an outcome is late | done, proved (15) |
| 7 | `Catalog` | products, documents and the index on top of `OutboxRelay`; `int32(price_cents)` | done, proved (15) |
| 8 | `FraudDetector` | the handler on `SqsConsumer` whose claims are never released; the counter and its window | done, proved (14) |
| 9 | `Hub` | the WebSocket hub: close of a channel against its users, full channels | done, proved (14) |
| 10 | `Reaper` | sentry's sweeps: flags that age, people who use what is flagged, invocations at a time | done, proved (15) |
| 11 | `NotificationWorker`, `NotificationWorkerProofs` | the handler that claims before it notifies, on top of `SqsConsumer` | done, proved |
| 12 | `Lifecycle` | errgroup, its two contexts, shutdown, the health tracker and `/healthz`, under a kubelet | done, proved (15) |
| 13 | `Guardrail`, `SentryProofs` | the Lambda against EC2, duplicate events and the people who open and close rules | done, proved |
| 14 | `ServiceProofs`, `FraudDetectorProofs` | channels and gaps; claims, counts and windows, for every instance | done |
| 15 | the same proof modules, extended to `OrderPipeline`, `Catalog`, `Reaper`, `Lifecycle` and `NoOversell` | every safety property a run checks, for every instance | done |

Abstract specifications worth stating: `EventDelivery` (implemented three times), and
for `OrderPipeline` the life of one order (pending, then one outcome, for good),
which it implements when nothing fails; `StatusFlipsNeedFaults` says which
faults it takes to leave it.

What is left is of smaller weight: that specification of an order's life as a
module, which the theorem `FlipsArePaidFor` says the substance of.

Theorems worth proving: for each module its type invariant and the inductive
invariant behind its safety properties; then the refinements
(`OutboxRelay` and `SqsConsumer` implement `EventDelivery`; the workers
implement `SqsConsumer`; `Catalog` and `OrderPipeline` implement the modules they are composed of: done). Modules that are proved about declare no
RECURSIVE operator.

## 3. The modules

### EventDelivery

Three sets: `recorded`, `told`, `settled`. An event is told after it was
recorded and settled after it was told; under fairness both happen.
`OutboxRelay` implements it with the rows of a table, `SqsConsumer` with the messages of a queue,
`OrderPipeline` with orders.

### OutboxRelay

`publishOutboxBatch` and `publishNextOutboxEvent`, with their counterparts in
catalog-service, line for line the same loop with another sink. A row of the table is
`absent`, `pending` or `published`. Every relay has a program counter: `waiting`
(for the ticker), `polling`, `publishing`, `marking`; the row it read; and
whether its transaction is alive, which is whether it holds the row lock. The
query `FOR UPDATE SKIP LOCKED` is `Selectable` and `Oldest`; `Select` takes the
lock, because the query does.

Faults are actions of their own: the poll fails, the publish fails (the sink
may have accepted the event), the sink accepts the event and loses the reply, so
that its client tries again within the same call (`SinkRepeats`: the AWS SDK and
opensearch-go both do), the mark or the commit fails, the connection and
with it the lock is lost while the relay is in `publish`, the replica restarts. A
`Poison` row is one the sink rejects every time. `strikes` counts the faults
that hit a relay while it worked on a row.

### Checkout

`handleCreateOrder` with `Reserve`, `doReserve`, `handleReserve`, the Lua script
and the transaction. A request is `new`, `reserving`, `saving` or `done`. The
call it waits for is in `call`; calls it gave up on are counted in `late`, and
inventory-service may serve each of them at any later time or never
(`ServeLate`). The script is one atomic action, since Redis runs it so. The
transaction is one action as well (`Commit`): its two inserts conflict on the
same id, so of two concurrent transactions on one order the second waits for the
first; nothing else reads these rows in between. Its failures are
`SaveFails`, where a reply may be lost after the commit. `Abandon` is a
replica that dies or a client that disconnects, at any point.

The order id is the idempotency key when the client sends one, else a new one;
`OrderOf` says which requests share a key. `Int32` is Go's conversion, with the
width as the constant `Int32Max`. `handleStatusEvent` is `UpdateOrderStatus`,
which may happen, with either outcome and any number of times, once the event
was stored.

`supply`, `granted`, `grants` are ledgers: the units put up for sale (what POST
/items/{id}/stock adds to or takes from those that are left), what was reserved for
each order, how often stock was taken for it. `Asked` is what the requests with an
order's key asked for, `KeyReused` says that they did not ask for the same. Nothing in the
code notices that; the reservation may then be one request's and the order another's,
so the properties say what holds of such orders apart from the others.

### SqsConsumer

`Run`: one batch is received when the last was dispatched, each delivery takes a
semaphore slot and a goroutine, a nil error leads to `DeleteMessage`. Contexts
matter and are modelled: `expired` says whether a handler's context is done,
by its 30 s (`HandlerTimeout`) or by SIGTERM (`Stop`). Deletion runs on the
consumer's own context: a handler that outlives its 30 s may still delete, but
one that ends after SIGTERM cannot. After SIGTERM the rest of the batch is still
dispatched, with contexts that are already done. `Kill` is the end of a process without any of that.

SQS is external: visibility timeout (at any time after the receive, since the
handler's 30 s start later than the queue's), receive counts, redrive to the
dead letter queue, receive calls whose answer is lost, and deletion with a stale
receipt handle, which may or may not succeed.

### PaymentWorker

`EXTENDS SqsConsumer`; every step of the handler is a step of the consumer or
leaves the consumer alone. The handler's calls on Redis and SNS are one action
each: `Claim`/`Skip` (SETNX), `Publish`, `Unclaim` (DEL), each with its failure.
A call whose context is done fails. The AWS SDK repeats a publish whose reply is lost (three
attempts by default), so one `Publish` may be accepted several times, as may one that fails:
`Accepted`, with `unreported` for the acceptances the call's return value does not
report and `MaxLost` as their bound. `SeenRepeats` is go-redis repeating a SETNX
whose reply was lost and finding its own key. A claim's 24 h are never over
while its message can still be delivered (the queue keeps messages 24 h:
`src/stampede/modules/messaging/variables.tf:17-20`), so claims do not expire
in the model.

The decision between OrderConfirmed and PaymentFailed, and the contents of the
outcome, are left out: no property here tells them apart.

### OrderPipeline

`EXTENDS PaymentWorker` and `OutboxRelay` as they are, and adds what
joins them: `FanOut` turns each delivery the topic accepted into one message of
the payments queue, with an id of its own (claims are keyed by that id, not by
the order); `Pay` passes on what the worker publishes to the status queue, as often as the topic
accepted it (`Announce`); the
status consumer writes `orders.status`. Of `SqsConsumer` in front of that last
queue only the effect on one message is kept: `ApplyOutcome` any number of times
while the message is there, `ApplyLate` by a delivery that overlaps the one that
deleted it, `DropOutcome` into the dead letter queue. Which outcome a call
publishes is a free choice (`rand.Float64() < failureRate` in the code). `PipelineNext` bounds the
faults of an order as a whole (`MaxTrouble`); it stops no step that fairness asks for, since these
never need a fault.

### FraudDetector

`EXTENDS SqsConsumer`, like `PaymentWorker`. Each call on Redis and SNS is an
action: SETNX (`Claim`, `Skip`), INCR (`Incr`), EXPIRE (`Expire`), publish
(`PublishFlag`), each with its failure, which may strike before or after the
command took effect. go-redis repeats a command whose reply was lost:
`SeenRepeats` and `IncrRepeats`. `WindowEnds` is the expiry of the counter.
`counted`, `repeated`, `suspect`, `flagged`, `aborted` and `unbounded` are histories.

### Hub

The broadcaster (`Broadcast`, `Offer` per client, `Unlock`, `CloseSlow`), and per
client `handleWS`'s two goroutines: the writer (`Take`, `Write`, ...) and the reader,
each ending in unregister and close. The mutex is `MutexFree`: `register` and
`unregister` hold it for one step, the broadcaster for its round over the map,
during which the channels can be drained. Messages are numbered. Subscribing
to Redis is left out, except that messages come one after the other.

### Catalog

`handleCreateProduct` with its transaction as one action, like `Checkout`, and
`EXTENDS OutboxRelay`, whose rows are the products: what the relay delivers
goes into `index`. A document is the request it came from, and its price after
Go's conversion.

### Reaper

`Invoke`, `Describe`, `Look`, then one of `Flag`, `Delete` and `Report`, are the calls
of `handler`, `sweepVolumes`, `sweepAddresses` and `sweep`. Times are kept as ages,
which `Tick` lets grow up to the grace period: `flag` for the tag in EC2, `seen` for
the tags in an invocation's listing, and, once it decides to flag, for the time
it is going to write. A tick is longer than Lambda's timeout (60 s, against a
period of 300 s), so time passes for an invocation at most once. EC2 refuses to
delete what is in use; people use and abandon resources at any moment. Both
calls to list are taken to return everything.

### NotificationWorker

`EXTENDS SqsConsumer`, like `PaymentWorker`: `Garbled`
(json.Unmarshal fails), `Claim`/`Skip` (SETNX), `SeenFails`, `SeenRepeats`, and
`Notify`, the switch on the type that writes the notification. There is no
`Unclaim` in this worker. The log line of a notification stands for its sending, as
in the code. `cutOff` records the claims nobody will act on.

### Lifecycle

One process of one of the services, from its start to the exit of `main`, and the
next process in its place. `service` says which `main` it is: `order` has an HTTP
server, a relay and a consumer; `catalog` and `gateway` a server and a loop
on the group's context; `inventory` a server; `worker` (three services) a consumer
and a health server. The consumer of order-service has `OrderSlots` (5 in the code, for
batches of 10), that of a worker `Slots` (10). `failed` is the errgroup's cancellation, `signalled` the signal
context's; the consumer looks at the second only. `ShutdownStarts`/`ShutdownEnds` is
`internal/shutdown`, `Receive` sets `internal/health`'s mark, `Fresh` is
the tracker's handler, `PingOK` the pings of `handleHealthz`. order-service,
catalog-service and inventory-service ping through the client their requests use, which
waits for a connection of its pool: `crowded` says that requests hold all of them, and a
probe that comes then fails. (edge-gateway's requests use no Redis.)
The kubelet is external: `Probe`, `GiveUp` after three failures in a row, and SIGTERM.
Its SIGKILL after the grace period is no action: `StopsInTime` says that it never comes
to that. Time is counted in ticks of 5 s; `Due` lists what the code's
timeouts and the kubelet's schedule do not let time pass over.

A handler here is only a slot that is busy for some time; what it does is in the
workers' modules. `request` says whether there are requests in flight, `crowded`
whether there are enough of them to take the pool (`PoolFills`, `PoolFrees`): Shutdown
waits for the last, and a health check for the first that gives its connection back.

### Guardrail

EC2, CloudTrail with EventBridge, and Lambda are external: `AuthorizeIngress`
opens the rules of a call and sends its event, `Duplicate` delivers an event again,
`CloseByHand` is a person. In a default VPC a call may name its group instead of giving
the id (`ByName`). `handler` is `NoGroupId` (the event has no groupId: it returns nil), `Skip` (no
rule open to the world), `Revoke`,
`AlreadyRemoved` (InvalidPermission.NotFound) and `Notify`; `RevokeFails`,
`RevokeRepeats` and `NotifyFails` are its calls failing, with the effect of the call or
without. A revocation is atomic: it takes all its rules out or none, except in a default
VPC, where it takes out those that are there. `opener` and `disturbed` are histories: who
opened a rule, and of which call a rule was closed by anything but its own event.

## 4. What is checked

Every run is in `PROJECT.json` with its sentence; here is what each is for. The
inductive invariants (`RelayIInv`, `CatalogIInv`, `IInv` of `Checkout`, `ConsumerIInv`, `PayIInv`,
`PipelineIInv`, `NoticeIInv`, `FraudIInv`, `HubIInv`, `LifeIInv`, `ProbeIInv`, `GuardrailIInv`, `ReaperIInv`) are proved, so no run lists them; each is true of the instance of its
run, which is how they were found: add it to the cfg's INVARIANTS to see it.

| Run | Instance | Shows |
|---|---|---|
| `OutboxRelay` | 3 rows (two with the same `created_at`, the youngest poisoned), 2 relays, 3 faults, with fairness | no event lost; every delivery beyond the first paid for by a fault on that row; the relays implement `EventDelivery`, liveness included, while no older row is poisoned |
| `CheckoutRetries` | 2 requests with one key, 1 with another, one item, 2 attempts, expiring reservations, a stock reset | one grant per order; the orders of an item are for no more units than were put up; leaked stock always traces back to a failure |
| `CheckoutMixed` | the key reused for another item and a larger quantity, beyond int32, an invalid request, with fairness | orders are backed by grants, also when their key was reused; order and event never diverge even then; a 201 is true; a retry never rewrites an order; every request ends although inventory-service may stay silent |
| `PaymentWorker` | 1 message of any kind, 2 pods, 4 receives, Redis failures, 2 lost replies of SNS, a stop and a kill | one outcome per message and one more for each acceptance no call reported; a lost outcome takes a stranded claim or an overlap |
| `OrderPipeline` | 1 order, 1 relay, 1 pod of the worker, 2 receives of a message, and one of these: a relay fault (hence up to 2 payment messages), a lost reply of SNS, a stop, a kill; with fairness | each outcome beyond the first is paid for by a relay fault or an unreported acceptance; a status is never turned over by redelivery or restarts alone; no order stays pending without a trace |
| `FraudDetector` | 2 messages out of two events of one user, a FraudFlagged and a malformed one, 2 slots, Redis failures, a window that ends, a stop and a kill | an event counts once; a counter gets its window; losses trace back to cut-off calls |
| `Hub` | 2 clients, buffers of 1, 3 messages, with fairness | no send on or close of a closed channel; nobody gets messages with a gap; broadcasts end; clients that are gone are forgotten |
| `Reaper` | 1 volume used up to twice, 2 invocations, a grace period of 2 ticks, 2 faults, with fairness | a period cut short means the volume was in use again; one notice per deletion unless a fault struck it; no orphan stays for ever |
| `Catalog` | 4 requests (two with one key, one beyond int32, one invalid), 2 products, 2 relays, 1 fault, with fairness | row, event, index and answer agree; what is marked published is in the index; every product gets indexed |
| `NotificationWorker` | 2 messages, one of them garbled, 2 pods, batches of 2, Redis failures, a stop and a kill, with fairness | the consumer itself: deletion only after success (`EventDelivery`), overlaps only after a visibility timeout; one notice per message; a lost notice takes a claim that was cut off or an overlap; every message leaves the queue, and its notice comes |
| `Lifecycle` | all services, 2 slots (order-service 1), a batch of 2, crowded pools, 1 fault, 1 rollout, intervals as in the code, with fairness | a worker that is only busy is not restarted, a service only after three probes that found its pool taken; a process that is told to stop is down within its grace period; a clean exit cut nothing off; a half-dead process is replaced |
| `Guardrail` | 2 rules, 4 calls (one for both rules, one for one of them, one for none, one for a group by its name), 2 deliveries of the first event, 2 tries, 2 faults, 1 rule closed by hand, with fairness | what counts as handled is closed, with two exceptions; revocations are announced; open rules get closed |

### Bounds, and why they are enough

`MaxFaults`, `MaxExpiries`, `MaxSetStocks`, `MaxSent`, `MaxStops`, `MaxKills`, `MaxLost`,
`MaxTrouble` and `MaxReceives` bound how often the environment misbehaves. The mutants, each a plausible bug, are all found
within these bounds.
Two actors suffice for each race, since locks, keys and rows are pairwise
affairs; the theorems then cover any number. `MaxAttempts` is 3 in the code and in `CheckoutMixed`, 2 in
the larger instances: one retry gives a late call beside the current one for
each of two requests, who race on one key.
`Int32Max = 1` moves the overflow into reach of small quantities.
`PaymentWorker` has three messages, one of each kind, of which one is sent
(`MaxSent`): messages share no state in the worker. In `FraudDetector` two
events share their user's counter, so two messages are sent. `OrderPipeline`
has one relay, whose fault may give the order a second payment message; two relays race for the
row in `OutboxRelay`. `MaxTrouble` bounds what goes wrong on an order's way, in the relay, at SNS
and by stops and kills of pods together; with 1 the run has each of these by itself, among all
redeliveries, and `PaymentWorker` has them together for one message. That more of them together
add up as `OneOutcomePerOrder` and `StatusFlipsNeedFaults` say is proved, for any `MaxTrouble`; of
`OrdersSettle` it is not known beyond the run.
`BufferSize` is 16 in the code; at 1 the buffer is empty, full and overflowing
within three messages (`MaxMessages`). `MaxWindows` bounds how often a fraud window ends.
`Reaper` has one volume: resources share nothing but an invocation's position in
its list. Two uses give a second life to a flag that was written late.
`NotificationWorker` runs the consumer too: its handler can fail, time out, succeed and
be cut off, which is all a handler can do to the loop.
`Lifecycle` keeps the ratios of the intervals exactly: long poll 10 s, handler 30 s, tracker
30 s, drain 10 s and 5 s, probes from 10 s on every 15 s, three in a row, grace 30 s, all in ticks
of 5 s. Two slots and a batch of two stand for a worker's ten and ten, one slot and a batch of two for
order-service's five and ten. In a worker the loop waits for a slot only
while handlers of an earlier batch hold some, and a busy worker then fails one
probe at most. That ratio matters: with one slot for a batch of two TLC
finds a worker that is restarted because it is busy, so `CONCURRENCY`
must not be less than the batch of 10; `src/stampede/main.tf:183` sets 10 (`ProbeAssumption`).
order-service may have fewer, since no tracker watches its consumer.
`Guardrail` has two deliveries of the event of the call for both rules, one of the others, and two tries of each delivery: a third finds what
the second left.

### Fairness

* The relay: weak fairness of each relay's own steps. The ticker fires every
  2 s and the calls of the sink end by the timeouts of their clients. The calls of Postgres have no
  deadline in the code: that they end, by an answer or with the connection (`TxLost`, `PollFails`,
  `MarkFails`), is an assumption about Postgres and TCP. Nothing is assumed of faults,
  which are bounded.
* Checkout: weak fairness of each handler, whose waits all have timeouts. None
  for inventory-service.
* The consumer: weak fairness of the queue's clock, of the polling loop and
  of each goroutine; handlers end because every call they make ends with their
  context. None for `Send`, for shutdowns and for kills.

* The pipeline: the fairness of its parts, and that the topic delivers what it
  accepted.
* The hub: weak fairness of the broadcaster and of each client's goroutines; a
  write ends within its deadline of 10 s. The goroutines compete with the
  broadcaster for a mutex. After `MaxMessages` broadcasts it is free for good, so
  weak fairness is enough here; with broadcasts without end it takes what Go's
  `sync.Mutex` gives, the lock for whoever has waited for more than a millisecond.
* The reaper: time passes, EventBridge's schedule fires, and an invocation goes on,
  since every call of the AWS SDK ends. Nothing is assumed of the people.
* The catalog: that of the relay.
* notification-worker: that of the consumer, and its handler's steps.
* The lifecycle: each goroutine and the kubelet are scheduled. Strong fairness of `Tick`:
  whatever is due happens and time goes on, but things may become due over and over. A
  request, a receive that hangs or a dependency that is down need never end.
* The guardrail: Lambda runs what it accepted.

Every action a weak fairness names is a disjunction over the steps
of one goroutine, so it says no more than that the goroutine is scheduled.

### Findings

Where the code does other than its comments, log lines or variables say. The
models contain each; the properties that are checked are what remains true.

* payment-worker's `Unclaim` (`payment-worker/main.go`) runs on the context whose expiry
  made the publish fail; the redelivery is then skipped as "already-processed" and deleted.
  `SkippedMeansProcessed` in `PaymentWorker` states what the log line says; listed as an
  INVARIANT of `PaymentWorker.cfg`, TLC shows the trace. `LostOutcomesNeedStrandedClaims`
  is what holds instead.
* The reaper judges by the age of a flag that nothing removes when the resource
  is used again, while its variable promises that a resource "must remain
  orphaned" for the grace period. `GraceIsKept` in `Reaper` states that; as an
  INVARIANT of `Reaper.cfg` it gives the trace. `EarlyReapsNeedReuse` holds.
* The guardrail takes InvalidPermission.NotFound for "already removed (likely
  duplicate/backlogged event), no action needed" (`src/sentry/lambdas/guardrail/main.go:100`). Outside
  a default VPC, EC2 then took nothing out, also when only one of several rules was gone:
  the others stay open and nobody is told. It takes no person to get there. Of two calls that
  share a rule the second fails as a duplicate, yet CloudTrail reports it, and the event pattern
  (`src/sentry/modules/guardrail/main.tf:71-78`) does not ask for an errorCode: if its event is handled
  first, it takes the shared rule out, and the first call's event finds "already removed".
  `HandledMeansClosed` carries this as its exception outside a default VPC.
* In a default VPC EC2 also takes the name of a group. The event of such a call has no
  groupId, and the guardrail skips it with "no groupId in event, skipping"
  (`src/sentry/lambdas/guardrail/main.go:55-59`) and
  a nil, with its rules open to the world and nobody told: the other exception
  (`LeftOpen`).
* `handleHealthz` of order-service, catalog-service and inventory-service waits for a connection of the
  pool the requests use. The liveness probe therefore restarts a replica that has had more requests than
  connections at three probes in a row, although nothing failed. `RestartsHaveReasons` says that
  this is the only such case, and that it is none for the workers.
* A service with a consumer does not end when its HTTP server fails: `g.Wait` waits for
  `consumer.Run`, which runs on the process context. The liveness probe, which finds nobody
  listening, ends it (`HalfDeadIsReplaced`). order-service's consumer, unlike the workers',
  has no health tracker, so a receive that hangs for ever goes unnoticed there: `Working`
  leaves that case out.
* The relay always takes the oldest pending row. A row whose event the sink
  rejects every time (`Poison`) starves all younger ones, unless another relay happens
  to poll while it is locked. `Promise` is therefore about the rows outside
  `Poison`, and its liveness is checked with the poisoned row as the youngest.
* `int32(req.Quantity)` stores another quantity than the one validated, reserved
  and published, and one that may be negative. `OutboxMirrorsOrders` says how the two relate.
  `StoredQuantityIsPositive` in `Checkout` states what the handler's check is for; as an INVARIANT
  of `CheckoutMixed.cfg` it gives the trace.
  `int32(req.PriceCents)` in catalog-service is the same.
* fraud-detector never releases its claims, so whatever fails after the claim,
  the redelivered event is skipped and not counted (`LostEventsNeedAborts` says
  that this, and overlaps, are the only ways to lose one).

## 5. What is proved

Every invariant and action property that a run checks is also proved, for every value of the
constants that satisfies the named assumptions, and without any premise in its statement. Those of `OutboxRelay`, `Catalog`, `Checkout`,
`SqsConsumer`, `PaymentWorker`, `OrderPipeline`, `NotificationWorker`, `FraudDetector`, `Hub`,
`Guardrail` and `Reaper` give the constants their types, say that some sets are finite, and keep
the values that stand for "nothing" apart from the others; `PipelineAssumption` also says that the
messages the relay sends are OrderPlaced events. Two results about `Lifecycle` use more, each about the configuration:

* `DrainAssumption`: the drain deadlines (10 s, workers 5 s) are shorter than the grace period
  (30 s). Used by `ProcessesStopInTime` only.
* `ProbeAssumption`, about the workers: a batch (10) fits into their slots (`CONCURRENCY`, 10 in
  `src/stampede/main.tf:183`); handlers (30 s) and the probe period (15 s) do not exceed
  the age the tracker allows (30 s); a long poll (10 s) does not exceed the probes before the last
  (two periods of 15 s). Used by `ProbesInductive` and so `NoProcessIsKilledForWork` only. It
  says nothing of order-service's slots, of which there are fewer than messages in a batch.

* `OutboxRelayProofs`: `RelayInductive` (`RelaySafeSpec => []RelayIInv`), `RelayTypeCorrect`,
  `NoEventLost`, `DuplicatesArePaidFor`, and `RelayImplements`: every relay step is a
  step of `EventDelivery` or a stutter.
  *The argument.* `AtLeastOnce` is not inductive by itself: a relay must have
  delivered before it marks (`BusyRelaysHaveARow`), and the row it marks must
  be the one it locked (`LockedRowsArePending`, `LocksAreExclusive`). Counting
  duplicates needs a balance (`DeliveriesAccounted`): deliveries of a row, plus
  the relays that are about to deliver it without a lock (`Orphans`), never
  exceed the faults that struck it, plus one if its regular delivery is behind
  us. A lost connection turns a relay into an orphan and is itself the fault
  that pays for it.
  Of the catalog: `CatalogRunsRelay` (a step of the catalog is one of the relay or leaves
  its variables alone; creating a product is recording a row), `CatalogInductive`,
  `IndexMirrors` and `AnswersStay`.
  *The argument.* A delivery puts the document of its row into the index, and that is the
  product as stored, since a row is never rewritten: so what was delivered is indexed
  (`DeliveredIsIndexed`). `AtLeastOnce`, the relay's own invariant, turns this into
  `PublishedIsIndexed`, the second part of `IndexMirrorsProducts`.
* `CheckoutProofs`: `Inductive`, `TypeCorrect` (stock is never negative),
  `NeverDiverge`, `CreatedIsSaved`, `ReserveIsIdempotent`, `OrderedIsReserved`,
  `LeaksAreExplained`, `OrdersAreFinal` and `NothingIsOversold`.
  *The argument.* Grants of an order equal the expiries of its reservation plus
  one if it is live (`GrantsCounted`); whoever was answered "ok" and whatever
  was saved finds a grant in the ledger (`GrantsFound`, `OrdersFromRequests`);
  and for stock without an order there is always a request that stands for it
  (`LeaksTraced`), a role that passes from the reserve call to the handler to
  the failure it ends in. Whatever was
  granted or ordered was asked for with that key, so where the requests of a key agree
  the grant and the order are the same pair, and `OrderedIsReserved` needs its exception for no other order.
  `NothingIsOversold` adds up all orders of an item without a sum: every unit is a pair
  of its order and a number (`UnitsGranted`), the units of two orders are disjoint, and their set is
  finite with no more elements than the stock that was put up and taken (`UnitsAccounted`), which a grant
  moves by as many on either side. Stock is never negative, which is what the script's check is for, so
  that is no more than `supply`. The units of the stored orders whose keys were not reused are a subset.
* `SqsConsumerProofs`: `ConsumerInductive`, `OnlyTimeoutsOverlap`, and
  `ConsumerImplements` (`EventDelivery`, with "told" read as "handled"), for every
  handler.
  *The argument.* A message nobody holds is in no inbox and no slot, a message that
  never overlapped is held once. A step that only gives deliveries up keeps this
  (`HoldersShrink`), which leaves two steps that do more: a receive takes only what the
  queue offers, hence what nobody holds (`HoldersReceive`), and a dispatch moves a
  delivery (`HoldersDispatch`), which waits no longer because a pod has one delivery of
  the message at most (`DeliveriesAreSingle`). Who deletes has had the
  handler's nil (`DeletionsAreEarned`).
* `OrderPipelineProofs`, first of payment-worker: `WorkerImplementsConsumer`, `WorkerInductive`, `OneOutcome` and
  `LossesAreExplained`.
  *The argument.* Each step of the worker is one of the consumer or leaves its
  variables alone, so `ConsumerIInv` comes for free; what remains is the claims. A
  claim has one owner at most (`OwnersAreUnique`), and while it has one, or
  while there is no claim, each outcome so far was an unreported acceptance (`OutcomesCounted`); the call
  that succeeds adds the one that is reported. A
  claim has an owner, an outcome, or was stranded (`ClaimsExplained`); so who skips a claimed
  message either knows of an outcome, or of a stranded claim, or its owner is
  another slot, which `OverlapsAreTimeouts` turns into an overlap (`AcksExplained`).
  Then of the pipeline: `PipelineRunsRelay`, `PipelineRunsWorker`, `PipelineInductive`,
  `OneOutcomeEach`, `FlipsArePaidFor`, and `PipelineImplements`: from end to end the pipeline
  implements `EventDelivery` (`SettledAfterPayment`), where an event is an order, told when an outcome was
  announced, and settled when its status is one.
  *The argument.* A step of the pipeline is one of the relay or leaves it alone, and likewise of the
  worker, so `RelayIInv` and `PayIInv` hold of it. What remains is a chain of counts: an order
  has no more messages than its row was delivered (`MessagesAreDelivered`), and exactly as many outcomes as
  its messages published (`OutcomesArePublished`). A row is delivered once more than
  faults struck it at most (`DuplicatesArePaidFor`), a message published once more than it had
  unreported acceptances (`OneOutcomePerMessage`): together one plus `Faults`. A status that is turned over was announced as both
  outcomes (`StatusIsAnnounced`), hence takes a fault.
* `NotificationWorkerProofs`: `NotifierImplementsConsumer`, `NoticesInductive`, `OneNotice`,
  `LostNoticesAreExplained`.
  *The argument.* As for payment-worker, on `ConsumerIInv`, without claims that are given
  back: a claim has one owner (`OwnersAreUnique`), whose message has no notice yet
  (`NoticesCounted`), and a claim without owner or notice was cut off (`ClaimsExplained`).
* `FraudDetectorProofs`: `DetectorImplementsConsumer`, `FraudInductive`, `EventsCountOnce`,
  `CountersGetWindows`, `LostEventsAreExplained`.
  *The argument.* For messages the same again, with two facts more: nothing is counted
  before its claim nor while the claim's owner has yet to count (`ClaimsComeFirst`), so the owner's
  INCR is the first. For users: a counter that becomes 1 was 0, hence had no window, and
  nobody was about to set one, so the handler that got the 1 is its only setter
  (`WindowsHaveOneSetter`) until it sets the window or is put down as having failed to.
* `ServiceProofs`, of the hub: `HubInductive`, `ChannelsAreSafe`, `ClientsSeeNoGaps`.
  *The argument.* The broadcaster visits clients of the map only and nobody leaves the map
  during a round, since that takes the mutex (`RoundsAreClean`). `NoGaps` is about single writes;
  it needs that the message with the writer and those in the channel are consecutive numbers
  (`WaitingInOrder`) up to the latest (`NoneIsMissing`). The exception is a slow client, who
  keeps a queue with its end missing; its connection is closed before the next
  round begins, so nothing is appended behind the gap.
  Of the life of a process: `LifeInductive` with `ProcessesStopInTime` and `CleanExitsAreClean`,
  `ProbesInductive` with `NoProcessIsKilledForWork`.
  *The argument.* Exit waits for Shutdown, which waits for requests (`ServersShutDown`), and for the loop, which
  waits for its handlers (`LoopsWait`). After SIGTERM all else is over at once, so
  time passes only while the server drains, and the grace period cannot run ahead of `drained`
  (`DrainIsTimed`). For the probes of a worker: while the loop waits for a slot, a handler older than the
  mark frees one by then, and those younger are of the batch itself (`Newer`), which with the rest of the
  batch fits into the slots (`BatchesFit`); so the mark is at most as old as a
  handler plus the long poll after it (`MarksAreTimely`), a probe fails in that long poll only, and
  so do those after it (`FailuresAreLongPolls`); the long poll ends before there are enough of them.
  Services have no tracker: a probe that fails while nothing is out of order found the pool crowded, and `starved`
  remembers whether all did.
* `SentryProofs`, of the guardrail: `GuardrailInductive`, `HandledIsClosed`, `RevocationsAreTold`.
  *The argument.* The rules of a call that nothing but its own event touched are all open or
  all closed (`RulesFallTogether`), because a revocation takes them out together. So NotFound
  on such a call means that none is open, and "no action needed" is right. Calls by name occur in a
  default VPC only (`NamesNeedDefaultVpc`), so the two exceptions do not meet.
  Of the reaper: `ReaperInductive`, `NothingIsReapedEarly`, `ReapsAreToldOnce`.
  *The argument.* The age of a flag is earned: the resource was an orphan for that long
  (`FlagsAreEarned`), and so is an age in an invocation's listing (`ListingsAreEarned`), unless
  the resource was used after it was flagged or listed. EC2 lets one invocation delete a
  resource; that one is on its way to report it (`AboutToTell`) until it has, so the reports and those who are about
  to make one are one together.

## 6. Only model-checked

* Everything about progress: the liveness in `PromiseKept` (its safety part is
  `RelayImplements`), and `EveryRequestEnds`,
  `NoticesArrive`, `OrdersSettle`, `ProductsAreIndexed`, `BroadcastsEnd`,
  `ClientsAreForgotten`, `OrphansAreReaped`, `HalfDeadIsReplaced`, `OpenRulesAreClosed`.
  TLAPS does not do liveness under fairness, nor ENABLED.
* That the bounds of the runs are reached and the mutants found: the theorems say nothing about
  either.

## 7. Not modelled

* `serverless-api`: one conditional DynamoDB call per request, no protocol.
* `sentry/lambdas/self-healer`: one call per alarm, no state.
* The reverse proxy of edge-gateway, GET handlers and search: they read and
  forward, and change nothing.
* Logging, secrets, metrics: no effect on the state above. The readiness probe only
  takes a pod out of a load balancer.
* Terraform and GitOps manifests: declarative. The values the models depend on
  (replicas, visibility, retention, redrive, filters) are their constants.
* In Checkout, the contents of the event beyond item and quantity; in
  inventory-service, the Redis message about changed stock that goes to the
  WebSocket clients: it changes nothing in the service, and Redis pub/sub
  promises nothing about it, so `Hub` starts where a message has arrived.
* Duplicates SNS makes of its own: a standard topic may deliver one accepted publish twice.
  `OrderPipeline` leaves them out. What its clients repeat, because a reply was lost, it has
  (`SinkRepeats`, `Accepted`).
* Reads of the search index while it is refreshed.
