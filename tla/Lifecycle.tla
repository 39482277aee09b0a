------------------------------ MODULE Lifecycle ------------------------------
(***************************************************************************)
(* The life of one process of a service: how main wires its goroutines in  *)
(* an errgroup, internal/shutdown and internal/health, under a kubelet     *)
(* that probes /healthz and sends SIGTERM.                                 *)
(*                                                                         *)
(* The goroutines hang on two contexts.  ctx is cancelled by SIGTERM; gCtx *)
(* by SIGTERM or by the first goroutine that returns an error.  The HTTP   *)
(* server, its shutdown and the background loop (the relay, or the         *)
(* subscriber of edge-gateway) live on gCtx, the consumer on ctx: when the *)
(* server fails a process with a consumer does not end by itself.          *)
(*                                                                         *)
(* Time passes in ticks of 5 s, of which each interval in the code is a    *)
(* multiple; what is due happens before the next tick.                     *)
(***************************************************************************)
EXTENDS Naturals, FiniteSets

CONSTANTS
  Slots,           \* semaphore slots of a worker's consumer ...
  OrderSlots,      \* ... and of order-service's, which has fewer
  BatchMax,        \* MaxNumberOfMessages
  LongPoll,        \* WaitTimeSeconds
  HandlerTimeout,
  MaxAge,          \* of the last successful receive, for tracker.Handler
  ServiceDrain,    \* deadline of Shutdown in the services ...
  WorkerDrain,     \* ... and of the health server in the workers
  InitialDelay, ProbePeriod, Threshold,   \* the liveness probe
  Grace,           \* terminationGracePeriodSeconds, the default; then SIGKILL
  MaxFaults,       \* bound on failures of the environment
  MaxStops         \* bound on SIGTERMs of a rollout

ASSUME LifecycleAssumption ==
  /\ IsFiniteSet(Slots) /\ OrderSlots \subseteq Slots /\ OrderSlots # {}
  /\ {BatchMax, LongPoll, HandlerTimeout, ProbePeriod, Threshold} \subseteq Nat \ {0}
  /\ {MaxAge, ServiceDrain, WorkerDrain, InitialDelay, Grace, MaxFaults, MaxStops} \subseteq Nat

\* the drain deadlines are within the grace period
ASSUME DrainAssumption == ServiceDrain < Grace /\ WorkerDrain < Grace

\* of the workers, whose probes read a tracker: a batch fits into the slots, a
\* handler and a probe period into the age the tracker allows, a long poll into
\* the probes before the last
ASSUME ProbeAssumption ==
  /\ BatchMax <= Cardinality(Slots)
  /\ HandlerTimeout <= MaxAge /\ ProbePeriod <= MaxAge
  /\ LongPoll <= (Threshold - 1) * ProbePeriod

VARIABLES
  service,     \* which main it is
  process,     \* up or down
  signalled,   \* SIGTERM has come: ctx is done
  failed,      \* has a goroutine of the group returned an error?
  server,      \* ListenAndServe: listening, failed or closed
  shutdown,    \* the goroutine that calls Shutdown
  drained,     \* ticks since it called it
  background,  \* the loop on gCtx, if the service has one
  request,     \* are there requests in flight ...
  crowded,     \* ... that hold every connection of the client's pool?
  loop,        \* consumer.Run, if the service has one
  hung,        \* does ReceiveMessage not come back, or only with errors?
  polled,      \* ticks since ReceiveMessage was called
  batch,       \* messages received but not yet dispatched
  busy,        \* slots with a handler ...
  age,         \* ... and the ticks it has run for
  mark,        \* ticks since MarkHealthy, up to the first that is too old
  reachable,   \* does the database or Redis answer the health check?
  probeIn,     \* ticks to the next probe
  fails,       \* probes that failed in a row
  starved,     \* history: did each of them find the pool crowded?
  grace,       \* ticks since SIGTERM
  excused,     \* history: something failed since the last good probe
  exit,        \* history: how the process that is down ended ...
  lost,        \* ... and whether that cut off a request or a handler
  faults,      \* bound: failures so far
  stops        \* bound: rollouts so far

group == <<failed, server, shutdown, drained, background, request, crowded>>
consumer == <<loop, hung, polled, batch, busy, age, mark>>
kubelet == <<probeIn, fails, starved, excused>>
ends == <<process, exit, lost, stops>>
lifeVars == <<service, signalled, grace, reachable, faults, group, consumer, kubelet, ends>>

\* worker stands for the three workers
Services == {"order", "catalog", "inventory", "gateway", "worker"}
HasConsumer == service \in {"order", "worker"}
HasTracker == service = "worker"
HasBackground == service \in {"order", "catalog", "gateway"}
\* requests and the health check share a client of Postgres or Redis
SharesPool == service \in {"order", "catalog", "inventory"}
OwnSlots == IF service = "order" THEN OrderSlots ELSE Slots
DrainLimit == IF service = "worker" THEN WorkerDrain ELSE ServiceDrain

LifeTypeOK ==
  /\ service \in Services
  /\ process \in {"up", "down"}
  /\ signalled \in BOOLEAN
  /\ failed \in BOOLEAN
  /\ server \in {"listening", "failed", "closed"}
  /\ shutdown \in {"waiting", "draining", "done"}
  /\ drained \in 0 .. ServiceDrain + WorkerDrain
  /\ background \in {"none", "running", "done"}
  /\ request \in BOOLEAN
  /\ crowded \in BOOLEAN
  /\ loop \in {"none", "receiving", "dispatching", "done"}
  /\ hung \in BOOLEAN
  /\ polled \in 0 .. LongPoll
  /\ batch \in 0 .. BatchMax
  /\ busy \subseteq Slots
  /\ age \in [Slots -> 0 .. HandlerTimeout]
  /\ mark \in 0 .. MaxAge + 1
  /\ reachable \in BOOLEAN
  /\ probeIn \in 0 .. InitialDelay + ProbePeriod
  /\ fails \in 0 .. Threshold
  /\ grace \in 0 .. Grace
  /\ starved \in BOOLEAN
  /\ excused \in BOOLEAN
  /\ exit \in {"none", "clean", "error"}
  /\ lost \in BOOLEAN
  /\ faults \in 0 .. MaxFaults
  /\ stops \in 0 .. MaxStops

LifeInit ==
  /\ service \in Services
  /\ process = "up" /\ signalled = FALSE
  /\ failed = FALSE /\ server = "listening" /\ shutdown = "waiting" /\ drained = 0
  /\ background = IF HasBackground THEN "running" ELSE "none"
  /\ request = FALSE /\ crowded = FALSE
  /\ loop = IF HasConsumer THEN "receiving" ELSE "none"
  /\ hung = FALSE /\ polled = 0 /\ batch = 0 /\ mark = 0
  /\ busy = {} /\ age = [s \in Slots |-> 0]
  /\ reachable = TRUE
  /\ probeIn = InitialDelay /\ fails = 0 /\ grace = 0 /\ starved = TRUE /\ excused = FALSE
  /\ exit = "none" /\ lost = FALSE
  /\ faults = 0 /\ stops = 0

\* gCtx is done
Cancelled == signalled \/ failed

-----------------------------------------------------------------------------
(* The errgroup's goroutines.                                              *)

Fault == faults < MaxFaults /\ faults' = faults + 1 /\ excused' = TRUE

\* ListenAndServe returns an error that is not ErrServerClosed
ServerFails ==
  /\ process = "up" /\ server = "listening"
  /\ server' = "failed"
  /\ failed' = TRUE
  /\ Fault
  /\ UNCHANGED <<service, signalled, grace, reachable, shutdown, drained, background,
                 request, crowded, consumer, probeIn, fails, starved, ends>>

\* <-gCtx.Done(), then Shutdown: ListenAndServe returns ErrServerClosed
ShutdownStarts ==
  /\ process = "up" /\ Cancelled /\ shutdown = "waiting"
  /\ shutdown' = "draining"
  /\ server' = IF server = "listening" THEN "closed" ELSE server
  /\ UNCHANGED <<service, signalled, grace, reachable, faults, failed, drained, background,
                 request, crowded, consumer, kubelet, ends>>

\* no connection is active any more, or the deadline is over: an error
ShutdownEnds ==
  /\ process = "up" /\ shutdown = "draining"
  /\ ~request \/ drained = DrainLimit
  /\ shutdown' = "done"
  /\ failed' = (failed \/ request)
  /\ UNCHANGED <<service, signalled, grace, reachable, faults, server, drained, background,
                 request, crowded, consumer, kubelet, ends>>

\* runOutboxRelay or subscribeStockUpdates returns
BackgroundEnds ==
  /\ process = "up" /\ Cancelled /\ background = "running"
  /\ background' = "done"
  /\ UNCHANGED <<service, signalled, grace, reachable, faults, failed, server, shutdown,
                 drained, request, crowded, consumer, kubelet, ends>>

RequestArrives ==
  /\ process = "up" /\ service # "worker"
  /\ server = "listening" /\ ~request
  /\ request' = TRUE
  /\ UNCHANGED <<service, signalled, grace, reachable, faults, failed, server, shutdown,
                 drained, background, crowded, consumer, kubelet, ends>>

\* there are more of them, and the last free connection is taken
PoolFills ==
  /\ process = "up" /\ SharesPool /\ request /\ ~crowded
  /\ crowded' = TRUE
  /\ UNCHANGED <<service, signalled, grace, reachable, faults, failed, server, shutdown,
                 drained, background, request, consumer, kubelet, ends>>

PoolFrees ==
  /\ process = "up" /\ crowded
  /\ crowded' = FALSE
  /\ UNCHANGED <<service, signalled, grace, reachable, faults, failed, server, shutdown,
                 drained, background, request, consumer, kubelet, ends>>

\* the last handler answers; its context is not cancelled by SIGTERM
RequestEnds ==
  /\ process = "up" /\ request
  /\ request' = FALSE /\ crowded' = FALSE
  /\ UNCHANGED <<service, signalled, grace, reachable, faults, failed, server, shutdown,
                 drained, background, consumer, kubelet, ends>>

-----------------------------------------------------------------------------
(* consumer.Run, on ctx, and the health tracker.  A handler, and the       *)
(* deletion after it, end within HandlerTimeout.                           *)

MarkHealthy == mark' = 0

Frame == UNCHANGED <<service, signalled, grace, reachable, group, ends>>

Receive_MarksWork(n) ==
  /\ process = "up" /\ loop = "receiving" /\ ~hung /\ ~signalled
  /\ n = 0 => polled = LongPoll
  /\ IF n > 0 THEN MarkHealthy ELSE UNCHANGED mark
  /\ polled' = 0
  /\ batch' = n
  /\ loop' = IF n > 0 THEN "dispatching" ELSE "receiving"
  /\ UNCHANGED <<hung, busy, age, faults, kubelet>> /\ Frame
\* ReceiveMessage returns n messages, none only after the long poll
Receive(n) ==
  /\ process = "up" /\ loop = "receiving" /\ ~hung /\ ~signalled
  /\ n = 0 => polled = LongPoll
  /\ MarkHealthy
  /\ polled' = 0
  /\ batch' = n
  /\ loop' = IF n > 0 THEN "dispatching" ELSE "receiving"
  /\ UNCHANGED <<hung, busy, age, faults, kubelet>> /\ Frame

ReceiveHangs ==
  /\ process = "up" /\ loop = "receiving" /\ ~hung
  /\ hung' = TRUE
  /\ Fault
  /\ UNCHANGED <<loop, polled, batch, busy, age, mark, probeIn, fails, starved>> /\ Frame

ReceiveRecovers ==
  /\ process = "up" /\ hung
  /\ hung' = FALSE
  /\ polled' = 0
  /\ UNCHANGED <<loop, batch, busy, age, mark, faults, kubelet>> /\ Frame

\* sem <- struct{}{}; the loop goes on when the whole batch has a slot
Dispatch(s) ==
  /\ process = "up" /\ loop = "dispatching" /\ s \in OwnSlots \ busy
  /\ busy' = busy \cup {s}
  /\ age' = [age EXCEPT ![s] = 0]
  /\ batch' = batch - 1
  /\ loop' = IF batch = 1 THEN "receiving" ELSE "dispatching"
  /\ UNCHANGED <<hung, polled, mark, faults, kubelet>> /\ Frame

\* the handler returns and its message is deleted, or neither succeeds
HandlerEnds(s) ==
  /\ process = "up" /\ s \in busy
  /\ busy' = busy \ {s}
  /\ age' = [age EXCEPT ![s] = 0]
  /\ UNCHANGED <<loop, hung, polled, batch, mark, faults, kubelet>> /\ Frame

\* ctx is done, and so is wg.Wait
LoopEnds ==
  /\ process = "up" /\ loop = "receiving" /\ signalled
  /\ busy = {}
  /\ loop' = "done"
  /\ hung' = FALSE
  /\ UNCHANGED <<polled, batch, busy, age, mark, faults, kubelet>> /\ Frame

-----------------------------------------------------------------------------
(* The kubelet, the network and the clock.                                 *)

\* tracker.Handler: the last receive is not too long ago
Fresh == mark <= MaxAge

\* handleHealthz of the services: a connection of the pool is free before the
\* probe gives up, and what it pings answers
PingOK == reachable /\ ~crowded

Healthy_NoTracker == server = "listening" /\ (HasTracker \/ PingOK)
\* GET /healthz is answered with 200
Healthy == server = "listening" /\ IF HasTracker THEN Fresh ELSE PingOK

Probe ==
  /\ process = "up" /\ ~signalled
  /\ probeIn = 0 /\ fails < Threshold
  /\ fails' = IF Healthy THEN 0 ELSE fails + 1
  /\ starved' = (Healthy \/ (starved /\ crowded))
  /\ excused' = IF Healthy THEN hung \/ ~reachable ELSE excused
  /\ probeIn' = ProbePeriod
  /\ UNCHANGED <<service, signalled, grace, reachable, faults, group, consumer, ends>>

Terminate ==
  /\ process = "up" /\ ~signalled
  /\ signalled' = TRUE
  /\ UNCHANGED <<service, grace, reachable, faults, group, consumer, kubelet, process, exit, lost>>

GiveUp == fails = Threshold /\ Terminate /\ UNCHANGED stops
Rollout == stops < MaxStops /\ stops' = stops + 1 /\ Terminate

GroupDone ==
  /\ server # "listening" /\ shutdown = "done"
  /\ background # "running" /\ loop \in {"none", "done"}

Ends(how) ==
  /\ process' = "down"
  /\ exit' = how
  /\ lost' = (request \/ busy # {})
  /\ UNCHANGED <<service, signalled, grace, reachable, faults, stops, group, consumer, kubelet>>

Exit_OnServer ==
  /\ process = "up" /\ server # "listening"
  /\ Ends(IF failed THEN "error" ELSE "clean")
\* g.Wait returns; main exits with 1 if a goroutine failed
Exit ==
  /\ process = "up" /\ GroupDone
  /\ Ends(IF failed THEN "error" ELSE "clean")

\* A new process in the place of the old one
Restart ==
  /\ process = "down"
  /\ process' = "up" /\ signalled' = FALSE
  /\ failed' = FALSE /\ server' = "listening" /\ shutdown' = "waiting" /\ drained' = 0
  /\ background' = IF HasBackground THEN "running" ELSE "none"
  /\ request' = FALSE /\ crowded' = FALSE
  /\ loop' = IF HasConsumer THEN "receiving" ELSE "none"
  /\ hung' = FALSE /\ polled' = 0 /\ batch' = 0 /\ mark' = 0
  /\ busy' = {} /\ age' = [s \in Slots |-> 0]
  /\ probeIn' = InitialDelay /\ fails' = 0 /\ grace' = 0 /\ starved' = TRUE /\ excused' = ~reachable
  /\ exit' = "none" /\ lost' = FALSE
  /\ UNCHANGED <<service, reachable, faults, stops>>

\* the database or Redis
DependencyFails ==
  /\ process = "up" /\ service # "worker" /\ reachable
  /\ reachable' = FALSE
  /\ Fault
  /\ UNCHANGED <<service, signalled, grace, group, consumer, probeIn, fails, starved, ends>>

DependencyRecovers ==
  /\ ~reachable
  /\ reachable' = TRUE
  /\ UNCHANGED <<service, signalled, grace, faults, group, consumer, kubelet, ends>>

ConsumerDue_OwnContext ==
  \/ loop = "receiving" /\ ~hung /\ polled = LongPoll
  \/ loop = "dispatching" /\ busy # OwnSlots
  \/ \E s \in busy : age[s] = HandlerTimeout
  \/ signalled /\ loop = "receiving" /\ busy = {}
\* every call of the consumer and its handlers ends with ctx, and a handler's
\* after its timeout
ConsumerDue ==
  \/ loop = "receiving" /\ ~hung /\ polled = LongPoll
  \/ loop = "dispatching" /\ busy # OwnSlots
  \/ \E s \in busy : age[s] = HandlerTimeout
  \/ signalled /\ loop \in {"receiving", "dispatching"}

\* what has to happen before time goes on
Due ==
  \/ process = "down"
  \/ GroupDone
  \/ Cancelled /\ (shutdown = "waiting" \/ background = "running")
  \/ shutdown = "draining" /\ (~request \/ drained = DrainLimit)
  \/ ConsumerDue
  \/ signalled /\ grace = Grace
  \/ ~signalled /\ (probeIn = 0 \/ fails = Threshold)

Tick ==
  /\ ~Due
  /\ polled' = IF loop = "receiving" /\ ~hung THEN polled + 1 ELSE polled
  /\ age' = [s \in Slots |-> IF s \in busy THEN age[s] + 1 ELSE age[s]]
  /\ mark' = IF HasTracker /\ mark <= MaxAge THEN mark + 1 ELSE mark
  /\ drained' = IF shutdown = "draining" THEN drained + 1 ELSE drained
  /\ probeIn' = IF signalled THEN probeIn ELSE probeIn - 1
  /\ grace' = IF signalled THEN grace + 1 ELSE grace
  /\ UNCHANGED <<service, signalled, reachable, faults, failed, server, shutdown, background,
                 request, crowded, loop, hung, batch, busy, fails, starved, excused, ends>>

-----------------------------------------------------------------------------

ShutdownStep == ShutdownStarts \/ ShutdownEnds
LoopStep == (\E n \in 0 .. BatchMax : Receive(n)) \/ (\E s \in Slots : Dispatch(s)) \/ LoopEnds
KubeletStep == Probe \/ GiveUp \/ Restart

LifeNext ==
  \/ ServerFails \/ ShutdownStep \/ BackgroundEnds
  \/ RequestArrives \/ RequestEnds \/ PoolFills \/ PoolFrees
  \/ LoopStep \/ ReceiveHangs \/ ReceiveRecovers
  \/ \E s \in Slots : HandlerEnds(s)
  \/ KubeletStep \/ Rollout \/ Exit
  \/ DependencyFails \/ DependencyRecovers
  \/ Tick

LifeSafeSpec == LifeInit /\ [][LifeNext]_lifeVars

\* Goroutines and the kubelet are scheduled, and time passes.  Nothing is
\* assumed of requests, nor of what hangs or is down.
LifeSpec ==
  /\ LifeSafeSpec
  /\ WF_lifeVars(ShutdownStep) /\ WF_lifeVars(BackgroundEnds) /\ WF_lifeVars(Exit)
  /\ WF_lifeVars(LoopStep) /\ \A s \in Slots : WF_lifeVars(HandlerEnds(s))
  /\ WF_lifeVars(KubeletStep)
  /\ SF_lifeVars(Tick)

-----------------------------------------------------------------------------
(* What the wiring guarantees.                                             *)

(* The kubelet never gives up on a worker that is only busy or idle:       *)
(* waiting for a slot while 30 s handlers run, and for a long poll after   *)
(* that, delays MarkHealthy past 30 s, but not for three probes in a row.  *)
(* A service whose requests share the connections of its health check      *)
(* loses its life without a failure only when each of those probes in a    *)
(* row found them all taken.                                               *)
RestartsHaveReasons == fails = Threshold => excused \/ (SharesPool /\ starved)

(* A process that is told to stop does so before the grace period is over  *)
(* and the kubelet kills it: its drain deadline is within that period, and *)
(* its handlers end with ctx.                                              *)
StopsInTime == process = "up" /\ signalled => grace < Grace

(* A process that reports a clean exit has cut nothing off: it ended       *)
(* neither before its last request nor before its last handler.            *)
CleanExitsLoseNothing == exit = "clean" => ~lost

\* every goroutine does its work.  order-service's consumer has no tracker:
\* nothing notices when its ReceiveMessage hangs.
Working ==
  /\ process = "up" /\ ~signalled
  /\ server = "listening"
  /\ background # "done" /\ loop # "done"
  /\ HasTracker => ~hung

(* A process does not stay half dead for ever.  When the server fails, the *)
(* errgroup stops the relay but waits for a consumer that nobody stops; it *)
(* takes the liveness probe to end the process and have a new one.         *)
HalfDeadIsReplaced == ~Working ~> Working

-----------------------------------------------------------------------------
(* The inductive invariant behind the safety properties.                   *)

\* the server is closed by Shutdown only, and that waits for its requests
ServersShutDown ==
  /\ shutdown # "waiting" => server # "listening"
  /\ shutdown = "done" /\ ~failed => ~request

\* the loop is over when its handlers are
LoopsWait == loop \in {"none", "done"} => busy = {}

\* since SIGTERM there has been time for nothing but the drain
DrainIsTimed ==
  /\ drained <= DrainLimit
  /\ grace <= IF signalled THEN drained ELSE 0

UnlessExcused ==
  ~signalled /\ ~excused => server = "listening" /\ reachable /\ ~hung

\* without SIGTERM only a failure of the server cancels gCtx, and the loop runs on
OnlyFailuresCancel ==
  ~signalled => /\ IF failed THEN server = "failed" ELSE server = "listening" /\ shutdown = "waiting"
                /\ HasTracker => loop \in {"receiving", "dispatching"}

DispatchersHaveWork == loop = "dispatching" => batch >= 1

LifeIInv ==
  /\ LifeTypeOK
  /\ ServersShutDown /\ LoopsWait /\ CleanExitsLoseNothing
  /\ DrainIsTimed
  /\ DispatchersHaveWork

\* handlers younger than the batch are of this batch; the others end in time
Newer == {s \in busy : age[s] < mark}
BatchesFit ==
  HasTracker /\ loop = "dispatching" =>
    mark <= HandlerTimeout /\ Cardinality(Newer) + batch <= BatchMax

\* a receive that is late is the fault of the long poll alone
MarksAreTimely == HasTracker /\ ~signalled /\ ~excused => mark <= MaxAge + polled

\* a worker's probe that failed was in the long poll; so is the next, or it will
\* not fail.  A service's found no connection.
FailuresAreLongPolls ==
  /\ fails >= 1 => probeIn <= ProbePeriod
  /\ fails >= 1 /\ ~signalled /\ ~excused =>
       IF HasTracker
         THEN \/ loop = "receiving" /\ polled >= 1 + fails * ProbePeriod - probeIn
              \/ mark <= ProbePeriod - probeIn
         ELSE starved

\* only the pool of a service with requests is ever crowded
PoolsAreShared ==
  /\ crowded \/ (fails >= 1 /\ starved) => SharesPool
  /\ fails = 0 => starved

ProbeIInv ==
  /\ LifeIInv
  /\ UnlessExcused /\ OnlyFailuresCancel /\ PoolsAreShared
  /\ BatchesFit /\ MarksAreTimely /\ FailuresAreLongPolls
  /\ RestartsHaveReasons
==============================================================================
