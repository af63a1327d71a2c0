------------------------------ MODULE Shutdown ------------------------------
(***************************************************************************)
(* How the worker process ends: WorkerShutdownCoordinator stops the relay, *)
(* drains the BullMQ workers in parallel and closes their connection; then *)
(* the imported modules close Redis, the pool is ended under a watchdog,   *)
(* and the process is gone.                                                *)
(*                                                                         *)
(* Ticks, jobs, Redis and the pool may hang at every point.  Time is       *)
(* reduced to the deadlines: each may pass once its timer runs.            *)
(***************************************************************************)
EXTENDS Naturals, FiniteSets

CONSTANTS
  Queues,      \* the queues with a worker registered, one each
  Jobs,         \* jobs of a queue
  Concurrency   \* jobs a worker runs at a time

ASSUME ShutdownAssumption == Concurrency \in Nat \ {0}

VARIABLES
  phase,     \* what the closing of the application waits for
  stopped,   \* OutboxRelay.stopped
  timer,     \* OutboxRelay.timer is set
  tick,      \* OutboxRelay.tickInFlight
  exhausted, \* shutdownWaitExhausted
  worker,    \* per worker: its close, its fetch and its active jobs
  watchdog,  \* the watchdog's timer runs
  cut        \* history: jobs that were active when their worker was closed

shutdownVars == <<phase, stopped, timer, tick, exhausted, worker, watchdog, cut>>

relay == <<stopped, timer, tick, exhausted>>

\* In the order of the code.
Phases ==
  {"up", "relay", "workers", "connection", "modules", "redis", "pool", "exited"}

\* Of a worker's close.
Stages ==
  {"running", "pausing", "interrupting", "settling", "draining", "closing", "closed"}

\* racing: a claim was under way when the blocking fetch was interrupted;
\* spent: the grace period passed; failed: pausing threw.
Working ==
  [stage |-> "running", fetch |-> "none", active |-> {},
   racing |-> FALSE, spent |-> FALSE, failed |-> FALSE]

Set(w, row) == worker' = [worker EXCEPT ![w] = row]
Turn(w, stage) == Set(w, [worker[w] EXCEPT !.stage = stage])

Alive == phase # "exited"

-----------------------------------------------------------------------------
(* OutboxRelay: the poll loop and stop().                                  *)

\* scheduleNext after a tick.
Rescheduled == ~stopped

\* The timer fires; its callback does not look at stopped.
FireTimer ==
  /\ Alive /\ timer
  /\ timer' = FALSE
  /\ tick' = TRUE
  /\ UNCHANGED <<phase, stopped, exhausted, worker, watchdog, cut>>

\* A claim-and-publish pass settles.
EndTick ==
  /\ Alive /\ tick
  /\ tick' = FALSE
  /\ timer' = Rescheduled
  /\ UNCHANGED <<phase, stopped, exhausted, worker, watchdog, cut>>

\* clearTimeout.
ClearTimer == FALSE

\* SIGTERM: the coordinator's hook is the first, and calls relay.stop().
Signal ==
  /\ phase = "up"
  /\ phase' = "relay"
  /\ stopped' = TRUE
  /\ timer' = ClearTimer
  /\ UNCHANGED <<tick, exhausted, worker, watchdog, cut>>

\* What stop() awaits is over.
RelayStopped == phase = "relay" /\ ~tick

\* WorkerHost.shutdown() begins to close every worker at once.
DrainWorkers ==
  /\ phase' = "workers"
  /\ worker' = [w \in Queues |-> [worker[w] EXCEPT !.stage = "pausing"]]

FinishRelay ==
  /\ RelayStopped
  /\ DrainWorkers
  /\ UNCHANGED <<relay, watchdog, cut>>

\* The tick outlasts the grace period: shutdown goes on without it.
RelayGraceEnds ==
  /\ phase = "relay" /\ tick
  /\ exhausted' = TRUE
  /\ DrainWorkers
  /\ UNCHANGED <<stopped, timer, tick, watchdog, cut>>

-----------------------------------------------------------------------------
(* A BullMQ worker: its main loop, and closeWorkerGracefully.              *)

\* The main loop asks for a job while intake is on and a slot is free.
FetchJob(w) ==
  /\ Alive
  /\ worker[w].stage \in {"running", "pausing"}
  /\ worker[w].fetch = "none" /\ Cardinality(worker[w].active) < Concurrency
  /\ Set(w, [worker[w] EXCEPT !.fetch = "blocked"])
  /\ UNCHANGED <<phase, relay, watchdog, cut>>

\* The blocking fetch wakes, paused or not, and claims.
Wake(w) ==
  /\ Alive
  /\ worker[w].fetch = "blocked" /\ worker[w].stage # "closed"
  /\ Set(w, [worker[w] EXCEPT !.fetch = "claiming"])
  /\ UNCHANGED <<phase, relay, watchdog, cut>>

\* The claim returns a job, which becomes active, or nothing.
ClaimJob(w) ==
  /\ Alive
  /\ worker[w].fetch = "claiming" /\ worker[w].stage # "closed"
  /\ \/ \E j \in Jobs \ worker[w].active :
          Set(w, [worker[w] EXCEPT !.fetch = "none", !.active = @ \cup {j}])
     \/ Set(w, [worker[w] EXCEPT !.fetch = "none"])
  /\ UNCHANGED <<phase, relay, watchdog, cut>>

\* A job completes or fails: markJobSettled.
FinishJob(w, j) ==
  /\ Alive
  /\ j \in worker[w].active /\ worker[w].stage # "closed"
  /\ Set(w, [worker[w] EXCEPT !.active = @ \ {j}])
  /\ UNCHANGED <<phase, relay, watchdog, cut>>

\* worker.pause(true) switches intake off without waiting.
Pause(w) ==
  /\ worker[w].stage = "pausing"
  /\ Turn(w, "interrupting")
  /\ UNCHANGED <<phase, relay, watchdog, cut>>

\* Mutant: the blocking fetch goes on.
Interrupted_Left(row) == row.fetch

\* blockingConnection.disconnect(true); a claim that was sent is not recalled.
Interrupted(row) == IF row.fetch = "blocked" THEN "none" ELSE row.fetch

\* Pausing throws, or the fetch is interrupted.
Interrupt(w) ==
  /\ worker[w].stage = "interrupting"
  /\ \/ Set(w, [worker[w] EXCEPT !.stage = "closing", !.failed = TRUE])
     \/ Set(w, [worker[w] EXCEPT !.stage = "settling", !.fetch = Interrupted(worker[w]),
                                 !.racing = worker[w].fetch = "claiming"])
  /\ UNCHANGED <<phase, relay, watchdog, cut>>

\* setImmediate.
Yield(w) ==
  /\ worker[w].stage = "settling"
  /\ Turn(w, "draining")
  /\ UNCHANGED <<phase, relay, watchdog, cut>>

\* activeJobs is empty.
Settled(row) == row.active = {}

\* waitUntilJobsSettle resolves.
Drained(w) ==
  /\ worker[w].stage = "draining" /\ Settled(worker[w])
  /\ Turn(w, "closing")
  /\ UNCHANGED <<phase, relay, watchdog, cut>>

\* Mutant: nothing bounds the wait.
DrainDeadline_None(w) == FALSE

DrainDeadline(w) == worker[w].stage = "draining" /\ worker[w].active # {}

\* withTimeout gives up, and cancelAllJobs aborts what is active.
DrainGraceEnds(w) ==
  /\ DrainDeadline(w)
  /\ Set(w, [worker[w] EXCEPT !.stage = "closing", !.spent = TRUE])
  /\ UNCHANGED <<phase, relay, watchdog, cut>>

\* worker.close(true): BullMQ recovers what was still active.
CloseWorker(w) ==
  /\ worker[w].stage = "closing"
  /\ Set(w, [worker[w] EXCEPT !.stage = "closed", !.fetch = "none", !.active = {}])
  /\ cut' = cut \cup {<<w, j>> : j \in worker[w].active}
  /\ UNCHANGED <<phase, relay, watchdog>>

AllClosed == \A w \in Queues : worker[w].stage = "closed"

\* Promise.all over the workers.
WorkersClosed ==
  /\ phase = "workers" /\ AllClosed
  /\ phase' = "connection"
  /\ UNCHANGED <<relay, worker, watchdog, cut>>

-----------------------------------------------------------------------------
(* Connections, pool and exit.                                             *)

\* closeRedisGracefully on the workers' connection: QUIT is answered and the
\* socket ends, or the deadline passes and the connection is dropped.
CloseWorkerConnection ==
  /\ phase = "connection"
  /\ phase' = "modules"
  /\ UNCHANGED <<relay, worker, watchdog, cut>>

\* The relay's own onModuleDestroy calls stop() again.
StopAgain ==
  /\ phase = "modules"
  /\ stopped /\ ~timer /\ (~tick \/ exhausted)
  /\ phase' = "redis"
  /\ UNCHANGED <<relay, worker, watchdog, cut>>

\* RedisLifecycleService closes the shared connections, each within its
\* deadline; then beforeApplicationShutdown arms the watchdog.
CloseRedis ==
  /\ phase = "redis"
  /\ phase' = "pool"
  /\ watchdog' = TRUE
  /\ UNCHANGED <<relay, worker, cut>>

\* The DataSource is destroyed and onApplicationShutdown disarms the watchdog.
EndPool ==
  /\ phase = "pool"
  /\ phase' = "exited"
  /\ watchdog' = FALSE
  /\ UNCHANGED <<relay, worker, cut>>

\* process.exit(1).
ForceExit ==
  /\ phase = "pool" /\ watchdog
  /\ phase' = "exited"
  /\ watchdog' = FALSE
  /\ UNCHANGED <<relay, worker, cut>>

-----------------------------------------------------------------------------
\* With the outbox disabled the relay was never started.
ShutdownInit ==
  /\ phase = "up"
  /\ stopped \in BOOLEAN
  /\ timer = ~stopped
  /\ tick = FALSE /\ exhausted = FALSE /\ watchdog = FALSE
  /\ worker = [w \in Queues |-> Working]
  /\ cut = {}

\* What the process does on its own to come to an end.
Closing(w) ==
  \/ Pause(w) \/ Interrupt(w) \/ Yield(w) \/ Drained(w) \/ DrainGraceEnds(w) \/ CloseWorker(w)

GoOn ==
  \/ FinishRelay \/ RelayGraceEnds \/ WorkersClosed \/ CloseWorkerConnection
  \/ StopAgain \/ CloseRedis \/ ForceExit

ShutdownNext ==
  \/ FireTimer \/ EndTick \/ Signal \/ EndPool \/ GoOn
  \/ \E w \in Queues :
       \/ FetchJob(w) \/ Wake(w) \/ ClaimJob(w) \/ Closing(w)
       \/ \E j \in Jobs : FinishJob(w, j)

\* Nothing is asked of ticks, jobs, fetches or the pool: the deadlines pass.
ShutdownFairness ==
  /\ WF_shutdownVars(GoOn)
  /\ \A w \in Queues : WF_shutdownVars(Closing(w))

ShutdownSpec == ShutdownInit /\ [][ShutdownNext]_shutdownVars /\ ShutdownFairness

-----------------------------------------------------------------------------
(* Properties.                                                             *)

ShutdownTypeOK ==
  /\ phase \in Phases
  /\ stopped \in BOOLEAN /\ timer \in BOOLEAN /\ tick \in BOOLEAN
  /\ exhausted \in BOOLEAN /\ watchdog \in BOOLEAN
  /\ worker \in [Queues -> [stage : Stages, fetch : {"none", "blocked", "claiming"},
                            active : SUBSET Jobs, racing : BOOLEAN, spent : BOOLEAN,
                            failed : BOOLEAN]]
  /\ cut \subseteq Queues \X Jobs

\* "stop relay claims -> drain/close workers -> imported DB/Redis teardown":
\* no pass of the relay is left when the drain begins and no worker when the
\* connections go, unless the grace period was given in full; and a job that
\* is cut off had its grace too, but for a claim that was on its way when the
\* fetch was interrupted and for a pause that failed.
ShutdownSparesWork ==
  /\ phase \notin {"up", "relay"} => exhausted \/ ~tick
  /\ phase \in {"connection", "modules", "redis", "pool"} =>
       \A w \in Queues : worker[w].stage = "closed"
  /\ \A c \in cut : worker[c[1]].spent \/ worker[c[1]].failed \/ worker[c[1]].racing

\* "Shutdown must complete either way": a process that was told to stop is
\* gone in the end, whatever tick, job, Redis or pool hangs.
ShutdownEnds == phase = "relay" ~> phase = "exited"
=============================================================================
