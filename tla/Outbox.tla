------------------------------- MODULE Outbox -------------------------------
(***************************************************************************)
(* The transactional outbox: rows of job_outbox committed with a business  *)
(* change, relays that claim them and hand them to BullMQ, workers that    *)
(* run the job and acknowledge back in job_outbox, and everything that may *)
(* fail between any two of those steps: a process, Redis, an answer.       *)
(*                                                                         *)
(* Time is abstracted to what the claim predicate tells apart.  A row's    *)
(* lease is none (published_at NULL), held, or lapsed, and its available_at *)
(* is in the past or in the future; both pass on their own.                *)
(*                                                                         *)
(* The row is one lock-protected statement at a time; each SQL statement   *)
(* is one action, and so is each call to BullMQ.                           *)
(***************************************************************************)
EXTENDS Integers, FiniteSets

CONSTANTS
  Keys,          \* dedupe_key values
  Relays,        \* processes running OutboxRelay
  Workers,       \* slots of the BullMQ workers (concurrency, over processes)
  NoWorker, NoKey,
  MaxAttempts,   \* job_outbox.max_attempts
  BullAttempts,  \* DEFAULT_JOB_OPTIONS.attempts
  BatchSize,     \* OUTBOX_BATCH_SIZE
  MaxEffects,    \* bound: effects are counted up to this many
  MaxFlushes     \* bound: how often Redis loses its dataset

ASSUME OutboxAssumption ==
  /\ MaxAttempts \in Nat \ {0}
  /\ BullAttempts \in Nat \ {0}
  /\ BatchSize \in Nat \ {0}
  /\ MaxEffects \in Nat \ {0}
  /\ MaxFlushes \in Nat
  /\ NoWorker \notin Workers
  /\ NoKey \notin Keys

VARIABLES
  outbox,     \* job_outbox by dedupe_key
  batch,      \* what each relay has claimed and not yet published
  followUp,   \* the statement a relay owes after its last publish
  jobs,       \* the BullMQ queue: one job per jobId = dedupe_key
  handler,    \* the job each worker slot is running, and how far it is
  effects,    \* how often the effect of each action was applied
  flushes     \* how often Redis lost its data so far

vars == <<outbox, batch, followUp, jobs, handler, effects, flushes>>

NoRow == [present |-> FALSE, available |-> FALSE, lease |-> "none",
          attempts |-> 0, publishAttempts |-> 0, completed |-> FALSE,
          failed |-> FALSE, lastError |-> "none"]
Handed(job, state, owner) ==
  [state |-> state, attemptsMade |-> job.attemptsMade, owner |-> owner]
Job(state) == [state |-> state, attemptsMade |-> 0, owner |-> NoWorker]
NoJob == Job("none")
NoFollowUp == [kind |-> "none", key |-> NoKey]
Idle == [stage |-> "idle", key |-> NoKey]

\* Neither acknowledged nor given up.
Retirable(row) == row.present /\ ~row.completed /\ ~row.failed

-----------------------------------------------------------------------------
(* Producer.                                                               *)

\* enqueue() in the caller's transaction; a rolled back transaction, or a key
\* that exists (ON CONFLICT DO NOTHING), leaves no trace.
Enqueue(k, available) ==
  /\ ~outbox[k].present
  /\ outbox' = [outbox EXCEPT ![k] =
       [present |-> TRUE, available |-> available, lease |-> "none",
        attempts |-> 0, publishAttempts |-> 0, completed |-> FALSE,
        failed |-> FALSE, lastError |-> "none"]]
  /\ UNCHANGED <<batch, followUp, jobs, handler, effects, flushes>>

-----------------------------------------------------------------------------
(* OutboxRelay.                                                            *)

Claimable(k) ==
  /\ Retirable(outbox[k])
  /\ outbox[k].available
  /\ outbox[k].lease # "held"

Exhausted(row) == row.attempts + 1 > MaxAttempts

\* Mutant: the claim does not stamp published_at.
ClaimedRow_Unstamped(row) ==
  IF Exhausted(row)
  THEN [row EXCEPT !.attempts = @ + 1, !.failed = TRUE, !.lastError = "exhausted"]
  ELSE [row EXCEPT !.attempts = @ + 1, !.publishAttempts = @ + 1]

\* Mutant: attempts are left to the publisher to count.
ClaimedRow_Uncounted(row) ==
  IF Exhausted(row)
  THEN [row EXCEPT !.attempts = @ + 1, !.failed = TRUE, !.lastError = "exhausted"]
  ELSE [row EXCEPT !.lease = "held"]

\* The claim statement on one row: another attempt and a new lease, or dead.
ClaimedRow(row) ==
  IF Exhausted(row)
  THEN [row EXCEPT !.attempts = @ + 1, !.failed = TRUE, !.lastError = "exhausted"]
  ELSE [row EXCEPT !.attempts = @ + 1, !.publishAttempts = @ + 1, !.lease = "held"]

\* claimBatch: rows locked by another claim are skipped, so the batch is any
\* of the claimable ones.  Single flight: a pass starts when the last ended.
Claim(r, ks) ==
  /\ batch[r] = {} /\ followUp[r] = NoFollowUp
  /\ ks # {} /\ Cardinality(ks) <= BatchSize
  /\ \A k \in ks : Claimable(k)
  /\ outbox' = [k \in Keys |-> IF k \in ks THEN ClaimedRow(outbox[k]) ELSE outbox[k]]
  /\ batch' = [batch EXCEPT ![r] =
       {[key |-> k, hadError |-> outbox[k].lastError # "none"] :
          k \in {j \in ks : ~Exhausted(outbox[j])}}]
  /\ UNCHANGED <<followUp, jobs, handler, effects, flushes>>

\* BullMQ's queue.add: a jobId that exists, in whatever state, is not added
\* again; a finished job stays until its retention ends.
Added(k) ==
  IF jobs[k].state = "none"
  THEN [jobs EXCEPT ![k] = Job("waiting")]
  ELSE jobs

\* The next claimed row is handed to BullMQ.  An addJob that throws may have
\* reached Redis or not.
Publish(r, c) ==
  /\ c \in batch[r] /\ followUp[r] = NoFollowUp
  /\ batch' = [batch EXCEPT ![r] = @ \ {c}]
  /\ \/ /\ jobs' = Added(c.key)
        /\ followUp' = [followUp EXCEPT ![r] =
             IF c.hadError THEN [kind |-> "clear", key |-> c.key] ELSE NoFollowUp]
     \/ /\ jobs' \in {jobs, Added(c.key)}
        /\ followUp' = [followUp EXCEPT ![r] = [kind |-> "record", key |-> c.key]]
  /\ UNCHANGED <<outbox, handler, effects, flushes>>

\* recordPublishFailure: the error and a backoff, unless the row was retired
\* meanwhile.  The relay goes on when this statement fails too.
recordPublishFailure(r, k) ==
  /\ followUp[r] = [kind |-> "record", key |-> k]
  /\ \/ UNCHANGED outbox
     \/ /\ Retirable(outbox[k])
        /\ outbox' = [outbox EXCEPT ![k].lastError = "publish", ![k].available = FALSE]
  /\ followUp' = [followUp EXCEPT ![r] = NoFollowUp]
  /\ UNCHANGED <<batch, jobs, handler, effects, flushes>>

\* clearPublishError asks only that the row is not completed.
clearPublishError(r, k) ==
  /\ followUp[r] = [kind |-> "clear", key |-> k]
  /\ \/ UNCHANGED outbox
     \/ /\ ~outbox[k].completed
        /\ outbox' = [outbox EXCEPT ![k].lastError = "none"]
  /\ followUp' = [followUp EXCEPT ![r] = NoFollowUp]
  /\ UNCHANGED <<batch, jobs, handler, effects, flushes>>

\* The process dies, or shutdown stops waiting for the pass: claimed rows
\* stay claimed in PostgreSQL and nobody publishes them until the lease ends.
RelayCrash(r) ==
  /\ batch[r] # {} \/ followUp[r] # NoFollowUp
  /\ batch' = [batch EXCEPT ![r] = {}]
  /\ followUp' = [followUp EXCEPT ![r] = NoFollowUp]
  /\ UNCHANGED <<outbox, jobs, handler, effects, flushes>>

LeaseLapses(k) ==
  /\ outbox[k].lease = "held"
  /\ outbox' = [outbox EXCEPT ![k].lease = "lapsed"]
  /\ UNCHANGED <<batch, followUp, jobs, handler, effects, flushes>>

BecomesAvailable(k) ==
  /\ outbox[k].present /\ ~outbox[k].available
  /\ outbox' = [outbox EXCEPT ![k].available = TRUE]
  /\ UNCHANGED <<batch, followUp, jobs, handler, effects, flushes>>

-----------------------------------------------------------------------------
(* A worker slot: BullMQ hands it a job, the infra.echo processor runs.    *)

At(w, stage, k) == handler[w] = [stage |-> stage, key |-> k]

Fetch(w, k) ==
  /\ handler[w] = Idle
  /\ jobs[k].state = "waiting"
  /\ jobs' = [jobs EXCEPT ![k] = Handed(@, "active", w)]
  /\ handler' = [handler EXCEPT ![w] = [stage |-> "check", key |-> k]]
  /\ UNCHANGED <<outbox, batch, followUp, effects, flushes>>

Moves(w, k, stages) ==
  \E s \in stages : handler' = [handler EXCEPT ![w] = [stage |-> s, key |-> k]]

\* Mutant: the processor does not ask whether the row is completed.
CheckCompleted_Blind(w, k) ==
  /\ At(w, "check", k)
  /\ Moves(w, k, {"apply", "throw"})
  /\ UNCHANGED <<outbox, batch, followUp, jobs, effects, flushes>>

\* Mutant: the acknowledgement comes before the effect.
CheckCompleted_AckFirst(w, k) ==
  /\ At(w, "check", k)
  /\ Moves(w, k, {"ack", "throw"})
  /\ UNCHANGED <<outbox, batch, followUp, jobs, effects, flushes>>

\* SELECT completed_at; or the query fails and the job throws.
CheckCompleted(w, k) ==
  /\ At(w, "check", k)
  /\ Moves(w, k, {IF outbox[k].completed THEN "ack" ELSE "apply", "throw"})
  /\ UNCHANGED <<outbox, batch, followUp, jobs, effects, flushes>>

ApplyEffect(w, k) ==
  /\ At(w, "apply", k)
  /\ effects' = [effects EXCEPT ![k] = IF @ < MaxEffects THEN @ + 1 ELSE @]
  /\ Moves(w, k, {"ack"})
  /\ UNCHANGED <<outbox, batch, followUp, jobs, flushes>>

\* UPDATE ... SET completed_at WHERE completed_at IS NULL.  The schema's
\* CHECKs refuse it on a dead row or one that was never published; it may
\* fail, or be committed and its answer lost.
acknowledge(w, k) ==
  /\ At(w, "ack", k)
  /\ \/ /\ Moves(w, k, {"throw"})
        /\ UNCHANGED outbox
     \/ /\ outbox[k].completed
        /\ Moves(w, k, {"succeed"})
        /\ UNCHANGED outbox
     \/ /\ Retirable(outbox[k]) /\ outbox[k].lease # "none"
        /\ outbox' = [outbox EXCEPT ![k].completed = TRUE]
        /\ Moves(w, k, {"succeed", "throw"})
  /\ UNCHANGED <<batch, followUp, jobs, effects, flushes>>

\* BullMQ records the outcome, if the slot still owns the job.
Thrown(job) ==
  [state |-> IF job.attemptsMade + 1 < BullAttempts THEN "waiting" ELSE "failed",
   attemptsMade |-> job.attemptsMade + 1, owner |-> NoWorker]

Settle(w, k) ==
  /\ At(w, "succeed", k) \/ At(w, "throw", k)
  /\ jobs' =
       IF jobs[k].state # "active" \/ jobs[k].owner # w THEN jobs
       ELSE [jobs EXCEPT ![k] = IF At(w, "succeed", k)
                                THEN Handed(@, "completed", NoWorker) ELSE Thrown(@)]
  /\ handler' = [handler EXCEPT ![w] = Idle]
  /\ UNCHANGED <<outbox, batch, followUp, effects, flushes>>

WorkerCrash(w) ==
  /\ handler[w] # Idle
  /\ handler' = [handler EXCEPT ![w] = Idle]
  /\ jobs' = [k \in Keys |-> IF jobs[k].owner = w
                             THEN Handed(jobs[k], jobs[k].state, NoWorker) ELSE jobs[k]]
  /\ UNCHANGED <<outbox, batch, followUp, effects, flushes>>

\* The lock of an active job expires, its worker dead or merely slow: BullMQ
\* puts it back, or fails it when that happened too often.
Stall(k) ==
  /\ jobs[k].state = "active"
  /\ \E s \in {"waiting", "failed"} :
       jobs' = [jobs EXCEPT ![k] = Handed(@, s, NoWorker)]
  /\ UNCHANGED <<outbox, batch, followUp, handler, effects, flushes>>

\* removeOnComplete, removeOnFail.
RetentionEnds(k) ==
  /\ jobs[k].state \in {"completed", "failed"}
  /\ jobs' = [jobs EXCEPT ![k] = NoJob]
  /\ UNCHANGED <<outbox, batch, followUp, handler, effects, flushes>>

\* Redis loses its dataset.
RedisFlush ==
  /\ flushes < MaxFlushes
  /\ flushes' = flushes + 1
  /\ jobs' = [k \in Keys |-> NoJob]
  /\ UNCHANGED <<outbox, batch, followUp, handler, effects>>

-----------------------------------------------------------------------------
Init ==
  /\ outbox = [k \in Keys |-> NoRow]
  /\ batch = [r \in Relays |-> {}]
  /\ followUp = [r \in Relays |-> NoFollowUp]
  /\ jobs = [k \in Keys |-> NoJob]
  /\ handler = [w \in Workers |-> Idle]
  /\ effects = [k \in Keys |-> 0]
  /\ flushes = 0

RelayStep(r) ==
  \/ \E ks \in SUBSET Keys : Claim(r, ks)
  \/ \E c \in batch[r] : Publish(r, c)
  \/ \E k \in Keys : recordPublishFailure(r, k) \/ clearPublishError(r, k)

WorkerStep(w) ==
  \E k \in Keys :
    \/ Fetch(w, k) \/ CheckCompleted(w, k) \/ ApplyEffect(w, k)
    \/ acknowledge(w, k) \/ Settle(w, k)

Next ==
  \/ \E k \in Keys, a \in BOOLEAN : Enqueue(k, a)
  \/ \E r \in Relays : RelayStep(r) \/ RelayCrash(r)
  \/ \E w \in Workers : WorkerStep(w) \/ WorkerCrash(w)
  \/ \E k \in Keys : LeaseLapses(k) \/ BecomesAvailable(k) \/ Stall(k) \/ RetentionEnds(k)
  \/ RedisFlush

Spec == Init /\ [][Next]_vars

\* Relays poll for ever, a started pass goes on and time passes.  Nothing is
\* asked of the workers or of Redis.
RelayFairness ==
  /\ \A r \in Relays : WF_vars(RelayStep(r))
  /\ \A k \in Keys : WF_vars(LeaseLapses(k)) /\ WF_vars(BecomesAvailable(k))

LiveSpec == Spec /\ RelayFairness

\* The workers run as well.
FairSpec == LiveSpec /\ \A w \in Workers : WF_vars(WorkerStep(w))

-----------------------------------------------------------------------------
(* Properties.                                                             *)

\* The types of the rows, the queue and the processes.
Row == [present : BOOLEAN, available : BOOLEAN, lease : {"none", "held", "lapsed"},
        attempts : Nat, publishAttempts : Nat, completed : BOOLEAN,
        failed : BOOLEAN, lastError : {"none", "publish", "exhausted"}]

JobRow == [state : {"none", "waiting", "active", "completed", "failed"},
           attemptsMade : Nat, owner : Workers \cup {NoWorker}]

TypeOK ==
  /\ outbox \in [Keys -> Row]
  /\ batch \in [Relays -> SUBSET [key : Keys, hadError : BOOLEAN]]
  /\ followUp \in [Relays -> {NoFollowUp} \cup [kind : {"record", "clear"}, key : Keys]]
  /\ jobs \in [Keys -> JobRow]
  /\ handler \in [Workers -> {Idle} \cup
       [stage : {"check", "apply", "ack", "succeed", "throw"}, key : Keys]]
  /\ effects \in [Keys -> 0 .. MaxEffects]
  /\ flushes \in 0 .. MaxFlushes

\* "A separate, coarser counter measured in publish/re-drive cycles": a row
\* is dead exactly after MaxAttempts hand-overs and one claim more, and no
\* attempt is lost or counted twice by relays that crash or overlap.
AttemptsTellCycles ==
  \A k \in Keys :
    LET row == outbox[k]
    IN  /\ row.attempts = row.publishAttempts + (IF row.failed THEN 1 ELSE 0)
        /\ row.failed <=> row.publishAttempts = MaxAttempts /\ row.attempts > MaxAttempts
        /\ row.publishAttempts <= MaxAttempts
        /\ row.lease = "none" <=> row.publishAttempts = 0

\* "Work cannot be acknowledged before it was dispatched": whoever holds an
\* action, a relay, BullMQ or a worker, its row carries published_at, so the
\* schema's CHECK never refuses an acknowledgement for that reason.
InFlight(k) ==
  \/ \E r \in Relays : \E c \in batch[r] : c.key = k
  \/ jobs[k].state # "none"
  \/ \E w \in Workers : handler[w].key = k

InFlightWasDispatched == \A k \in Keys : InFlight(k) => outbox[k].lease # "none"

\* The rows account for everything the relays and workers hold.
RowsAccountForWork == TypeOK /\ AttemptsTellCycles /\ InFlightWasDispatched

\* completed_at is what makes redelivery safe: once the row is acknowledged
\* and nobody is past the check, no job for it, not even a fresh one after
\* Redis lost everything, gets to apply the effect again.
Applying(k) == \E w \in Workers : At(w, "apply", k)

RedeliveryIsSkipped ==
  [][\A k \in Keys : outbox[k].completed /\ ~Applying(k) => ~Applying(k)']_vars

\* The outbox keeps the promise of Delivery: the row is the state of the
\* action, and the effect counts as applied when it was at least once.
RowState(row) ==
  IF ~row.present THEN "absent"
  ELSE IF row.completed THEN "done"
  ELSE IF row.failed THEN "dead" ELSE "committed"

D == INSTANCE Delivery WITH
       state   <- [k \in Keys |-> RowState(outbox[k])],
       applied <- {k \in Keys : effects[k] > 0}

\* Every step of the outbox is a step of Delivery or none.
DeliverySafety == D!DSafety

\* Every committed row is completed or surfaced as dead, with no help from
\* workers or Redis: "never silently dropped".
EveryRowIsRetired == D!DLiveness

\* The infra.echo processor: "the effect runs at most once no matter how many
\* times the job itself runs".
EffectAtMostOnce == \A k \in Keys : effects[k] <= 1

\* queue.constants: "BullMQ exhausting its attempts is NOT the end of the
\* story": a job BullMQ gave up is run again by a later re-drive, unless its
\* row is completed after all.
FailedJobRunsAgain ==
  \A k \in Keys :
    jobs[k].state = "failed" ~> outbox[k].completed \/ \E w \in Workers : handler[w].key = k
=============================================================================
