---------------------------- MODULE OutboxProofs ----------------------------
(***************************************************************************)
(* Outbox implements the safety part of Delivery, for any number of rows,  *)
(* relays and workers, any attempt limits and any number of Redis losses.  *)
(***************************************************************************)
EXTENDS Outbox, TLAPS

USE OutboxAssumption

\* Helpers every action of the module is written with.
USE DEF NoRow, Job, NoJob, NoFollowUp, Idle, Handed, Retirable, At, Moves

\* Who holds an action knows it from a committed row.
InFlightIsPresent ==
  /\ \A r \in Relays : \A c \in batch[r] : outbox[c.key].present
  /\ \A k \in Keys : jobs[k].state # "none" => outbox[k].present
  /\ \A w \in Workers : handler[w].stage # "idle" =>
       handler[w].key \in Keys /\ outbox[handler[w].key].present

\* A handler that is about to acknowledge, and an acknowledged row, have the
\* effect behind them.
AppliedBeforeAck ==
  /\ \A w \in Workers : handler[w].stage = "ack" => effects[handler[w].key] > 0
  /\ \A k \in Keys : outbox[k].completed => effects[k] > 0

RowsAreSane ==
  \A k \in Keys : /\ outbox[k].completed => outbox[k].present /\ ~outbox[k].failed
                  /\ outbox[k].failed => outbox[k].present

\* The inductive invariant beyond the types.
Grounded == InFlightIsPresent /\ AppliedBeforeAck /\ RowsAreSane

\* The claim statement keeps the type of a row.
LEMMA ClaimedRowIsTyped == ASSUME NEW row \in Row PROVE ClaimedRow(row) \in Row
<1> USE DEF Row
<1>. row.attempts + 1 \in Nat /\ row.publishAttempts + 1 \in Nat
  OBVIOUS
<1>1. CASE Exhausted(row)
  BY <1>1, Zenon DEF ClaimedRow
<1>2. CASE ~Exhausted(row)
  BY <1>2, Zenon DEF ClaimedRow
<1> QED BY <1>1, <1>2

\* What the other statements make of the table, one row each; all but the
\* acknowledgement leave alone whether the row is retired.
QuietUpdates(rows, k) ==
  {[rows EXCEPT ![k].lease = "lapsed"], [rows EXCEPT ![k].available = TRUE],
   [rows EXCEPT ![k].lastError = "none"],
   [rows EXCEPT ![k].lastError = "publish", ![k].available = FALSE]}
RowUpdates(rows, k) == QuietUpdates(rows, k) \cup {[rows EXCEPT ![k].completed = TRUE]}

\* They keep its type.
LEMMA RowUpdatesAreTyped ==
  ASSUME NEW rows \in [Keys -> Row], NEW k \in Keys
  PROVE  RowUpdates(rows, k) \subseteq [Keys -> Row]
<1>1. [rows EXCEPT ![k].lease = "lapsed"] \in [Keys -> Row]
  <2>1. [rows[k] EXCEPT !.lease = "lapsed"] \in Row
    BY Zenon DEF Row
  <2> QED BY <2>1, Zenon
<1>2. [rows EXCEPT ![k].available = TRUE] \in [Keys -> Row]
  <2>1. [rows[k] EXCEPT !.available = TRUE] \in Row
    BY Zenon DEF Row
  <2> QED BY <2>1, Zenon
<1>3. [rows EXCEPT ![k].completed = TRUE] \in [Keys -> Row]
  <2>1. [rows[k] EXCEPT !.completed = TRUE] \in Row
    BY Zenon DEF Row
  <2> QED BY <2>1, Zenon
<1>4. [rows EXCEPT ![k].lastError = "none"] \in [Keys -> Row]
  <2>1. [rows[k] EXCEPT !.lastError = "none"] \in Row
    BY Zenon DEF Row
  <2> QED BY <2>1, Zenon
<1>5. [rows EXCEPT ![k].lastError = "publish", ![k].available = FALSE] \in [Keys -> Row]
  <2>1. [rows[k] EXCEPT !.lastError = "publish", !.available = FALSE] \in Row
    BY Zenon DEF Row
  <2> QED BY <2>1, Zenon
<1> QED BY <1>1, <1>2, <1>3, <1>4, <1>5, Zenon DEF RowUpdates, QuietUpdates

\* Every step of the outbox keeps the types.
LEMMA OutboxTypedNext == TypeOK /\ [Next]_vars => TypeOK'
<1> SUFFICES ASSUME TypeOK, [Next]_vars PROVE TypeOK'
  OBVIOUS
<1> USE DEF TypeOK
<1>1. ASSUME NEW k \in Keys, NEW a \in BOOLEAN, Enqueue(k, a) PROVE TypeOK'
  BY <1>1 DEF Enqueue, Row
<1>2. ASSUME NEW r \in Relays, NEW ks \in SUBSET Keys, Claim(r, ks) PROVE TypeOK'
  <2>1. outbox' \in [Keys -> Row]
    BY <1>2, ClaimedRowIsTyped DEF Claim
  <2>2. batch' \in [Relays -> SUBSET [key : Keys, hadError : BOOLEAN]]
    <3> DEFINE claim(k) == [key |-> k, hadError |-> outbox[k].lastError # "none"]
    <3>1. \A k \in Keys : claim(k) \in [key : Keys, hadError : BOOLEAN]
      OBVIOUS
    <3> HIDE DEF claim
    <3>2. batch' = [batch EXCEPT ![r] = {claim(k) : k \in {j \in ks : ~Exhausted(outbox[j])}}]
      BY <1>2, Zenon DEF Claim, claim
    <3>3. {claim(k) : k \in {j \in ks : ~Exhausted(outbox[j])}}
            \subseteq [key : Keys, hadError : BOOLEAN]
      BY <3>1
    <3> QED BY <3>2, <3>3
  <2> QED BY <1>2, <2>1, <2>2 DEF Claim
<1>3. ASSUME NEW r \in Relays, NEW c \in batch[r], Publish(r, c) PROVE TypeOK'
  <2>1. c.key \in Keys
    OBVIOUS
  <2>2. Job("waiting") \in JobRow
    BY DEF JobRow
  <2> HIDE DEF Job
  <2>3. jobs' \in {jobs, [jobs EXCEPT ![c.key] = Job("waiting")]}
    BY <1>3, Zenon DEF Publish, Added
  <2>4. \E f \in {NoFollowUp, [kind |-> "clear", key |-> c.key],
                   [kind |-> "record", key |-> c.key]} :
          followUp' = [followUp EXCEPT ![r] = f]
    <3>1. CASE c.hadError
      BY <1>3, <3>1, Zenon DEF Publish
    <3>2. CASE ~c.hadError
      BY <1>3, <3>2, Zenon DEF Publish
    <3> QED BY <3>1, <3>2
  <2>5. followUp' \in [Relays -> {NoFollowUp} \cup [kind : {"record", "clear"}, key : Keys]]
    BY <2>1, <2>4
  <2>6. batch' \in [Relays -> SUBSET [key : Keys, hadError : BOOLEAN]]
    BY <1>3 DEF Publish
  <2>7. UNCHANGED <<outbox, handler, effects, flushes>>
    BY <1>3 DEF Publish
  <2> QED BY <2>1, <2>2, <2>3, <2>5, <2>6, <2>7
<1>4. ASSUME NEW r \in Relays, NEW k \in Keys, recordPublishFailure(r, k) PROVE TypeOK'
  <2>1. outbox' \in [Keys -> Row]
    <3>1. outbox' \in {outbox} \cup RowUpdates(outbox, k)
      BY <1>4, Zenon DEF recordPublishFailure, RowUpdates, QuietUpdates
    <3> QED BY <3>1, RowUpdatesAreTyped
  <2>2. /\ followUp' = [followUp EXCEPT ![r] = NoFollowUp]
        /\ UNCHANGED <<batch, jobs, handler, effects, flushes>>
    BY <1>4, Zenon DEF recordPublishFailure
  <2> QED BY <2>1, <2>2
<1>5. ASSUME NEW r \in Relays, NEW k \in Keys, clearPublishError(r, k) PROVE TypeOK'
  <2>1. outbox' \in [Keys -> Row]
    <3>1. outbox' \in {outbox} \cup RowUpdates(outbox, k)
      BY <1>5, Zenon DEF clearPublishError, RowUpdates, QuietUpdates
    <3> QED BY <3>1, RowUpdatesAreTyped
  <2>2. /\ followUp' = [followUp EXCEPT ![r] = NoFollowUp]
        /\ UNCHANGED <<batch, jobs, handler, effects, flushes>>
    BY <1>5, Zenon DEF clearPublishError
  <2> QED BY <2>1, <2>2
<1>6. ASSUME NEW r \in Relays, RelayCrash(r) PROVE TypeOK'
  BY <1>6 DEF RelayCrash
<1>7. ASSUME NEW w \in Workers, NEW k \in Keys, Fetch(w, k) PROVE TypeOK'
  BY <1>7 DEF Fetch, JobRow
<1>8. ASSUME NEW w \in Workers, NEW k \in Keys, CheckCompleted(w, k) PROVE TypeOK'
  BY <1>8 DEF CheckCompleted
<1>9. ASSUME NEW w \in Workers, NEW k \in Keys, ApplyEffect(w, k) PROVE TypeOK'
  BY <1>9 DEF ApplyEffect
<1>10. ASSUME NEW w \in Workers, NEW k \in Keys, acknowledge(w, k) PROVE TypeOK'
  <2>1. outbox' \in [Keys -> Row]
    <3>1. outbox' \in {outbox} \cup RowUpdates(outbox, k)
      BY <1>10, Zenon DEF acknowledge, RowUpdates, QuietUpdates
    <3> QED BY <3>1, RowUpdatesAreTyped
  <2>2. \E s \in {"throw", "succeed"} :
          handler' = [handler EXCEPT ![w] = [stage |-> s, key |-> k]]
    BY <1>10, Zenon DEF acknowledge
  <2>3. UNCHANGED <<batch, followUp, jobs, effects, flushes>>
    BY <1>10, Zenon DEF acknowledge
  <2> QED BY <2>1, <2>2, <2>3
<1>11. ASSUME NEW w \in Workers, NEW k \in Keys, Settle(w, k) PROVE TypeOK'
  <2>1. Thrown(jobs[k]) \in JobRow /\ Handed(jobs[k], "completed", NoWorker) \in JobRow
    BY DEF Thrown, JobRow
  <2>2. \/ jobs' = jobs
        \/ jobs' = [jobs EXCEPT ![k] = IF At(w, "succeed", k)
                                       THEN Handed(jobs[k], "completed", NoWorker)
                                       ELSE Thrown(jobs[k])]
    BY <1>11, Zenon DEF Settle
  <2> HIDE DEF Handed
  <2>3. jobs' \in [Keys -> JobRow]
    BY <2>1, <2>2
  <2> QED BY <1>11, <2>3 DEF Settle
<1>12. ASSUME NEW w \in Workers, WorkerCrash(w) PROVE TypeOK'
  BY <1>12 DEF WorkerCrash, JobRow
<1>13. ASSUME NEW k \in Keys, LeaseLapses(k) \/ BecomesAvailable(k) PROVE TypeOK'
  <2>1. outbox' \in [Keys -> Row]
    <3>1. outbox' \in {outbox} \cup RowUpdates(outbox, k)
      BY <1>13, Zenon DEF LeaseLapses, BecomesAvailable, RowUpdates, QuietUpdates
    <3> QED BY <3>1, RowUpdatesAreTyped
  <2>2. UNCHANGED <<batch, followUp, jobs, handler, effects, flushes>>
    BY <1>13, Zenon DEF LeaseLapses, BecomesAvailable
  <2> QED BY <2>1, <2>2
<1>14. ASSUME NEW k \in Keys, Stall(k) \/ RetentionEnds(k) PROVE TypeOK'
  <2>1. CASE Stall(k)
    BY <2>1 DEF Stall, JobRow
  <2>2. CASE RetentionEnds(k)
    BY <2>2 DEF RetentionEnds, JobRow
  <2> QED BY <1>14, <2>1, <2>2
<1>15. CASE RedisFlush
  BY <1>15 DEF RedisFlush, JobRow
<1>16. CASE UNCHANGED vars
  BY <1>16 DEF vars
<1> QED
  BY <1>1, <1>2, <1>3, <1>4, <1>5, <1>6, <1>7, <1>8, <1>9, <1>10, <1>11, <1>12,
     <1>13, <1>14, <1>15, <1>16 DEF Next, RelayStep, WorkerStep

\* Initially nothing is in flight.
LEMMA OutboxInitInv == Init => TypeOK /\ Grounded
  BY DEF Init, Grounded, TypeOK, InFlightIsPresent, AppliedBeforeAck, RowsAreSane, Row, JobRow

\* The statements that do not complete a row leave its standing alone.
Standing(row) == <<row.present, row.completed, row.failed>>

\* Standing of a claimed row: it is retired as dead or not at all.
LEMMA ClaimedRowStands ==
  ASSUME NEW row \in Row
  PROVE  /\ ClaimedRow(row).present = row.present
         /\ ClaimedRow(row).completed = row.completed
         /\ ClaimedRow(row).failed \in {row.failed, TRUE}
<1>1. CASE Exhausted(row)
  <2> DEFINE new == [row EXCEPT !.attempts = @ + 1, !.failed = TRUE, !.lastError = "exhausted"]
  <2>1. new.present = row.present /\ new.completed = row.completed /\ new.failed = TRUE
    BY Zenon DEF Row
  <2> QED BY <1>1, <2>1, Zenon DEF ClaimedRow
<1>2. CASE ~Exhausted(row)
  <2> DEFINE new == [row EXCEPT !.attempts = @ + 1, !.publishAttempts = @ + 1, !.lease = "held"]
  <2>1. /\ new.present = row.present /\ new.completed = row.completed
        /\ new.failed = row.failed
    BY Zenon DEF Row
  <2> QED BY <1>2, <2>1, Zenon DEF ClaimedRow
<1> QED BY <1>1, <1>2

\* The claim fails a row exactly when its attempts are used up.
LEMMA ClaimedRowFails ==
  ASSUME NEW row \in Row
  PROVE  /\ Exhausted(row) => ClaimedRow(row).failed = TRUE
         /\ ~Exhausted(row) => ClaimedRow(row).failed = row.failed
<1>1. CASE Exhausted(row)
  <2> DEFINE new == [row EXCEPT !.attempts = @ + 1, !.failed = TRUE, !.lastError = "exhausted"]
  <2>1. new.failed = TRUE
    BY Zenon DEF Row
  <2> QED BY <1>1, <2>1, Zenon DEF ClaimedRow
<1>2. CASE ~Exhausted(row)
  <2> DEFINE new == [row EXCEPT !.attempts = @ + 1, !.publishAttempts = @ + 1, !.lease = "held"]
  <2>1. new.failed = row.failed
    BY Zenon DEF Row
  <2> QED BY <1>2, <2>1, Zenon DEF ClaimedRow
<1> QED BY <1>1, <1>2

\* Lease, availability and error updates leave every row's standing alone.
LEMMA QuietUpdatesStand ==
  ASSUME NEW rows \in [Keys -> Row], NEW k \in Keys,
         NEW new \in QuietUpdates(rows, k),
         NEW j \in Keys
  PROVE  Standing(new[j]) = Standing(rows[j])
<1> USE DEF Standing, Row
<1>1. CASE new = [rows EXCEPT ![k].lease = "lapsed"]
  BY <1>1, Zenon
<1>2. CASE new = [rows EXCEPT ![k].available = TRUE]
  BY <1>2, Zenon
<1>3. CASE new = [rows EXCEPT ![k].lastError = "none"]
  BY <1>3, Zenon
<1>4. CASE new = [rows EXCEPT ![k].lastError = "publish", ![k].available = FALSE]
  BY <1>4, Zenon
<1> QED BY <1>1, <1>2, <1>3, <1>4, Zenon DEF RowUpdates, QuietUpdates

Acknowledged(rows, k) == [rows EXCEPT ![k].completed = TRUE]

\* The acknowledgement completes its row and changes nothing else.
LEMMA AcknowledgedStands ==
  ASSUME NEW rows \in [Keys -> Row], NEW k \in Keys
  PROVE  /\ Acknowledged(rows, k)[k].present = rows[k].present
         /\ Acknowledged(rows, k)[k].failed = rows[k].failed
         /\ Acknowledged(rows, k)[k].completed = TRUE
         /\ \A j \in Keys : j # k => Acknowledged(rows, k)[j] = rows[j]
  BY Zenon DEF Acknowledged, Row

\* Every step keeps it: whoever holds an action has a committed row behind
\* it, and nobody acknowledges what was not applied.
LEMMA GroundedNext == TypeOK /\ Grounded /\ [Next]_vars => Grounded'
<1> SUFFICES ASSUME TypeOK, Grounded, [Next]_vars PROVE Grounded'
  OBVIOUS
<1> USE DEF TypeOK, Grounded, InFlightIsPresent, AppliedBeforeAck, RowsAreSane
<1> DEFINE Stands == \A j \in Keys : Standing(outbox'[j]) = Standing(outbox[j])
<1>1. ASSUME NEW k \in Keys, NEW a \in BOOLEAN, Enqueue(k, a) PROVE Grounded'
  <2>1. \A j \in Keys : \/ outbox'[j] = outbox[j]
                        \/ j = k /\ outbox'[j].present /\ ~outbox'[j].completed /\ ~outbox'[j].failed
    BY <1>1 DEF Enqueue
  <2>2. UNCHANGED <<batch, jobs, handler, effects>>
    BY <1>1 DEF Enqueue
  <2> QED BY <2>1, <2>2
<1>2. ASSUME NEW r \in Relays, NEW ks \in SUBSET Keys, Claim(r, ks) PROVE Grounded'
  <2>1. \A j \in Keys : /\ outbox'[j].present = outbox[j].present
                        /\ outbox'[j].completed = outbox[j].completed
                        /\ \/ outbox'[j].failed = outbox[j].failed
                           \/ outbox[j].present /\ ~outbox[j].completed
    <3> SUFFICES ASSUME NEW j \in Keys
                 PROVE  /\ outbox'[j].present = outbox[j].present
                        /\ outbox'[j].completed = outbox[j].completed
                        /\ \/ outbox'[j].failed = outbox[j].failed
                           \/ outbox[j].present /\ ~outbox[j].completed
      OBVIOUS
    <3>1. CASE j \in ks
      <4>1. outbox'[j] = ClaimedRow(outbox[j])
        BY <1>2, <3>1, Zenon DEF Claim
      <4>2. outbox[j].present /\ ~outbox[j].completed
        BY <1>2, <3>1, Zenon DEF Claim, Claimable
      <4> QED BY <4>1, <4>2, ClaimedRowStands
    <3>2. CASE j \notin ks
      BY <1>2, <3>2, Zenon DEF Claim
    <3> QED BY <3>1, <3>2
  <2>2. \A c \in batch'[r] : outbox[c.key].present
    BY <1>2 DEF Claim, Claimable
  <2>3. \A s \in Relays \ {r} : batch'[s] = batch[s]
    BY <1>2, Zenon DEF Claim
  <2>4. UNCHANGED <<jobs, handler, effects>>
    BY <1>2, Zenon DEF Claim
  <2>5. \A s \in Relays : \A c \in batch'[s] : c.key \in Keys
    BY <1>2, OutboxTypedNext
  <2>6. \A s \in Relays : \A c \in batch'[s] : outbox'[c.key].present
    BY <2>1, <2>2, <2>3, <2>5
  <2> QED BY <2>1, <2>4, <2>6
<1>3. ASSUME NEW r \in Relays, NEW c \in batch[r], Publish(r, c) PROVE Grounded'
  <2>1. c.key \in Keys /\ outbox[c.key].present
    OBVIOUS
  <2>2. jobs' \in {jobs, [jobs EXCEPT ![c.key] = Job("waiting")]}
    BY <1>3, Zenon DEF Publish, Added
  <2>3. \A k \in Keys : jobs'[k].state # "none" => outbox[k].present
    BY <2>1, <2>2
  <2>4. \A s \in Relays : batch'[s] \subseteq batch[s]
    BY <1>3 DEF Publish
  <2>5. UNCHANGED <<outbox, handler, effects>>
    BY <1>3 DEF Publish
  <2> QED BY <2>3, <2>4, <2>5
<1>4. ASSUME NEW r \in Relays, NEW k \in Keys,
             recordPublishFailure(r, k) \/ clearPublishError(r, k)
      PROVE  Grounded'
  <2>1. outbox' \in {outbox} \cup QuietUpdates(outbox, k)
    BY <1>4, Zenon DEF recordPublishFailure, clearPublishError, QuietUpdates
  <2>2. UNCHANGED <<batch, jobs, handler, effects>>
    BY <1>4, Zenon DEF recordPublishFailure, clearPublishError
  <2>3. Stands
    BY <2>1, QuietUpdatesStand
  <2> QED BY <2>2, <2>3 DEF Standing
<1>5. ASSUME NEW k \in Keys, LeaseLapses(k) \/ BecomesAvailable(k) PROVE Grounded'
  <2>1. outbox' \in QuietUpdates(outbox, k)
    BY <1>5, Zenon DEF LeaseLapses, BecomesAvailable, QuietUpdates
  <2>2. UNCHANGED <<batch, jobs, handler, effects>>
    BY <1>5, Zenon DEF LeaseLapses, BecomesAvailable
  <2>3. Stands
    BY <2>1, QuietUpdatesStand
  <2> QED BY <2>2, <2>3 DEF Standing
<1>6. ASSUME NEW r \in Relays, RelayCrash(r) PROVE Grounded'
  BY <1>6 DEF RelayCrash
<1>7. ASSUME NEW w \in Workers, NEW k \in Keys, Fetch(w, k) PROVE Grounded'
  BY <1>7 DEF Fetch
<1>8. ASSUME NEW w \in Workers, NEW k \in Keys, CheckCompleted(w, k) PROVE Grounded'
  <2>1. \E s \in {IF outbox[k].completed THEN "ack" ELSE "apply", "throw"} :
          handler' = [handler EXCEPT ![w] = [stage |-> s, key |-> k]]
    BY <1>8, Zenon DEF CheckCompleted
  <2>2. UNCHANGED <<outbox, batch, jobs, effects>>
    BY <1>8, Zenon DEF CheckCompleted
  <2>3. outbox[k].present
    BY <1>8 DEF CheckCompleted
  <2> QED BY <2>1, <2>2, <2>3
<1>9. ASSUME NEW w \in Workers, NEW k \in Keys, ApplyEffect(w, k) PROVE Grounded'
  <2>1. handler' = [handler EXCEPT ![w] = [stage |-> "ack", key |-> k]]
    BY <1>9 DEF ApplyEffect
  <2>2. UNCHANGED <<outbox, batch, jobs>>
    BY <1>9, Zenon DEF ApplyEffect
  <2>3. outbox[k].present
    BY <1>9 DEF ApplyEffect
  <2>4. effects'[k] > 0 /\ \A j \in Keys : effects[j] > 0 => effects'[j] > 0
    BY <1>9 DEF ApplyEffect
  <2> QED BY <2>1, <2>2, <2>3, <2>4
<1>10. ASSUME NEW w \in Workers, NEW k \in Keys, acknowledge(w, k) PROVE Grounded'
  <2>1. \E s \in {"throw", "succeed"} :
          handler' = [handler EXCEPT ![w] = [stage |-> s, key |-> k]]
    BY <1>10, Zenon DEF acknowledge
  <2>2. UNCHANGED <<batch, jobs, effects>>
    BY <1>10, Zenon DEF acknowledge
  <2>6. handler[w] = [stage |-> "ack", key |-> k]
    BY <1>10, Zenon DEF acknowledge
  <2>3. outbox[k].present /\ effects[k] > 0
    BY <2>6
  <2>4. \/ outbox' = outbox
        \/ outbox' = Acknowledged(outbox, k) /\ ~outbox[k].failed
    <3> HIDE DEF Moves
    <3> QED BY <1>10, Zenon DEF acknowledge, Acknowledged
  <2>5. \A j \in Keys : \/ outbox'[j] = outbox[j]
                        \/ /\ j = k /\ ~outbox[k].failed
                           /\ outbox'[j].present = outbox[j].present
                           /\ outbox'[j].failed = outbox[j].failed
    <3>1. CASE outbox' = outbox
      BY <3>1
    <3>2. CASE outbox' = Acknowledged(outbox, k) /\ ~outbox[k].failed
      <4>1. /\ outbox'[k].present = outbox[k].present
            /\ outbox'[k].failed = outbox[k].failed
        BY <3>2, AcknowledgedStands, Zenon
      <4>2. ASSUME NEW j \in Keys, j # k PROVE outbox'[j] = outbox[j]
        BY <3>2, <4>2, Zenon DEF Acknowledged
      <4> QED BY <3>2, <4>1, <4>2
    <3> QED BY <2>4, <3>1, <3>2
  <2> QED BY <2>1, <2>2, <2>3, <2>5
<1>11. ASSUME NEW w \in Workers, NEW k \in Keys, Settle(w, k) PROVE Grounded'
  <2>1. outbox[k].present
    BY <1>11 DEF Settle
  <2>2. jobs' \in {jobs, [jobs EXCEPT ![k] = jobs'[k]]}
    BY <1>11, Zenon DEF Settle
  <2>3. \A j \in Keys : jobs'[j].state # "none" => outbox[j].present
    BY <2>1, <2>2
  <2>4. handler' = [handler EXCEPT ![w] = Idle] /\ UNCHANGED <<outbox, batch, effects>>
    BY <1>11, Zenon DEF Settle
  <2> QED BY <2>3, <2>4
<1>12. ASSUME NEW w \in Workers, WorkerCrash(w) PROVE Grounded'
  <2>1. \A j \in Keys : jobs'[j].state = jobs[j].state
    BY <1>12 DEF WorkerCrash
  <2>2. handler' = [handler EXCEPT ![w] = Idle] /\ UNCHANGED <<outbox, batch, effects>>
    BY <1>12, Zenon DEF WorkerCrash
  <2> QED BY <2>1, <2>2
<1>13. ASSUME NEW k \in Keys, Stall(k) PROVE Grounded'
  BY <1>13 DEF Stall
<1>14. ASSUME NEW k \in Keys, RetentionEnds(k) PROVE Grounded'
  BY <1>14 DEF RetentionEnds
<1>15. CASE RedisFlush
  BY <1>15 DEF RedisFlush
<1>16. CASE UNCHANGED vars
  BY <1>16 DEF vars
<1> QED
  BY <1>1, <1>2, <1>3, <1>4, <1>5, <1>6, <1>7, <1>8, <1>9, <1>10, <1>11, <1>12,
     <1>13, <1>14, <1>15, <1>16 DEF Next, RelayStep, WorkerStep

\* The abstract state, as the refinement mapping has it.
AbsState == [k \in Keys |-> RowState(outbox[k])]
AbsApplied == {k \in Keys : effects[k] > 0}

\* A step that leaves every row's standing and every effect alone stutters.
LEMMA QuietStepStutters ==
  ASSUME \A j \in Keys : Standing(outbox'[j]) = Standing(outbox[j]), effects' = effects
  PROVE  UNCHANGED <<AbsState, AbsApplied>>
  BY DEF AbsState, AbsApplied, Standing, RowState

\* Every step of the outbox is a step of Delivery or a stutter.
LEMMA OutboxStepRefines ==
  TypeOK /\ Grounded /\ [Next]_vars => [D!DNext]_(D!dvars)
<1> SUFFICES ASSUME TypeOK, Grounded, [Next]_vars PROVE [D!DNext]_(D!dvars)
  OBVIOUS
<1> USE DEF TypeOK, Grounded, InFlightIsPresent, AppliedBeforeAck, RowsAreSane
<1> DEFINE Quiet == UNCHANGED <<AbsState, AbsApplied>>
           Stands == \A j \in Keys : Standing(outbox'[j]) = Standing(outbox[j])
<1>0. ASSUME Quiet PROVE [D!DNext]_(D!dvars)
  BY <1>0 DEF D!dvars, AbsState, AbsApplied
<1>1. ASSUME NEW k \in Keys, NEW a \in BOOLEAN, Enqueue(k, a) PROVE D!Commit(k)
  <2>1. AbsState[k] = "absent"
    BY <1>1 DEF Enqueue, AbsState, RowState
  <2>2. RowState(outbox'[k]) = "committed"
    BY <1>1 DEF Enqueue, RowState
  <2>3. \A j \in Keys : j # k => outbox'[j] = outbox[j]
    BY <1>1 DEF Enqueue
  <2>4. AbsState' = [AbsState EXCEPT ![k] = "committed"]
    BY <2>2, <2>3 DEF AbsState
  <2>5. AbsApplied' = AbsApplied
    BY <1>1, Zenon DEF Enqueue, AbsApplied
  <2> QED BY <2>1, <2>4, <2>5, Zenon DEF D!Commit, AbsState, AbsApplied
<1>2. ASSUME NEW r \in Relays, NEW ks \in SUBSET Keys, Claim(r, ks)
      PROVE  \E dead \in SUBSET Keys : D!GiveUpMany(dead)
  <2> DEFINE dead == {k \in ks : Exhausted(outbox[k])}
  <2>1. \A k \in ks : outbox[k].present /\ ~outbox[k].completed /\ ~outbox[k].failed
    BY <1>2, Zenon DEF Claim, Claimable
  <2>2. \A k \in dead : AbsState[k] = "committed"
    BY <2>1 DEF AbsState, RowState
  <2>3. \A k \in Keys : outbox'[k] = IF k \in ks THEN ClaimedRow(outbox[k]) ELSE outbox[k]
    BY <1>2, Zenon DEF Claim
  <2>4. ASSUME NEW k \in Keys
        PROVE  RowState(outbox'[k]) = IF k \in dead THEN "dead" ELSE RowState(outbox[k])
    <3>1. CASE k \in dead
      <4>1. ClaimedRow(outbox[k]).failed
        BY <3>1, ClaimedRowFails
      <4> QED BY <2>1, <2>3, <3>1, <4>1, ClaimedRowStands DEF RowState
    <3>2. CASE k \in ks \ dead
      <4>1. ClaimedRow(outbox[k]).failed = outbox[k].failed
        BY <3>2, ClaimedRowFails
      <4> QED BY <2>1, <2>3, <3>2, <4>1, ClaimedRowStands DEF RowState
    <3>3. CASE k \notin ks
      BY <2>3, <3>3
    <3> QED BY <3>1, <3>2, <3>3
  <2> HIDE DEF dead
  <2>5. AbsState' = [k \in Keys |-> IF k \in dead THEN "dead" ELSE AbsState[k]]
    BY <2>4 DEF AbsState
  <2>6. AbsApplied' = AbsApplied
    BY <1>2, Zenon DEF Claim, AbsApplied
  <2>7. dead \in SUBSET Keys
    BY DEF dead
  <2> QED BY <2>2, <2>5, <2>6, <2>7, Zenon DEF D!GiveUpMany, AbsState, AbsApplied
<1>3. ASSUME NEW r \in Relays, NEW c \in batch[r], Publish(r, c) PROVE Quiet
  BY <1>3, Zenon DEF Publish, AbsState, AbsApplied
<1>4. ASSUME NEW r \in Relays, NEW k \in Keys,
             recordPublishFailure(r, k) \/ clearPublishError(r, k)
      PROVE  Quiet
  <2>1. outbox' \in {outbox} \cup QuietUpdates(outbox, k)
    BY <1>4, Zenon DEF recordPublishFailure, clearPublishError, QuietUpdates
  <2>2. effects' = effects
    BY <1>4, Zenon DEF recordPublishFailure, clearPublishError
  <2>3. Stands
    BY <2>1, QuietUpdatesStand
  <2> QED BY <2>2, <2>3, QuietStepStutters
<1>5. ASSUME NEW k \in Keys, LeaseLapses(k) \/ BecomesAvailable(k) PROVE Quiet
  <2>1. outbox' \in QuietUpdates(outbox, k)
    BY <1>5, Zenon DEF LeaseLapses, BecomesAvailable, QuietUpdates
  <2>2. effects' = effects
    BY <1>5, Zenon DEF LeaseLapses, BecomesAvailable
  <2>3. Stands
    BY <2>1, QuietUpdatesStand
  <2> QED BY <2>2, <2>3, QuietStepStutters
<1>6. ASSUME NEW w \in Workers, NEW k \in Keys, ApplyEffect(w, k) PROVE D!ApplyEffect(k)
  <2>1. AbsState[k] # "absent"
    BY <1>6 DEF ApplyEffect, AbsState, RowState
  <2>2. effects' = [effects EXCEPT ![k] = effects'[k]] /\ effects'[k] > 0
    BY <1>6 DEF ApplyEffect
  <2>3. AbsApplied' = AbsApplied \cup {k}
    BY <2>2 DEF AbsApplied
  <2>4. AbsState' = AbsState
    BY <1>6, Zenon DEF ApplyEffect, AbsState
  <2> QED BY <2>1, <2>3, <2>4, Zenon DEF D!ApplyEffect, AbsState, AbsApplied
<1>7. ASSUME NEW w \in Workers, NEW k \in Keys, acknowledge(w, k)
      PROVE  Quiet \/ D!Complete(k)
  <2>1. AbsApplied' = AbsApplied
    BY <1>7, Zenon DEF acknowledge, AbsApplied
  <2>2. CASE outbox' = outbox
    BY <2>1, <2>2, Zenon DEF AbsState
  <2>3. CASE outbox' = Acknowledged(outbox, k) /\ Retirable(outbox[k])
    <3>1. AbsState[k] = "committed"
      BY <2>3 DEF AbsState, RowState
    <3>2. k \in AbsApplied
      <4>1. handler[w] = [stage |-> "ack", key |-> k]
        BY <1>7, Zenon DEF acknowledge
      <4>2. effects[k] > 0
        BY <4>1
      <4> QED BY <4>2 DEF AbsApplied
    <3>3. RowState(outbox'[k]) = "done"
      BY <2>3, AcknowledgedStands DEF RowState
    <3>4. ASSUME NEW j \in Keys, j # k PROVE outbox'[j] = outbox[j]
      BY <2>3, <3>4, Zenon DEF Acknowledged
    <3>5. AbsState' = [AbsState EXCEPT ![k] = "done"]
      BY <3>3, <3>4 DEF AbsState
    <3> QED BY <2>1, <3>1, <3>2, <3>5, Zenon DEF D!Complete, AbsState, AbsApplied
  <2>4. \/ outbox' = outbox
        \/ outbox' = Acknowledged(outbox, k) /\ Retirable(outbox[k])
    <3> HIDE DEF Moves, At, Retirable
    <3> QED BY <1>7, Zenon DEF acknowledge, Acknowledged
  <2> QED BY <2>2, <2>3, <2>4
<1>8. ASSUME NEW w \in Workers, NEW k \in Keys,
             Fetch(w, k) \/ CheckCompleted(w, k) \/ Settle(w, k)
      PROVE  Quiet
  BY <1>8, Zenon DEF Fetch, CheckCompleted, Settle, AbsState, AbsApplied
<1>9. ASSUME NEW r \in Relays, RelayCrash(r) PROVE Quiet
  BY <1>9, Zenon DEF RelayCrash, AbsState, AbsApplied
<1>10. ASSUME NEW w \in Workers, WorkerCrash(w) PROVE Quiet
  BY <1>10, Zenon DEF WorkerCrash, AbsState, AbsApplied
<1>11. ASSUME NEW k \in Keys, Stall(k) \/ RetentionEnds(k) PROVE Quiet
  BY <1>11, Zenon DEF Stall, RetentionEnds, AbsState, AbsApplied
<1>12. ASSUME RedisFlush \/ UNCHANGED vars PROVE Quiet
  BY <1>12, Zenon DEF RedisFlush, vars, AbsState, AbsApplied
<1> HIDE DEF Quiet
<1>13. ASSUME NEW r \in Relays, RelayStep(r) PROVE Quiet \/ D!DNext
  BY <1>13, <1>2, <1>3, <1>4, Zenon DEF RelayStep, D!DNext
<1>14. ASSUME NEW w \in Workers, WorkerStep(w) PROVE Quiet \/ D!DNext
  BY <1>14, <1>6, <1>7, <1>8, Zenon DEF WorkerStep, D!DNext
<1>15. Quiet \/ D!DNext
  BY <1>1, <1>5, <1>9, <1>10, <1>11, <1>12, <1>13, <1>14, Zenon DEF Next, D!DNext
<1> QED BY <1>0, <1>15

\* The types hold in every reachable state, whatever crashes or is lost.
THEOREM OutboxTypeCorrect == Spec => []TypeOK
<1>1. Init => TypeOK
  BY OutboxInitInv
<1> QED BY <1>1, OutboxTypedNext, PTL DEF Spec

\* The outbox implements the safety of Delivery: a committed row is never
\* forgotten, is completed only after its effect was applied, and is given up
\* only openly, whatever crashes, stalls, is lost or arrives late.
THEOREM OutboxImplementsDelivery == Spec => DeliverySafety
<1>1. Init => TypeOK /\ Grounded
  BY OutboxInitInv
<1>2. Init => D!DInit
  <2> SUFFICES ASSUME Init PROVE D!DInit
    OBVIOUS
  <2>1. \A k \in Keys : RowState(outbox[k]) = "absent"
    BY DEF Init, RowState
  <2>2. \A k \in Keys : ~(effects[k] > 0)
    BY DEF Init
  <2>3. {k \in Keys : effects[k] > 0} = {}
    BY <2>2
  <2>4. [k \in Keys |-> RowState(outbox[k])] = [k \in Keys |-> "absent"]
    BY <2>1
  <2> QED BY <2>3, <2>4, Zenon DEF D!DInit
<1>3. TypeOK /\ Grounded /\ [Next]_vars => TypeOK' /\ Grounded'
  BY OutboxTypedNext, GroundedNext
<1> QED BY <1>1, <1>2, <1>3, OutboxStepRefines, PTL DEF Spec, DeliverySafety, D!DSafety

-----------------------------------------------------------------------------
(* The rows account for the work.                                          *)

\* AttemptsTellCycles of one row.
Counted(row) ==
  /\ row.attempts = row.publishAttempts + (IF row.failed THEN 1 ELSE 0)
  /\ row.failed <=> row.publishAttempts = MaxAttempts /\ row.attempts > MaxAttempts
  /\ row.publishAttempts <= MaxAttempts
  /\ row.lease = "none" <=> row.publishAttempts = 0

\* What no statement but the claim changes of a row.
SameCounts(old, new) ==
  /\ new.attempts = old.attempts /\ new.publishAttempts = old.publishAttempts
  /\ new.failed = old.failed
  /\ new.lease = "none" <=> old.lease = "none"

\* A claim counts one hand-over and holds the row, or gives it up.
LEMMA ClaimedRowCounts ==
  ASSUME NEW row \in Row, Counted(row), ~row.failed
  PROVE  /\ Counted(ClaimedRow(row))
         /\ row.lease # "none" => ClaimedRow(row).lease # "none"
         /\ ~Exhausted(row) => ClaimedRow(row).lease # "none"
<1>1. row.attempts \in Nat /\ row.publishAttempts \in Nat /\ row.attempts = row.publishAttempts
  BY DEF Row, Counted
<1>2. CASE Exhausted(row)
  <2> DEFINE new == [row EXCEPT !.attempts = @ + 1, !.failed = TRUE, !.lastError = "exhausted"]
  <2>1. ClaimedRow(row) = new
    BY <1>2, Zenon DEF ClaimedRow
  <2>2. /\ new.attempts = row.attempts + 1 /\ new.failed = TRUE
        /\ new.publishAttempts = row.publishAttempts /\ new.lease = row.lease
    BY Zenon DEF Row
  <2> HIDE DEF new
  <2>3. row.publishAttempts = MaxAttempts
    BY <1>1, <1>2 DEF Exhausted, Counted
  <2> QED BY <1>1, <1>2, <2>1, <2>2, <2>3 DEF Counted
<1>3. CASE ~Exhausted(row)
  <2> DEFINE new == [row EXCEPT !.attempts = @ + 1, !.publishAttempts = @ + 1, !.lease = "held"]
  <2>1. ClaimedRow(row) = new
    BY <1>3, Zenon DEF ClaimedRow
  <2>2. /\ new.attempts = row.attempts + 1 /\ new.failed = row.failed
        /\ new.publishAttempts = row.publishAttempts + 1 /\ new.lease = "held"
    BY Zenon DEF Row
  <2> HIDE DEF new
  <2>3. row.publishAttempts + 1 <= MaxAttempts
    BY <1>1, <1>3 DEF Exhausted
  <2> QED BY <1>1, <2>1, <2>2, <2>3 DEF Counted
<1> QED BY <1>2, <1>3

\* Every other statement on a row that exists leaves its counts alone.
LEMMA RowUpdatesKeepCounts ==
  ASSUME NEW rows \in [Keys -> Row], NEW k \in Keys, NEW new \in RowUpdates(rows, k),
         new = [rows EXCEPT ![k].lease = "lapsed"] => rows[k].lease = "held",
         NEW j \in Keys
  PROVE  SameCounts(rows[j], new[j])
<1> USE DEF Row, SameCounts
<1>1. CASE new = [rows EXCEPT ![k].lease = "lapsed"]
  <2>1. /\ new[j].attempts = rows[j].attempts
        /\ new[j].publishAttempts = rows[j].publishAttempts
        /\ new[j].failed = rows[j].failed
        /\ new[j].lease = IF j = k THEN "lapsed" ELSE rows[j].lease
    BY <1>1, Zenon
  <2> QED BY <1>1, <2>1
<1>2. CASE new = [rows EXCEPT ![k].available = TRUE]
  BY <1>2, Zenon
<1>3. CASE new = [rows EXCEPT ![k].lastError = "none"]
  BY <1>3, Zenon
<1>4. CASE new = [rows EXCEPT ![k].lastError = "publish", ![k].available = FALSE]
  BY <1>4, Zenon
<1>5. CASE new = [rows EXCEPT ![k].completed = TRUE]
  BY <1>5, Zenon
<1> QED BY <1>1, <1>2, <1>3, <1>4, <1>5 DEF RowUpdates, QuietUpdates

\* A row across one step: its counts tell its cycles again, and a row that
\* was dispatched stays so.
RowMoves(k) ==
  /\ Counted(outbox'[k])
  /\ outbox[k].present /\ outbox[k].lease # "none" => outbox'[k].lease # "none"

\* The other statements, as steps.
LEMMA SameCountsMove ==
  ASSUME AttemptsTellCycles, \A k \in Keys : SameCounts(outbox[k], outbox'[k])
  PROVE  \A k \in Keys : RowMoves(k)
BY DEF AttemptsTellCycles, SameCounts, Counted, RowMoves

\* Every step moves every row so.
LEMMA RowsMove ==
  TypeOK /\ Grounded /\ AttemptsTellCycles /\ [Next]_vars => \A k \in Keys : RowMoves(k)
<1> SUFFICES ASSUME TypeOK, Grounded, AttemptsTellCycles, [Next]_vars
             PROVE  \A k \in Keys : RowMoves(k)
  OBVIOUS
<1>0. outbox \in [Keys -> Row] /\ \A k \in Keys : Counted(outbox[k])
  BY DEF TypeOK, AttemptsTellCycles, Counted
<1>1. ASSUME UNCHANGED outbox PROVE \A k \in Keys : RowMoves(k)
  BY <1>0, <1>1 DEF RowMoves
<1>2. ASSUME NEW k \in Keys, outbox' \in RowUpdates(outbox, k),
             outbox' = [outbox EXCEPT ![k].lease = "lapsed"] => outbox[k].lease = "held"
      PROVE  \A j \in Keys : RowMoves(j)
  BY <1>0, <1>2, RowUpdatesKeepCounts, SameCountsMove
<1>3. ASSUME NEW k \in Keys, NEW a \in BOOLEAN, Enqueue(k, a) PROVE \A j \in Keys : RowMoves(j)
  <2>1. Counted(outbox'[k]) /\ ~outbox[k].present
    BY <1>0, <1>3 DEF Enqueue, Counted
  <2>2. \A j \in Keys \ {k} : outbox'[j] = outbox[j]
    BY <1>0, <1>3 DEF Enqueue
  <2> QED BY <1>0, <2>1, <2>2 DEF RowMoves
<1>4. ASSUME NEW r \in Relays, NEW ks \in SUBSET Keys, Claim(r, ks)
      PROVE  \A j \in Keys : RowMoves(j)
  <2>1. \A j \in Keys : outbox'[j] = IF j \in ks THEN ClaimedRow(outbox[j]) ELSE outbox[j]
    BY <1>4, Zenon DEF Claim
  <2>2. \A j \in ks : ~outbox[j].failed
    BY <1>4, Zenon DEF Claim, Claimable
  <2> QED BY <1>0, <2>1, <2>2, ClaimedRowCounts DEF RowMoves
<1>5. ASSUME NEW r \in Relays, NEW k \in Keys,
             recordPublishFailure(r, k) \/ clearPublishError(r, k)
      PROVE  \A j \in Keys : RowMoves(j)
  <2>1. CASE UNCHANGED outbox
    BY <1>1, <2>1
  <2>2. CASE ~UNCHANGED outbox
    <3>1. outbox' \in {[outbox EXCEPT ![k].lastError = "none"],
                       [outbox EXCEPT ![k].lastError = "publish", ![k].available = FALSE]}
      BY <1>5, <2>2, Zenon DEF recordPublishFailure, clearPublishError
    <3>2. outbox'[k].lease = outbox[k].lease
      <4>1. CASE outbox' = [outbox EXCEPT ![k].lastError = "none"]
        BY <1>0, <4>1, Zenon DEF Row
      <4>2. CASE outbox' = [outbox EXCEPT ![k].lastError = "publish", ![k].available = FALSE]
        BY <1>0, <4>2, Zenon DEF Row
      <4> QED BY <3>1, <4>1, <4>2
    <3>3. \A j \in Keys : SameCounts(outbox[j], outbox'[j])
      <4>1. CASE outbox' = [outbox EXCEPT ![k].lastError = "none"]
        BY <1>0, <4>1, Zenon DEF Row, SameCounts
      <4>2. CASE outbox' = [outbox EXCEPT ![k].lastError = "publish", ![k].available = FALSE]
        BY <1>0, <4>2, Zenon DEF Row, SameCounts
      <4> QED BY <3>1, <4>1, <4>2
    <3> QED BY <3>3, SameCountsMove
  <2> QED BY <2>1, <2>2
<1>6. ASSUME NEW k \in Keys, LeaseLapses(k) \/ BecomesAvailable(k)
      PROVE  \A j \in Keys : RowMoves(j)
  <2>1. CASE LeaseLapses(k)
    <3>1. outbox' \in RowUpdates(outbox, k) /\ outbox[k].lease = "held"
      BY <2>1, Zenon DEF LeaseLapses, RowUpdates, QuietUpdates
    <3> QED BY <1>2, <3>1
  <2>2. CASE BecomesAvailable(k)
    <3>1. outbox' = [outbox EXCEPT ![k].available = TRUE]
      BY <2>2, Zenon DEF BecomesAvailable
    <3>2. \A j \in Keys : SameCounts(outbox[j], outbox'[j])
      BY <1>0, <3>1, Zenon DEF Row, SameCounts
    <3> QED BY <3>2, SameCountsMove
  <2> QED BY <1>6, <2>1, <2>2
<1>7. ASSUME NEW w \in Workers, NEW k \in Keys, acknowledge(w, k)
      PROVE  \A j \in Keys : RowMoves(j)
  <2>1. outbox' = outbox \/ outbox' = [outbox EXCEPT ![k].completed = TRUE]
    <3> HIDE DEF Moves, At
    <3> QED BY <1>7, Zenon DEF acknowledge
  <2>2. CASE outbox' = [outbox EXCEPT ![k].completed = TRUE]
    <3>1. \A j \in Keys : SameCounts(outbox[j], outbox'[j])
      BY <1>0, <2>2, Zenon DEF Row, SameCounts
    <3> QED BY <3>1, SameCountsMove
  <2> QED BY <1>1, <2>1, <2>2
<1>8. ASSUME \/ \E r \in Relays : \/ \E c \in batch[r] : Publish(r, c)
                                  \/ RelayCrash(r)
             \/ \E w \in Workers : \/ WorkerCrash(w)
                                   \/ \E k \in Keys : \/ Fetch(w, k) \/ CheckCompleted(w, k)
                                                      \/ ApplyEffect(w, k) \/ Settle(w, k)
             \/ \E k \in Keys : Stall(k) \/ RetentionEnds(k)
             \/ RedisFlush \/ UNCHANGED vars
      PROVE  UNCHANGED outbox
  BY <1>8, Zenon DEF Publish, RelayCrash, WorkerCrash, Fetch, CheckCompleted, ApplyEffect,
                     Settle, Stall, RetentionEnds, RedisFlush, vars
<1> QED BY <1>1, <1>3, <1>4, <1>5, <1>6, <1>7, <1>8, Zenon DEF Next, RelayStep, WorkerStep

\* Whatever comes into flight in a step was in flight before or is claimed in
\* this step.
LEMMA FlightGrows ==
  ASSUME TypeOK, Grounded, AttemptsTellCycles, [Next]_vars, NEW k \in Keys, InFlight(k)'
  PROVE  InFlight(k) \/ outbox'[k].lease # "none"
<1> USE DEF TypeOK
<1>1. ASSUME NEW r \in Relays, NEW ks \in SUBSET Keys, Claim(r, ks)
      PROVE  InFlight(k) \/ outbox'[k].lease # "none"
  <2>1. UNCHANGED <<jobs, handler>>
    BY <1>1, Zenon DEF Claim
  <2>2. \A s \in Relays \ {r} : batch'[s] = batch[s]
    BY <1>1, Zenon DEF Claim
  <2>3. ASSUME NEW c \in batch'[r], c.key = k PROVE outbox'[k].lease # "none"
    <3>1. batch'[r] = {[key |-> j, hadError |-> outbox[j].lastError # "none"] :
                         j \in {i \in ks : ~Exhausted(outbox[i])}}
      BY <1>1, Zenon DEF Claim
    <3>2. PICK j \in {i \in ks : ~Exhausted(outbox[i])} :
            c = [key |-> j, hadError |-> outbox[j].lastError # "none"]
      BY <3>1
    <3>3. k \in ks /\ ~Exhausted(outbox[k])
      BY <2>3, <3>2
    <3>4. outbox'[k] = ClaimedRow(outbox[k])
      BY <1>1, <3>3, Zenon DEF Claim
    <3>5. ~outbox[k].failed /\ Counted(outbox[k])
      <4>1. ~outbox[k].failed
        BY <1>1, <3>3, Zenon DEF Claim, Claimable
      <4> QED BY <4>1 DEF AttemptsTellCycles, Counted
    <3> QED BY <3>3, <3>4, <3>5, ClaimedRowCounts
  <2> QED BY <2>1, <2>2, <2>3 DEF InFlight
<1>2. ASSUME NEW r \in Relays, NEW c \in batch[r], Publish(r, c) PROVE InFlight(k)
  <2>1. jobs' \in {jobs, [jobs EXCEPT ![c.key] = Job("waiting")]}
    BY <1>2, Zenon DEF Publish, Added
  <2>2. /\ \A s \in Relays : batch'[s] \subseteq batch[s]
        /\ UNCHANGED handler
    BY <1>2 DEF Publish
  <2>3. jobs'[k].state = jobs[k].state \/ c.key = k
    BY <2>1
  <2> QED BY <2>2, <2>3 DEF InFlight
<1>3. ASSUME NEW r \in Relays, RelayCrash(r) PROVE InFlight(k)
  BY <1>3 DEF RelayCrash, InFlight
<1>4. ASSUME NEW w \in Workers, NEW j \in Keys, Fetch(w, j) PROVE InFlight(k)
  <2>1. \A i \in Keys : jobs'[i].state = jobs[i].state \/ i = j
    BY <1>4 DEF Fetch
  <2>2. jobs[j].state # "none" /\ UNCHANGED batch
    BY <1>4 DEF Fetch
  <2>3. \A v \in Workers : handler'[v].key = handler[v].key \/ handler'[v].key = j
    BY <1>4 DEF Fetch
  <2> QED BY <2>1, <2>2, <2>3 DEF InFlight
<1>5. ASSUME NEW w \in Workers, NEW j \in Keys,
             CheckCompleted(w, j) \/ ApplyEffect(w, j) \/ acknowledge(w, j)
      PROVE  InFlight(k)
  <2>1. UNCHANGED <<batch, jobs>> /\ handler[w].key = j
    <3>1. /\ UNCHANGED <<batch, jobs>>
          /\ At(w, "check", j) \/ At(w, "apply", j) \/ At(w, "ack", j)
      BY <1>5, Zenon DEF CheckCompleted, ApplyEffect, acknowledge
    <3> QED BY <3>1 DEF At
  <2>2. PICK s : handler' = [handler EXCEPT ![w] = [stage |-> s, key |-> j]]
    <3>1. PICK stages : Moves(w, j, stages)
      BY <1>5, Zenon DEF CheckCompleted, ApplyEffect, acknowledge
    <3> QED BY <3>1, Zenon DEF Moves
  <2>3. \A v \in Workers : handler'[v].key = handler[v].key
    BY <2>1, <2>2
  <2> QED BY <2>1, <2>3 DEF InFlight
<1>6. ASSUME NEW w \in Workers, NEW j \in Keys, Settle(w, j) PROVE InFlight(k)
  <2>1. handler[w].key = j /\ UNCHANGED batch
    <3>1. /\ UNCHANGED batch
          /\ At(w, "succeed", j) \/ At(w, "throw", j)
      BY <1>6, Zenon DEF Settle
    <3> QED BY <3>1 DEF At
  <2>2. handler' = [handler EXCEPT ![w] = Idle]
    BY <1>6, Zenon DEF Settle
  <2>3. jobs' \in {jobs, [jobs EXCEPT ![j] = jobs'[j]]}
    BY <1>6, Zenon DEF Settle
  <2>4. \A v \in Workers : handler'[v].key = handler[v].key \/ handler'[v].key \notin Keys
    BY <2>2
  <2>5. jobs'[k] = jobs[k] \/ k = j
    BY <2>3
  <2> QED BY <2>1, <2>4, <2>5 DEF InFlight
<1>7. ASSUME NEW w \in Workers, WorkerCrash(w) PROVE InFlight(k)
  <2>1. \A j \in Keys : jobs'[j].state = jobs[j].state
    BY <1>7 DEF WorkerCrash
  <2>2. handler' = [handler EXCEPT ![w] = Idle] /\ UNCHANGED batch
    BY <1>7, Zenon DEF WorkerCrash
  <2> QED BY <2>1, <2>2 DEF InFlight
<1>8. ASSUME NEW j \in Keys, Stall(j) \/ RetentionEnds(j) PROVE InFlight(k)
  <2>1. \A i \in Keys : jobs'[i].state # "none" => jobs[i].state # "none"
    BY <1>8 DEF Stall, RetentionEnds
  <2>2. UNCHANGED <<batch, handler>>
    BY <1>8, Zenon DEF Stall, RetentionEnds
  <2> QED BY <2>1, <2>2 DEF InFlight
<1>9. CASE RedisFlush
  BY <1>9 DEF RedisFlush, InFlight
<1>10. ASSUME \/ \E j \in Keys, a \in BOOLEAN : Enqueue(j, a)
              \/ \E r \in Relays, j \in Keys : recordPublishFailure(r, j) \/ clearPublishError(r, j)
              \/ \E j \in Keys : LeaseLapses(j) \/ BecomesAvailable(j)
              \/ UNCHANGED vars
       PROVE  InFlight(k)
  <2>1. UNCHANGED <<batch, jobs, handler>>
    BY <1>10, Zenon DEF Enqueue, recordPublishFailure, clearPublishError, LeaseLapses,
                        BecomesAvailable, vars
  <2> QED BY <2>1 DEF InFlight
<1> QED BY <1>1, <1>2, <1>3, <1>4, <1>5, <1>6, <1>7, <1>8, <1>9, <1>10, Zenon
        DEF Next, RelayStep, WorkerStep

\* Accounting is inductive on top of what grounds it.
LEMMA AccountsNext ==
  RowsAccountForWork /\ Grounded /\ [Next]_vars => RowsAccountForWork'
<1> SUFFICES ASSUME RowsAccountForWork, Grounded, [Next]_vars PROVE RowsAccountForWork'
  OBVIOUS
<1>1. TypeOK /\ AttemptsTellCycles /\ InFlightWasDispatched
  BY DEF RowsAccountForWork
<1>2. TypeOK'
  BY <1>1, OutboxTypedNext
<1>3. \A k \in Keys : RowMoves(k)
  BY <1>1, RowsMove
<1>4. AttemptsTellCycles'
  BY <1>3 DEF AttemptsTellCycles, RowMoves, Counted
<1>5. InFlightWasDispatched'
  <2> SUFFICES ASSUME NEW k \in Keys, InFlight(k)' PROVE outbox'[k].lease # "none"
    BY DEF InFlightWasDispatched
  <2>1. CASE InFlight(k)
    <3>1. outbox[k].lease # "none"
      BY <1>1, <2>1 DEF InFlightWasDispatched
    <3>2. outbox[k].present
      BY <1>1, <2>1 DEF InFlight, Grounded, InFlightIsPresent, TypeOK
    <3> QED BY <1>3, <3>1, <3>2 DEF RowMoves
  <2>2. CASE ~InFlight(k)
    BY <1>1, <2>2, FlightGrows
  <2> QED BY <2>1, <2>2
<1> QED BY <1>2, <1>4, <1>5 DEF RowsAccountForWork

\* Nothing is in flight and nothing was counted.
LEMMA AccountsInit == Init => RowsAccountForWork
<1> SUFFICES ASSUME Init PROVE RowsAccountForWork
  OBVIOUS
<1>1. TypeOK
  BY OutboxInitInv
<1>2. AttemptsTellCycles
  BY DEF Init, AttemptsTellCycles
<1>3. InFlightWasDispatched
  BY DEF Init, InFlightWasDispatched, InFlight
<1> QED BY <1>1, <1>2, <1>3 DEF RowsAccountForWork

\* The rows account for everything relays, BullMQ and workers hold: attempts
\* count hand-overs, a row is dead exactly when they are used up, and nothing
\* is in flight that was not dispatched.
THEOREM WorkIsAccountedFor == Spec => []RowsAccountForWork
<1>1. Init => RowsAccountForWork /\ Grounded
  BY AccountsInit, OutboxInitInv
<1>2. RowsAccountForWork /\ Grounded /\ [Next]_vars => RowsAccountForWork' /\ Grounded'
  BY AccountsNext, GroundedNext DEF RowsAccountForWork
<1> QED BY <1>1, <1>2, PTL DEF Spec

\* Nobody starts to apply the effect of a completed row.
LEMMA SkippedNext ==
  TypeOK /\ [Next]_vars =>
    \A k \in Keys : outbox[k].completed /\ ~Applying(k) => ~Applying(k)'
<1> SUFFICES ASSUME TypeOK, [Next]_vars, NEW k \in Keys, outbox[k].completed,
                    NEW v \in Workers, handler'[v] = [stage |-> "apply", key |-> k]
             PROVE  handler[v] = [stage |-> "apply", key |-> k]
  BY DEF Applying
<1> USE DEF TypeOK
<1>1. ASSUME NEW w \in Workers, NEW j \in Keys, NEW s,
             handler' = [handler EXCEPT ![w] = [stage |-> s, key |-> j]],
             s = "apply" => ~outbox[j].completed
      PROVE  handler[v] = [stage |-> "apply", key |-> k]
  <2>1. CASE v = w
    BY <1>1, <2>1
  <2>2. CASE v # w
    BY <1>1, <2>2
  <2> QED BY <2>1, <2>2
<1>2. ASSUME NEW w \in Workers, NEW j \in Keys, WorkerStep(w)
      PROVE  handler[v] = [stage |-> "apply", key |-> k]
  <2>1. PICK i \in Keys : \/ Fetch(w, i) \/ CheckCompleted(w, i) \/ ApplyEffect(w, i)
                          \/ acknowledge(w, i) \/ Settle(w, i)
    BY <1>2 DEF WorkerStep
  <2>2. CASE Settle(w, i)
    BY <2>2 DEF Settle
  <2>3. CASE ~Settle(w, i)
    <3>1. PICK s : /\ handler' = [handler EXCEPT ![w] = [stage |-> s, key |-> i]]
                   /\ s = "apply" => ~outbox[i].completed
      <4>1. CASE CheckCompleted(w, i)
        <5>1. PICK s \in {IF outbox[i].completed THEN "ack" ELSE "apply", "throw"} :
                handler' = [handler EXCEPT ![w] = [stage |-> s, key |-> i]]
          BY <4>1, Zenon DEF CheckCompleted
        <5>2. s = "apply" => ~outbox[i].completed
          OBVIOUS
        <5> QED BY <5>1, <5>2
      <4>2. CASE Fetch(w, i) \/ ApplyEffect(w, i) \/ acknowledge(w, i)
        <5>1. PICK s \in {"check", "ack", "throw", "succeed"} :
                handler' = [handler EXCEPT ![w] = [stage |-> s, key |-> i]]
          BY <4>2, Zenon DEF Fetch, ApplyEffect, acknowledge
        <5> QED BY <5>1
      <4> QED BY <2>1, <2>3, <4>1, <4>2
    <3> QED BY <1>1, <3>1
  <2> QED BY <2>2, <2>3
<1>3. ASSUME NEW w \in Workers, WorkerCrash(w) PROVE handler[v] = [stage |-> "apply", key |-> k]
  BY <1>3 DEF WorkerCrash
<1>4. ASSUME \/ \E j \in Keys, a \in BOOLEAN : Enqueue(j, a)
             \/ \E r \in Relays : RelayStep(r) \/ RelayCrash(r)
             \/ \E j \in Keys : \/ LeaseLapses(j) \/ BecomesAvailable(j)
                                \/ Stall(j) \/ RetentionEnds(j)
             \/ RedisFlush \/ UNCHANGED vars
      PROVE  UNCHANGED handler
  BY <1>4, Zenon DEF Enqueue, RelayStep, Claim, Publish, recordPublishFailure, clearPublishError,
                     RelayCrash, LeaseLapses, BecomesAvailable, Stall, RetentionEnds,
                     RedisFlush, vars
<1> QED BY <1>2, <1>3, <1>4, Zenon DEF Next

\* Once a row is acknowledged and nobody is past the check, its effect is not
\* applied again, however often the job is delivered.
THEOREM RedeliveryIsHarmless == Spec => RedeliveryIsSkipped
<1>1. TypeOK /\ [Next]_vars =>
        [\A k \in Keys : outbox[k].completed /\ ~Applying(k) => ~Applying(k)']_vars
  BY SkippedNext
<1> QED BY <1>1, OutboxTypeCorrect, PTL DEF Spec, RedeliveryIsSkipped

=============================================================================
