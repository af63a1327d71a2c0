--------------------------- MODULE ProcessesProofs ---------------------------
(***************************************************************************)
(* What a process keeps true whatever hangs or fails: a worker that stops  *)
(* spares the work it has, for any number of queues, jobs and slots; the   *)
(* gateway and the presence of a user agree, for any number of sockets;    *)
(* and readiness requests share one fresh probe, for any number of them.   *)
(***************************************************************************)
EXTENDS Shutdown, Presence, Readiness, FiniteSetTheorems, TLAPS

-----------------------------------------------------------------------------
(* The worker stops.                                                       *)

\* A stopped relay sets no timer, and no worker closes before it stopped.
RelayInv ==
  /\ phase # "up" => stopped /\ ~timer
  /\ phase \in {"up", "relay"} => \A w \in Queues : worker[w].stage = "running"

\* Once intake is off a fetch is left only where pausing failed or a claim was
\* under way; so a worker that drained has nothing left to cut.
RowIsSparing(row) ==
  /\ row.stage \in {"settling", "draining", "closing"} =>
       row.failed \/ row.racing \/ row.fetch = "none"
  /\ row.stage = "closing" => row.spent \/ row.failed \/ row.racing \/ row.active = {}

WorkersInv == \A w \in Queues : RowIsSparing(worker[w])

\* What was cut belongs to a worker that is closed, and stays as it is.
CutInv == \A c \in cut : worker[c[1]].stage = "closed"

SparingInv ==
  ShutdownTypeOK /\ RelayInv /\ WorkersInv /\ CutInv /\ ShutdownSparesWork

LEMMA SparingInit == ShutdownInit => SparingInv
<1> SUFFICES ASSUME ShutdownInit PROVE SparingInv OBVIOUS
<1>1. Working \in [stage : Stages, fetch : {"none", "blocked", "claiming"},
                   active : SUBSET Jobs, racing : BOOLEAN, spent : BOOLEAN,
                   failed : BOOLEAN]
  BY DEF Working, Stages
<1>2. ShutdownTypeOK BY <1>1 DEF ShutdownInit, ShutdownTypeOK, Phases
<1>3. RelayInv /\ WorkersInv
  BY DEF ShutdownInit, RelayInv, WorkersInv, RowIsSparing, Working
<1>4. CutInv /\ ShutdownSparesWork BY DEF ShutdownInit, CutInv, ShutdownSparesWork
<1> QED BY <1>2, <1>3, <1>4 DEF SparingInv

\* Steps of the relay and the signal.
LEMMA RelaySteps ==
  ASSUME SparingInv, FireTimer \/ EndTick \/ Signal
  PROVE  SparingInv'
<1> USE DEF SparingInv, FireTimer, EndTick, Signal
<1>1. ShutdownTypeOK' BY DEF ShutdownTypeOK, Phases, Rescheduled, ClearTimer
<1>2. RelayInv' BY DEF RelayInv, Rescheduled, ClearTimer
<1>3. WorkersInv' /\ CutInv' BY DEF WorkersInv, RowIsSparing, CutInv
<1>4. ShutdownSparesWork' BY DEF ShutdownSparesWork, RelayInv, Alive
<1> QED BY <1>1, <1>2, <1>3, <1>4

\* The drain begins: every worker runs, so nothing is cut.
LEMMA DrainSteps ==
  ASSUME SparingInv, FinishRelay \/ RelayGraceEnds
  PROVE  SparingInv'
<1> USE DEF SparingInv, FinishRelay, RelayGraceEnds, DrainWorkers
<1>0. phase = "relay" /\ phase' = "workers" /\ UNCHANGED <<stopped, timer, tick, watchdog, cut>>
  BY DEF relay, RelayStopped
<1>1. ShutdownTypeOK'
  <2> DEFINE Row == [stage : Stages, fetch : {"none", "blocked", "claiming"},
                     active : SUBSET Jobs, racing : BOOLEAN, spent : BOOLEAN, failed : BOOLEAN]
  <2>1. \A w \in Queues : worker[w] \in Row BY DEF ShutdownTypeOK
  <2>2. \A row \in Row : [row EXCEPT !.stage = "pausing"] \in Row BY DEF Stages
  <2>3. worker' \in [Queues -> Row]
    <3> HIDE DEF Row
    <3> QED BY <2>1, <2>2
  <2> QED BY <1>0, <2>3 DEF ShutdownTypeOK, Phases, relay
<1>2. RelayInv' BY <1>0 DEF RelayInv
<1>3. \A w \in Queues : worker'[w].stage = "pausing" BY DEF ShutdownTypeOK
<1>4. WorkersInv' BY <1>3 DEF WorkersInv, RowIsSparing
<1>5. cut = {} BY <1>0 DEF RelayInv, CutInv, ShutdownTypeOK
<1>6. CutInv' BY <1>0, <1>5 DEF CutInv
<1>7. ShutdownSparesWork' BY <1>0, <1>5 DEF ShutdownSparesWork, RelayStopped, relay, ShutdownTypeOK
<1> QED BY <1>1, <1>2, <1>4, <1>6, <1>7

\* A step of one worker that is not closed and cuts nothing.
LEMMA WorkerStep ==
  ASSUME SparingInv, NEW w \in Queues, NEW row,
         row \in [stage : Stages, fetch : {"none", "blocked", "claiming"},
                  active : SUBSET Jobs, racing : BOOLEAN, spent : BOOLEAN, failed : BOOLEAN],
         worker[w].stage # "closed",
         RowIsSparing(row), worker[w].stage = "running" => row.stage = "running",
         Set(w, row), UNCHANGED <<phase, stopped, timer, tick, exhausted, watchdog, cut>>
  PROVE  SparingInv'
<1> USE DEF SparingInv, Set
<1>1. ShutdownTypeOK' BY DEF ShutdownTypeOK
<1>2. \A v \in Queues : worker'[v] = IF v = w THEN row ELSE worker[v] BY DEF ShutdownTypeOK
<1>3. RelayInv' BY <1>2 DEF RelayInv
<1>4. WorkersInv' BY <1>2 DEF WorkersInv
<1>5. \A c \in cut : c[1] \in Queues /\ c[1] # w BY DEF CutInv, ShutdownTypeOK
<1>6. CutInv' BY <1>2, <1>5 DEF CutInv
<1>7. ShutdownSparesWork' BY <1>2, <1>5 DEF ShutdownSparesWork
<1> QED BY <1>1, <1>3, <1>4, <1>6, <1>7

\* The main loop of a worker.
LEMMA LoopSteps ==
  ASSUME SparingInv, NEW w \in Queues,
         FetchJob(w) \/ Wake(w) \/ ClaimJob(w) \/ \E j \in Jobs : FinishJob(w, j)
  PROVE  SparingInv'
<1> DEFINE Row == [stage : Stages, fetch : {"none", "blocked", "claiming"},
                   active : SUBSET Jobs, racing : BOOLEAN, spent : BOOLEAN, failed : BOOLEAN]
<1>0. worker[w] \in Row /\ RowIsSparing(worker[w])
  BY DEF SparingInv, ShutdownTypeOK, WorkersInv
<1>1. CASE FetchJob(w)
  <2> DEFINE row == [worker[w] EXCEPT !.fetch = "blocked"]
  <2>1. row \in Row /\ RowIsSparing(row) /\ row.stage = worker[w].stage
    BY <1>0, <1>1 DEF FetchJob, RowIsSparing
  <2> QED BY <1>1, <2>1, WorkerStep DEF FetchJob, relay
<1>2. CASE Wake(w)
  <2> DEFINE row == [worker[w] EXCEPT !.fetch = "claiming"]
  <2>1. row \in Row /\ RowIsSparing(row) /\ row.stage = worker[w].stage
    BY <1>0, <1>2 DEF Wake, RowIsSparing
  <2> QED BY <1>2, <2>1, WorkerStep DEF Wake, relay
<1>3. CASE ClaimJob(w)
  <2>1. ASSUME NEW j \in Jobs,
               Set(w, [worker[w] EXCEPT !.fetch = "none", !.active = @ \cup {j}])
        PROVE  SparingInv'
    <3> DEFINE row == [worker[w] EXCEPT !.fetch = "none", !.active = @ \cup {j}]
    <3>1. row \in Row BY <1>0
    <3>2. /\ row.stage = worker[w].stage /\ row.racing = worker[w].racing
          /\ row.failed = worker[w].failed /\ row.fetch = "none" /\ row.spent = worker[w].spent
      BY <1>0
    <3>3. RowIsSparing(row) BY <1>0, <1>3, <3>2 DEF ClaimJob, RowIsSparing
    <3> QED BY <1>3, <2>1, <3>1, <3>2, <3>3, WorkerStep DEF ClaimJob, relay
  <2>2. CASE Set(w, [worker[w] EXCEPT !.fetch = "none"])
    <3> DEFINE row == [worker[w] EXCEPT !.fetch = "none"]
    <3>1. row \in Row /\ RowIsSparing(row) /\ row.stage = worker[w].stage
      BY <1>0, <1>3 DEF ClaimJob, RowIsSparing
    <3> QED BY <1>3, <2>2, <3>1, WorkerStep DEF ClaimJob, relay
  <2> QED BY <1>3, <2>1, <2>2 DEF ClaimJob
<1>4. ASSUME NEW j \in Jobs, FinishJob(w, j) PROVE SparingInv'
  <2> DEFINE row == [worker[w] EXCEPT !.active = @ \ {j}]
  <2>1. row \in Row /\ RowIsSparing(row) /\ row.stage = worker[w].stage
    BY <1>0, <1>4 DEF FinishJob, RowIsSparing
  <2> QED BY <1>4, <2>1, WorkerStep DEF FinishJob, relay
<1> QED BY <1>1, <1>2, <1>3, <1>4

\* The close of a worker, up to its last step.
LEMMA ClosingSteps ==
  ASSUME SparingInv, NEW w \in Queues,
         Pause(w) \/ Interrupt(w) \/ Yield(w) \/ Drained(w) \/ DrainGraceEnds(w)
  PROVE  SparingInv'
<1> DEFINE Row == [stage : Stages, fetch : {"none", "blocked", "claiming"},
                   active : SUBSET Jobs, racing : BOOLEAN, spent : BOOLEAN, failed : BOOLEAN]
<1>0. worker[w] \in Row /\ RowIsSparing(worker[w])
  BY DEF SparingInv, ShutdownTypeOK, WorkersInv
<1>1. CASE Pause(w)
  <2> DEFINE row == [worker[w] EXCEPT !.stage = "interrupting"]
  <2>1. row \in Row /\ RowIsSparing(row) BY <1>0, <1>1 DEF Pause, RowIsSparing, Stages
  <2> QED BY <1>1, <2>1, WorkerStep DEF Pause, Turn, relay
<1>2. CASE Interrupt(w)
  <2>1. PICK row : /\ Set(w, row)
                   /\ \/ row = [worker[w] EXCEPT !.stage = "closing", !.failed = TRUE]
                      \/ row = [worker[w] EXCEPT !.stage = "settling",
                                  !.fetch = Interrupted(worker[w]),
                                  !.racing = worker[w].fetch = "claiming"]
    BY <1>2 DEF Interrupt
  <2>2. row \in Row /\ RowIsSparing(row)
    BY <1>0, <1>2, <2>1 DEF Interrupt, Interrupted, RowIsSparing, Stages
  <2> QED BY <1>2, <2>1, <2>2, WorkerStep DEF Interrupt, relay
<1>3. CASE Yield(w)
  <2> DEFINE row == [worker[w] EXCEPT !.stage = "draining"]
  <2>1. row \in Row /\ RowIsSparing(row) BY <1>0, <1>3 DEF Yield, RowIsSparing, Stages
  <2> QED BY <1>3, <2>1, WorkerStep DEF Yield, Turn, relay
<1>4. CASE Drained(w)
  <2> DEFINE row == [worker[w] EXCEPT !.stage = "closing"]
  <2>1. row \in Row /\ RowIsSparing(row)
    BY <1>0, <1>4 DEF Drained, Settled, RowIsSparing, Stages
  <2> QED BY <1>4, <2>1, WorkerStep DEF Drained, Turn, relay
<1>5. CASE DrainGraceEnds(w)
  <2> DEFINE row == [worker[w] EXCEPT !.stage = "closing", !.spent = TRUE]
  <2>1. row \in Row /\ RowIsSparing(row)
    BY <1>0, <1>5 DEF DrainGraceEnds, DrainDeadline, RowIsSparing, Stages
  <2> QED BY <1>5, <2>1, WorkerStep DEF DrainGraceEnds, DrainDeadline, relay
<1> QED BY <1>1, <1>2, <1>3, <1>4, <1>5

\* Only here a job may be cut.
LEMMA CloseStep ==
  ASSUME SparingInv, NEW w \in Queues, CloseWorker(w)
  PROVE  SparingInv'
<1> DEFINE Row == [stage : Stages, fetch : {"none", "blocked", "claiming"},
                   active : SUBSET Jobs, racing : BOOLEAN, spent : BOOLEAN, failed : BOOLEAN]
<1> DEFINE row == [worker[w] EXCEPT !.stage = "closed", !.fetch = "none", !.active = {}]
<1>0. worker[w] \in Row /\ RowIsSparing(worker[w]) /\ worker[w].stage = "closing"
  BY DEF SparingInv, ShutdownTypeOK, WorkersInv, CloseWorker
<1>1. /\ row \in Row /\ RowIsSparing(row) /\ row.stage = "closed"
      /\ row.spent = worker[w].spent /\ row.failed = worker[w].failed
      /\ row.racing = worker[w].racing
  BY <1>0 DEF RowIsSparing, Stages
<1>2. worker' = [worker EXCEPT ![w] = row] BY DEF CloseWorker, Set
<1>3. \A v \in Queues : worker'[v] = IF v = w THEN row ELSE worker[v]
  BY <1>2 DEF SparingInv, ShutdownTypeOK
<1>4. UNCHANGED <<phase, stopped, timer, tick, exhausted, watchdog>>
  BY DEF CloseWorker, relay
<1>5. cut' = cut \cup {<<w, j>> : j \in worker[w].active} BY DEF CloseWorker
<1>6. ShutdownTypeOK' BY <1>0, <1>1, <1>2, <1>4, <1>5 DEF SparingInv, ShutdownTypeOK
<1>7. RelayInv' BY <1>0, <1>1, <1>3, <1>4 DEF SparingInv, RelayInv
<1>8. WorkersInv' BY <1>1, <1>3 DEF SparingInv, WorkersInv
<1>9. ASSUME NEW c \in cut'
      PROVE  /\ worker'[c[1]].stage = "closed"
             /\ worker'[c[1]].spent \/ worker'[c[1]].failed \/ worker'[c[1]].racing
  <2>1. CASE c \in cut
    <3>1. c[1] \in Queues /\ c[1] # w BY <1>0, <2>1 DEF SparingInv, CutInv, ShutdownTypeOK
    <3> QED BY <1>3, <2>1, <3>1 DEF SparingInv, CutInv, ShutdownSparesWork
  <2>2. CASE c \in {<<w, j>> : j \in worker[w].active}
    <3>1. c[1] = w /\ worker[w].active # {} BY <2>2
    <3>2. worker[w].spent \/ worker[w].failed \/ worker[w].racing
      BY <1>0, <3>1 DEF RowIsSparing
    <3> QED BY <1>1, <1>3, <3>1, <3>2
  <2> QED BY <1>5, <2>1, <2>2
<1>10. CutInv' BY <1>9 DEF CutInv
<1>11. ShutdownSparesWork' BY <1>1, <1>3, <1>4, <1>9 DEF SparingInv, ShutdownSparesWork
<1> QED BY <1>6, <1>7, <1>8, <1>10, <1>11 DEF SparingInv

\* From the last close to the exit.
LEMMA TeardownSteps ==
  ASSUME SparingInv,
         WorkersClosed \/ CloseWorkerConnection \/ StopAgain \/ CloseRedis \/ EndPool \/ ForceExit
  PROVE  SparingInv'
<1> USE DEF SparingInv, WorkersClosed, CloseWorkerConnection, StopAgain, CloseRedis, EndPool,
            ForceExit, relay
<1>1. ShutdownTypeOK' BY DEF ShutdownTypeOK, Phases
<1>2. RelayInv' BY DEF RelayInv
<1>3. WorkersInv' /\ CutInv' BY DEF WorkersInv, RowIsSparing, CutInv
<1>4. ShutdownSparesWork' BY DEF ShutdownSparesWork, AllClosed
<1> QED BY <1>1, <1>2, <1>3, <1>4

LEMMA SparingStep == SparingInv /\ [ShutdownNext]_shutdownVars => SparingInv'
<1> SUFFICES ASSUME SparingInv, [ShutdownNext]_shutdownVars PROVE SparingInv' OBVIOUS
<1>1. CASE UNCHANGED shutdownVars
  BY <1>1 DEF shutdownVars, SparingInv, ShutdownTypeOK, RelayInv, WorkersInv, RowIsSparing,
              CutInv, ShutdownSparesWork
<1>2. CASE FireTimer \/ EndTick \/ Signal BY <1>2, RelaySteps
<1>3. CASE FinishRelay \/ RelayGraceEnds BY <1>3, DrainSteps
<1>4. CASE WorkersClosed \/ CloseWorkerConnection \/ StopAgain \/ CloseRedis \/ EndPool \/ ForceExit
  BY <1>4, TeardownSteps
<1>5. ASSUME NEW w \in Queues,
             FetchJob(w) \/ Wake(w) \/ ClaimJob(w) \/ \E j \in Jobs : FinishJob(w, j)
      PROVE  SparingInv'
  BY <1>5, LoopSteps
<1>6. ASSUME NEW w \in Queues, Closing(w) PROVE SparingInv'
  BY <1>6, ClosingSteps, CloseStep DEF Closing
<1> QED BY <1>1, <1>2, <1>3, <1>4, <1>5, <1>6 DEF ShutdownNext, GoOn

\* "Drain before disconnect": whatever hangs, no connection is taken from a pass
\* of the relay or from a job that did not have its full grace period.
THEOREM ShutdownIsOrderly == ShutdownSpec => []ShutdownSparesWork
<1>1. SparingInv => ShutdownSparesWork BY DEF SparingInv
<1> QED BY <1>1, SparingInit, SparingStep, PTL DEF ShutdownSpec

-----------------------------------------------------------------------------
(* The sockets of a user.                                                  *)

Steps == {"hash", "index", "sessions", "hashes", "get", "set", "emit"}

CallRow == {NoCall} \cup [at : Steps, active : BOOLEAN, live : SUBSET Sockets, state : States]

\* PresenceTypeOK without the count, which is of its type because of what it counts.
StateTyped ==
  /\ stage \in [Sockets -> {"new", "auth", "record", "done", "rejected"}]
  /\ wentAt \in [Sockets -> {"new", "auth", "record", "done"}]
  /\ up \subseteq Sockets /\ timers \subseteq Sockets
  /\ index \in [Sockets -> {"none", "fresh", "stale"}]
  /\ hash \in [Sockets -> {"none", "active", "idle"}]
  /\ lastState \in States \cup {"none"}
  /\ call \in [Calls -> CallRow]
  /\ failed \in 0 .. MaxFailures

\* The session of s has been recorded, and no disconnection took it away.
Recorded(s) ==
  s \in up /\ (stage[s] = "done" \/ call[<<s, "connect">>].at \in Steps \ {"hash", "index"})

\* How far handleConnection is, whether the socket is open and which calls are
\* in flight go together; unless a command failed, a recorded session is in the
\* index, and the timer of an open socket runs.
SocketIsSound(s) ==
  /\ call[<<s, "connect">>].at # "idle" => stage[s] = "record"
  /\ call[<<s, "disconnect">>].at # "idle" => s \notin up /\ stage[s] # "new"
  /\ stage[s] \in {"new", "rejected"} => s \notin up
  /\ stage[s] = "auth" => s \in up \/ wentAt[s] = "auth"
  /\ stage[s] = "done" /\ s \in up => s \in timers
  /\ failed = 0 /\ Recorded(s) => index[s] = "fresh"

SocketsInv == StateTyped /\ \A s \in Sockets : SocketIsSound(s)

LEMMA NoCallFacts ==
  NoCall \in CallRow /\ NoCall.at = "idle" /\ "idle" \notin Steps
BY DEF NoCall, CallRow, Steps

LEMMA BegunFacts ==
  ASSUME NEW active \in BOOLEAN
  PROVE  Begun(active) \in CallRow /\ Begun(active).at = "hash"
BY DEF Begun, NoCall, CallRow, Steps, States

LEMMA CallAtFacts ==
  ASSUME NEW at \in Steps
  PROVE  CallAt(at) \in CallRow /\ CallAt(at).at = at
BY DEF CallAt, NoCall, CallRow, Steps, States

LEMMA CallFacts ==
  ASSUME NEW c \in Calls
  PROVE  /\ c = <<c[1], c[2]>> /\ c[1] \in Sockets /\ c[2] \in {"connect", "touch", "disconnect"}
BY DEF Calls

LEMMA SocketsInvInit == PresenceInit => SocketsInv
<1> SUFFICES ASSUME PresenceInit PROVE SocketsInv
  OBVIOUS
<1>1. StateTyped
  BY NoCallFacts, PresenceAssumption DEF PresenceInit, StateTyped
<1>2. ASSUME NEW s \in Sockets PROVE SocketIsSound(s)
  <2>1. <<s, "connect">> \in Calls /\ <<s, "disconnect">> \in Calls
    BY DEF Calls
  <2> QED BY <2>1, NoCallFacts DEF PresenceInit, SocketIsSound, Recorded
<1> QED BY <1>1, <1>2 DEF SocketsInv

\* A step about one socket: it must still be sound, the others are not concerned.
LEMMA OneSocketStep ==
  ASSUME SocketsInv, NEW s \in Sockets, StateTyped', failed' = failed \/ failed' # 0,
         \A c \in Calls : c[1] # s => call'[c] = call[c],
         \A t \in Sockets \ {s} :
           /\ stage'[t] = stage[t] /\ (t \in up' <=> t \in up) /\ (t \in timers' <=> t \in timers)
           /\ index'[t] = index[t] /\ wentAt'[t] = wentAt[t],
         SocketIsSound(s)'
  PROVE  SocketsInv'
<1>1. ASSUME NEW t \in Sockets, t # s PROVE SocketIsSound(t)'
  <2>1. call'[<<t, "connect">>] = call[<<t, "connect">>]
    BY <1>1 DEF Calls
  <2>2. call'[<<t, "disconnect">>] = call[<<t, "disconnect">>]
    BY <1>1 DEF Calls
  <2>3. SocketIsSound(t)
    BY DEF SocketsInv
  <2> QED BY <1>1, <2>1, <2>2, <2>3 DEF SocketIsSound, Recorded
<1> QED BY <1>1 DEF SocketsInv

\* The calls of a socket before and after a step that records one of them.
LEMMA RecordFacts ==
  ASSUME StateTyped, NEW c \in Calls, NEW row \in CallRow, Record(c, row)
  PROVE  /\ call' \in [Calls -> CallRow] /\ call'[c] = row
         /\ \A d \in Calls : d # c => call'[d] = call[d]
BY DEF StateTyped, Record

LEMMA GatewayStep ==
  ASSUME SocketsInv, NEW s \in Sockets,
         Connect(s) \/ Authenticated(s) \/ handleDisconnect(s)
  PROVE  SocketsInv'
<1>1. SocketIsSound(s) /\ StateTyped
  BY DEF SocketsInv
<1>2. <<s, "connect">> \in Calls /\ <<s, "disconnect">> \in Calls
  BY DEF Calls
<1>3. CASE Connect(s)
  <2>1. StateTyped'
    BY <1>1, <1>3 DEF Connect, StateTyped, sessions
  <2>2. SocketIsSound(s)'
    BY <1>1, <1>2, <1>3, NoCallFacts DEF Connect, SocketIsSound, Recorded, StateTyped, sessions
  <2> QED BY <1>1, <1>3, <2>1, <2>2, OneSocketStep DEF Connect, StateTyped, sessions
<1>4. CASE Authenticated(s)
  <2>1. CASE UNCHANGED call
    <3>1. StateTyped'
      BY <1>1, <1>4, <2>1 DEF Authenticated, StateTyped, sessions
    <3>2. SocketIsSound(s)'
      BY <1>1, <1>2, <1>4, <2>1, NoCallFacts DEF Authenticated, SocketIsSound, Recorded, StateTyped, sessions
    <3> QED BY <1>1, <1>4, <2>1, <3>1, <3>2, OneSocketStep DEF Authenticated, StateTyped, sessions
  <2>2. CASE /\ stage' = [stage EXCEPT ![s] = "record"] /\ UNCHANGED up
             /\ Record(<<s, "connect">>, Begun(TRUE))
    <3>1. /\ call' \in [Calls -> CallRow] /\ call'[<<s, "connect">>].at = "hash"
          /\ \A d \in Calls : d # <<s, "connect">> => call'[d] = call[d]
      BY <1>1, <1>2, <2>2, RecordFacts, BegunFacts
    <3>2. StateTyped'
      BY <1>1, <1>4, <2>2, <3>1 DEF Authenticated, StateTyped, sessions
    <3>3. SocketIsSound(s)'
      BY <1>1, <1>2, <1>4, <2>2, <3>1 DEF Authenticated, SocketIsSound, Recorded, StateTyped, sessions, Steps
    <3>4. \A d \in Calls : d[1] # s => call'[d] = call[d]
      BY <3>1
    <3> QED BY <1>1, <1>4, <2>2, <3>2, <3>3, <3>4, OneSocketStep DEF Authenticated, StateTyped, sessions
  <2> QED BY <1>4, <2>1, <2>2 DEF Authenticated
<1>5. CASE handleDisconnect(s)
  <2>1. /\ call' \in [Calls -> CallRow] /\ \A d \in Calls : d # <<s, "disconnect">> => call'[d] = call[d]
        /\ call'[<<s, "disconnect">>] = call[<<s, "disconnect">>] \/ HasUser(s)
    <3>1. CASE HasUser(s)
      BY <1>1, <1>2, <1>5, <3>1, RecordFacts, BegunFacts DEF handleDisconnect
    <3>2. CASE ~HasUser(s)
      BY <1>1, <1>5, <3>2 DEF handleDisconnect, StateTyped
    <3> QED BY <3>1, <3>2
  <2>2. StateTyped'
    <3>1. wentAt' \in [Sockets -> {"new", "auth", "record", "done"}]
      BY <1>1, <1>5 DEF handleDisconnect, SocketIsSound, StateTyped
    <3> QED BY <1>1, <1>5, <2>1, <3>1 DEF handleDisconnect, stopPresenceHeartbeat, StateTyped, sessions
  <2>3. call'[<<s, "connect">>] = call[<<s, "connect">>]
    BY <1>2, <2>1
  <2>4. SocketIsSound(s)'
    BY <1>1, <1>2, <1>5, <2>1, <2>3
    DEF handleDisconnect, stopPresenceHeartbeat, HasUser, SocketIsSound, Recorded, StateTyped, sessions
  <2>5. \A d \in Calls : d[1] # s => call'[d] = call[d]
    BY <2>1
  <2> QED BY <1>1, <1>5, <2>2, <2>4, <2>5, OneSocketStep
          DEF handleDisconnect, stopPresenceHeartbeat, StateTyped, sessions
<1> QED BY <1>3, <1>4, <1>5

\* Heartbeats, activity, a session that lapses and a user who goes AFK.
LEMMA TouchStep ==
  ASSUME SocketsInv, NEW s \in Sockets,
         Heartbeat(s) \/ handlePresenceActivity(s) \/ Lapse(s) \/ GoAfk(s)
  PROVE  SocketsInv'
<1>1. SocketIsSound(s) /\ StateTyped
  BY DEF SocketsInv
<1>2. <<s, "connect">> \in Calls /\ <<s, "disconnect">> \in Calls /\ <<s, "touch">> \in Calls
  BY DEF Calls
<1>3. CASE Heartbeat(s) \/ handlePresenceActivity(s)
  <2>1. PICK active \in BOOLEAN : Record(<<s, "touch">>, Begun(active))
    BY <1>3 DEF Heartbeat, handlePresenceActivity
  <2>2. UNCHANGED <<stage, up, timers, wentAt, index, hash, lastState, failed>>
    BY <1>3 DEF Heartbeat, handlePresenceActivity, gateway, sessions
  <2>3. /\ call' \in [Calls -> CallRow]
        /\ \A d \in Calls : d # <<s, "touch">> => call'[d] = call[d]
    BY <1>1, <1>2, <2>1, RecordFacts, BegunFacts
  <2>4. StateTyped'
    BY <1>1, <2>2, <2>3 DEF StateTyped
  <2>5. SocketIsSound(s)'
    BY <1>1, <1>2, <2>2, <2>3 DEF SocketIsSound, Recorded
  <2>6. \A d \in Calls : d[1] # s => call'[d] = call[d]
    BY <2>3
  <2> QED BY <2>2, <2>4, <2>5, <2>6, OneSocketStep
<1>4. CASE Lapse(s)
  <2>1. /\ UNCHANGED <<stage, up, timers, wentAt, lastState, call, failed>>
        /\ index' = [index EXCEPT ![s] = "stale"] /\ hash' = [hash EXCEPT ![s] = "none"]
        /\ s \notin timers \/ failed # 0
        /\ call[<<s, "connect">>].at = "idle"
    BY <1>1, <1>4 DEF Lapse, gateway, Idle, StateTyped
  <2>2. StateTyped'
    BY <1>1, <2>1 DEF StateTyped
  <2>3. SocketIsSound(s)'
    BY <1>1, <1>2, <2>1, NoCallFacts DEF SocketIsSound, Recorded, StateTyped
  <2> QED BY <1>1, <2>1, <2>2, <2>3, OneSocketStep DEF StateTyped
<1>5. CASE GoAfk(s)
  <2>1. /\ UNCHANGED <<stage, up, timers, wentAt, index, lastState, call, failed>>
        /\ hash' = [hash EXCEPT ![s] = "idle"]
    BY <1>5 DEF GoAfk, gateway
  <2>2. StateTyped'
    BY <1>1, <2>1 DEF StateTyped
  <2>3. SocketIsSound(s)'
    BY <1>1, <2>1 DEF SocketIsSound, Recorded
  <2> QED BY <2>1, <2>2, <2>3, OneSocketStep
<1> QED BY <1>3, <1>4, <1>5

\* A step of a call: of its row, and of the session of its socket.
LEMMA CallStep ==
  ASSUME SocketsInv, NEW c \in Calls, NEW row \in CallRow, Record(c, row),
         call[c].at # "idle", UNCHANGED <<up, wentAt>>,
         failed' \in 0 .. MaxFailures, failed' = failed \/ failed' # 0,
         hash' \in [Sockets -> {"none", "active", "idle"}],
         lastState' \in States \cup {"none"},
         \/ UNCHANGED index
         \/ index' = [index EXCEPT ![c[1]] = Scored(c)],
         \/ row = NoCall /\ Return(c)
         \/ row.at \in Steps /\ UNCHANGED <<stage, timers>>,
         c[2] = "connect" /\ failed' = 0 /\ row.at \notin {"hash", "index"} =>
           call[c].at \notin {"hash", "index"} \/ index' = [index EXCEPT ![c[1]] = Scored(c)]
  PROVE  SocketsInv'
<1> DEFINE s == c[1]
<1>1. /\ c = <<s, c[2]>> /\ s \in Sockets /\ c[2] \in {"connect", "touch", "disconnect"}
      /\ <<s, "connect">> \in Calls /\ <<s, "disconnect">> \in Calls
  BY CallFacts DEF Calls
<1>2. StateTyped /\ SocketIsSound(s)
  BY <1>1 DEF SocketsInv
<1>3. /\ call' \in [Calls -> CallRow] /\ call'[c] = row
      /\ \A d \in Calls : d # c => call'[d] = call[d]
  BY <1>2, RecordFacts
<1>4. /\ stage' \in [Sockets -> {"new", "auth", "record", "done", "rejected"}]
      /\ timers' \subseteq Sockets
      /\ \A t \in Sockets \ {s} : stage'[t] = stage[t] /\ (t \in timers' <=> t \in timers)
  BY <1>1, <1>2 DEF Return, StateTyped
<1>5. /\ index' \in [Sockets -> {"none", "fresh", "stale"}]
      /\ \A t \in Sockets \ {s} : index'[t] = index[t]
  BY <1>1, <1>2 DEF Scored, StateTyped
<1>6. StateTyped'
  BY <1>2, <1>3, <1>4, <1>5 DEF StateTyped
<1>7. SocketIsSound(s)'
  <2>1. CASE c[2] = "connect"
    <3>1. /\ call'[<<s, "connect">>] = row /\ call'[<<s, "disconnect">>] = call[<<s, "disconnect">>]
          /\ stage[s] = "record" /\ call[<<s, "connect">>].at # "idle"
      BY <1>1, <1>2, <1>3, <2>1 DEF SocketIsSound
    <3>2. \/ row.at = "idle" /\ stage'[s] = "done" /\ s \in timers'
          \/ row.at \in Steps /\ stage'[s] = "record" /\ (s \in timers' <=> s \in timers)
      BY <1>1, <1>2, <2>1, <3>1, NoCallFacts DEF Return, StateTyped
    <3>3. failed' = 0 /\ s \in up /\ row.at \notin {"hash", "index"} => index'[s] = "fresh"
      <4>1. call[c].at \in Steps
        BY <1>2 DEF StateTyped, CallRow, NoCall
      <4>2. index' = [index EXCEPT ![s] = Scored(c)] => index'[s] = "fresh"
        BY <1>1, <1>2, <2>1 DEF Scored, StateTyped
      <4> QED BY <1>1, <1>2, <2>1, <3>1, <4>1, <4>2 DEF SocketIsSound, Recorded
    <3> QED BY <1>2, <3>1, <3>2, <3>3 DEF SocketIsSound, Recorded, Steps
  <2>2. CASE c[2] # "connect"
    <3>1. /\ call'[<<s, "connect">>] = call[<<s, "connect">>] /\ stage' = stage /\ timers' = timers
          /\ call'[<<s, "disconnect">>].at # "idle" => call[<<s, "disconnect">>].at # "idle"
      BY <1>1, <1>3, <2>2, NoCallFacts DEF Return
    <3>2. failed' = 0 /\ Recorded(s)' => index'[s] = "fresh"
      <4>1. CASE c[2] = "touch"
        BY <1>1, <1>2, <2>2, <3>1, <4>1 DEF SocketIsSound, Recorded, Scored, StateTyped
      <4>2. CASE c[2] = "disconnect"
        BY <1>1, <1>2, <4>2 DEF SocketIsSound, Recorded
      <4> QED BY <1>1, <2>2, <4>1, <4>2
    <3> QED BY <1>2, <3>1, <3>2 DEF SocketIsSound
  <2> QED BY <2>1, <2>2
<1>8. \A d \in Calls : d[1] # s => call'[d] = call[d]
  BY <1>3
<1> QED BY <1>1, <1>4, <1>5, <1>6, <1>7, <1>8, OneSocketStep

LEMMA GoOnStep ==
  ASSUME SocketsInv, NEW c \in Calls, GoOnWith(c)
  PROVE  SocketsInv'
<1>1. /\ StateTyped /\ c[1] \in Sockets
  BY CallFacts DEF SocketsInv
<1>2. call[c].at # "idle" /\ call[c] \in [at : Steps, active : BOOLEAN, live : SUBSET Sockets, state : States]
  <2>1. call[c].at # "idle"
    BY DEF GoOnWith, WriteHash, WriteIndex, ReadSessions, ReadHashes, ReadLastState,
           WriteLastState, Emit, At
  <2> QED BY <1>1, <2>1, NoCallFacts DEF StateTyped, CallRow
<1>3. \A at \in Steps : /\ [call[c] EXCEPT !.at = at] \in CallRow
                        /\ [call[c] EXCEPT !.at = at].at = at
  BY <1>2 DEF CallRow
<1>4. /\ hash \in [Sockets -> {"none", "active", "idle"}]
      /\ lastState \in States \cup {"none"} /\ call[c].state \in States
      /\ failed \in 0 .. MaxFailures
  BY <1>1, <1>2 DEF StateTyped
<1>5. CASE WriteHash(c)
  <2>1. hash' \in [Sockets -> {"none", "active", "idle"}]
    BY <1>1, <1>4, <1>5 DEF WriteHash
  <2> QED BY <1>2, <1>4, <1>5, <2>1, CallAtFacts, CallStep DEF WriteHash, gateway, Steps
<1>6. CASE WriteIndex(c)
  BY <1>2, <1>3, <1>4, <1>6, CallStep DEF WriteIndex, Others, MoveOn, gateway, Steps
<1>7. CASE ReadSessions(c)
  <2> DEFINE row == IF Fresh = {} THEN CallAt("get") ELSE [CallAt("hashes") EXCEPT !.live = Fresh]
  <2>1. Record(c, row) /\ call[c].at = "sessions"
        /\ UNCHANGED <<stage, up, timers, wentAt, index, hash, lastState, failed>>
    BY <1>7 DEF ReadSessions, At, gateway, sessions
  <2>2. Fresh \in SUBSET Sockets
    BY DEF Fresh
  <2>3. row \in CallRow /\ row.at \in {"get", "hashes"}
    BY <2>2 DEF CallAt, NoCall, CallRow, Steps, States
  <2> HIDE DEF row
  <2> QED BY <1>2, <1>4, <2>1, <2>3, CallStep DEF Steps
<1>8. CASE ReadHashes(c)
  <2> DEFINE state == IF \E s \in call[c].live : hash[s] = "active" THEN "ONLINE" ELSE "AFK"
             row == [CallAt("get") EXCEPT !.state = state]
  <2>1. Record(c, row) /\ call[c].at = "hashes"
        /\ UNCHANGED <<stage, up, timers, wentAt, index, hash, lastState, failed>>
    BY <1>8 DEF ReadHashes, At, gateway, sessions
  <2>2. state \in States
    BY DEF States
  <2> HIDE DEF state
  <2>3. row \in CallRow /\ row.at = "get"
    BY <2>2 DEF CallAt, NoCall, CallRow, Steps
  <2> HIDE DEF row
  <2> QED BY <1>2, <1>4, <2>1, <2>3, CallStep DEF Steps
<1>9. ASSUME Return(c), call[c].at \notin {"hash", "index"}, UNCHANGED <<up, wentAt, index, hash, failed>>,
             lastState' \in States \cup {"none"}
      PROVE  SocketsInv'
  <2>1. Record(c, NoCall)
    BY <1>9 DEF Return
  <2> QED BY <1>2, <1>4, <1>9, <2>1, NoCallFacts, CallStep
<1>10. CASE ReadLastState(c)
  <2>1. call[c].at = "get" /\ UNCHANGED <<up, wentAt, index, hash, lastState, failed>>
    BY <1>10 DEF ReadLastState, At, sessions
  <2>2. CASE Return(c)
    BY <1>4, <1>9, <2>1, <2>2
  <2>3. CASE MoveOn(c, "set") /\ UNCHANGED <<stage, timers>>
    BY <1>2, <1>3, <1>4, <2>1, <2>3, CallStep DEF MoveOn, Steps
  <2> QED BY <1>10, <2>2, <2>3 DEF ReadLastState
<1>11. CASE WriteLastState(c)
  <2>1. lastState' \in States \cup {"none"}
    BY <1>4, <1>11 DEF WriteLastState
  <2> QED BY <1>2, <1>3, <1>4, <1>11, <2>1, CallStep DEF WriteLastState, MoveOn, At, gateway, Steps
<1>12. CASE Emit(c)
  <2>1. lastState' \in States \cup {"none"}
    BY <1>4, <1>12 DEF Emit, sessions
  <2> QED BY <1>9, <1>12, <2>1 DEF Emit, At, sessions
<1> QED BY <1>5, <1>6, <1>7, <1>8, <1>10, <1>11, <1>12 DEF GoOnWith

LEMMA FailStep ==
  ASSUME SocketsInv, NEW c \in Calls, Fail(c)
  PROVE  SocketsInv'
<1>1. /\ StateTyped /\ c[1] \in Sockets
  BY CallFacts DEF SocketsInv
<1>2. call[c].at # "idle" /\ call[c] \in [at : Steps, active : BOOLEAN, live : SUBSET Sockets, state : States]
  <2>1. call[c].at # "idle"
    BY DEF Fail
  <2> QED BY <1>1, <2>1, NoCallFacts DEF StateTyped, CallRow
<1>3. /\ UNCHANGED <<up, wentAt, index, hash>> /\ failed' \in 0 .. MaxFailures /\ failed' # 0
  BY <1>1, PresenceAssumption DEF Fail, StateTyped
<1>4. /\ hash' \in [Sockets -> {"none", "active", "idle"}]
      /\ lastState' \in States \cup {"none"}
  BY <1>1, <1>2, <1>3 DEF Fail, StateTyped
<1>5. CASE Record(c, CallAt("sessions")) /\ UNCHANGED <<stage, timers>>
  BY <1>2, <1>3, <1>4, <1>5, CallAtFacts, CallStep DEF Steps
<1>6. CASE Record(c, CallAt("get")) /\ UNCHANGED <<stage, timers>>
  BY <1>2, <1>3, <1>4, <1>6, CallAtFacts, CallStep DEF Steps
<1>7. CASE Return(c)
  <2>1. Record(c, NoCall)
    BY <1>7 DEF Return
  <2> QED BY <1>2, <1>3, <1>4, <1>7, <2>1, NoCallFacts, CallStep
<1> QED BY <1>5, <1>6, <1>7 DEF Fail

LEMMA SocketsInvNext == SocketsInv /\ [PresenceNext]_presenceVars => SocketsInv'
<1> SUFFICES ASSUME SocketsInv, [PresenceNext]_presenceVars PROVE SocketsInv'
  OBVIOUS
<1>1. CASE UNCHANGED presenceVars
  BY <1>1 DEF SocketsInv, StateTyped, SocketIsSound, Recorded, presenceVars, gateway, sessions
<1>2. CASE PresenceNext
  BY <1>2, GatewayStep, TouchStep, GoOnStep, FailStep DEF PresenceNext
<1> QED BY <1>1, <1>2

LEMMA SocketsInvariance == PresenceSpec => []SocketsInv
BY SocketsInvInit, SocketsInvNext, PTL DEF PresenceSpec

OthersKeep ==
  \A c \in Calls :
    At(c, "sessions") /\ At(c, "get")' /\ failed' = 0 => \A s \in up : stage[s] # "done"

\* Only ReadSessions takes a call from the ZRANGEBYSCORE to an OFFLINE without
\* a failure, and it found no session.
LEMMA KeepsPresentStep == SocketsInv /\ [PresenceNext]_presenceVars => [OthersKeep]_presenceVars
<1> SUFFICES ASSUME SocketsInv, PresenceNext,
                    NEW c \in Calls, At(c, "sessions"), At(c, "get")', failed' = 0,
                    NEW s \in up, stage[s] = "done"
             PROVE  FALSE
  BY DEF OthersKeep
<1>1. StateTyped /\ s \in Sockets /\ SocketIsSound(s)
  BY DEF SocketsInv, StateTyped
<1>2. call[c].at = "sessions" /\ call'[c].at = "get"
  BY DEF At
<1>3. ASSUME NEW d \in Calls, NEW row \in CallRow, Record(d, row) PROVE d = c /\ row.at = "get"
  BY <1>1, <1>2, <1>3, RecordFacts
<1>4. ASSUME NEW t \in Sockets,
             \/ Connect(t) \/ Authenticated(t) \/ handleDisconnect(t)
             \/ Heartbeat(t) \/ handlePresenceActivity(t) \/ Lapse(t) \/ GoAfk(t)
      PROVE  FALSE
  <2>1. call' = call \/ \E d \in Calls, active \in BOOLEAN : Record(d, Begun(active))
    BY <1>4 DEF Connect, Authenticated, handleDisconnect, Heartbeat,
                handlePresenceActivity, Lapse, GoAfk, Calls
  <2>2. \A active \in BOOLEAN : Begun(active) \in CallRow /\ Begun(active).at = "hash"
    BY BegunFacts
  <2> QED BY <1>2, <1>3, <2>1, <2>2
<1>5. ASSUME NEW d \in Calls, Fail(d) PROVE FALSE
  BY <1>1, <1>5 DEF Fail, StateTyped
<1>6. ASSUME NEW d \in Calls, GoOnWith(d) PROVE FALSE
  <2>1. d = c
    BY <1>1, <1>2, <1>6
    DEF GoOnWith, WriteHash, WriteIndex, ReadSessions, ReadHashes, ReadLastState,
        WriteLastState, Emit, MoveOn, Return, Record, StateTyped
  <2>2. ReadSessions(c)
    BY <1>2, <1>6, <2>1
    DEF GoOnWith, WriteHash, WriteIndex, ReadHashes, ReadLastState, WriteLastState, Emit, At
  <2>3. failed = 0 /\ Fresh = {}
    <3>1. call'[c] = IF Fresh = {} THEN CallAt("get") ELSE [CallAt("hashes") EXCEPT !.live = Fresh]
      BY <1>1, <2>2 DEF ReadSessions, Record, StateTyped
    <3>2. call'[c].at = IF Fresh = {} THEN "get" ELSE "hashes"
      BY <3>1 DEF CallAt, NoCall
    <3> QED BY <1>2, <2>2, <3>2 DEF ReadSessions
  <2> QED BY <1>1, <2>3 DEF SocketIsSound, Recorded, Fresh
<1> QED BY <1>4, <1>5, <1>6 DEF PresenceNext

\* As long as some socket of the user is open and recorded, no reader finds
\* the user OFFLINE unless a Redis command failed, for any number of sockets and
\* whatever calls of theirs are in flight.
THEOREM AnOpenSocketIsPresence == PresenceSpec => OthersKeepUserPresent
<1>1. OthersKeepUserPresent <=> [][OthersKeep]_presenceVars
  BY DEF OthersKeepUserPresent, OthersKeep
<1> QED BY <1>1, SocketsInvariance, KeepsPresentStep, PTL DEF PresenceSpec

\* What is counted and not taken away: authentication adds a socket, open or
\* gone, and only the disconnection of a socket that has a user removes one.
Kept == {s \in Sockets : Counted(s) /\ (s \in up \/ wentAt[s] = "auth")}

LEMMA KeptStep ==
  ASSUME SocketsInv, CountIsExplained, PresenceNext
  PROVE  CountIsExplained'
<1>1. StateTyped /\ Kept \subseteq Sockets /\ IsFiniteSet(Kept) /\ count = Cardinality(Kept)
  <2>1. Kept \subseteq Sockets
    BY DEF Kept, SocketsInv, StateTyped
  <2> QED BY <2>1, PresenceAssumption, FS_Subset DEF SocketsInv, CountIsExplained, Kept
<1>2. count \in Nat
  BY <1>1, FS_CardinalityType
<1>3. CASE count' = count /\ Kept' = Kept
  BY <1>1, <1>3 DEF CountIsExplained, Kept
<1>4. ASSUME NEW s \in Sockets, Authenticated(s) PROVE CountIsExplained'
  <2>1. stage[s] = "auth" /\ (s \in up \/ wentAt[s] = "auth") /\ s \notin Kept
    BY <1>4 DEF SocketsInv, Authenticated, SocketIsSound, Kept, Counted
  <2>2. \/ Kept' = Kept /\ count' = count
        \/ Kept' = Kept \cup {s} /\ count' = count + 1
    BY <1>1, <1>4, <2>1 DEF Authenticated, Kept, Counted, StateTyped
  <2> QED BY <1>1, <1>3, <2>1, <2>2, FS_AddElement DEF CountIsExplained, Kept
<1>5. ASSUME NEW s \in Sockets, handleDisconnect(s) PROVE CountIsExplained'
  <2>1. CASE ~HasUser(s)
    <3>1. count' = count /\ Kept' = Kept
      BY <1>1, <1>5, <2>1 DEF handleDisconnect, Kept, HasUser, Counted, StateTyped
    <3> QED BY <1>3, <3>1
  <2>2. CASE HasUser(s)
    <3>1. s \in Kept /\ Kept' = Kept \ {s} /\ count' = IF count = 0 THEN 0 ELSE count - 1
      BY <1>1, <1>5, <2>2 DEF handleDisconnect, Kept, HasUser, Counted, StateTyped
    <3>2. Cardinality(Kept \ {s}) = Cardinality(Kept) - 1 /\ Cardinality(Kept) # 0
      BY <1>1, <3>1, FS_RemoveElement, FS_EmptySet
    <3> QED BY <1>1, <1>2, <3>1, <3>2 DEF CountIsExplained, Kept
  <2> QED BY <2>1, <2>2
<1>6. ASSUME NEW s \in Sockets, Connect(s) PROVE CountIsExplained'
  <2>1. count' = count /\ Kept' = Kept
    BY <1>1, <1>6 DEF Connect, Kept, Counted, StateTyped
  <2> QED BY <1>3, <2>1
<1>7. ASSUME NEW s \in Sockets,
             Heartbeat(s) \/ handlePresenceActivity(s) \/ Lapse(s) \/ GoAfk(s)
      PROVE  CountIsExplained'
  BY <1>3, <1>7 DEF Heartbeat, handlePresenceActivity, Lapse, GoAfk, gateway, Kept, Counted
<1>8. ASSUME NEW c \in Calls, GoOnWith(c) \/ Fail(c) PROVE CountIsExplained'
  <2>1. /\ up' = up /\ wentAt' = wentAt /\ count' = count /\ c[1] \in Sockets
        /\ stage' = stage \/ (Return(c) /\ stage' = [stage EXCEPT ![c[1]] = "done"])
    BY <1>8, CallFacts DEF GoOnWith, WriteHash, WriteIndex, ReadSessions, ReadHashes, ReadLastState,
           WriteLastState, Emit, Fail, Return, gateway
  <2>2. CASE stage' = stage
    BY <1>3, <2>1, <2>2 DEF Kept, Counted
  <2>3. CASE Return(c) /\ stage' # stage
    <3>1. c = <<c[1], "connect">> /\ call[c].at # "idle"
      BY <1>8, <2>3, CallFacts
      DEF Return, GoOnWith, WriteHash, WriteIndex, ReadSessions, ReadHashes, ReadLastState,
          WriteLastState, Emit, Fail, At
    <3>2. stage[c[1]] = "record"
      BY <2>1, <3>1 DEF SocketsInv, SocketIsSound
    <3>3. Kept' = Kept
      BY <1>1, <2>1, <2>3, <3>2 DEF Kept, HasUser, Counted, StateTyped
    <3> QED BY <1>3, <2>1, <3>3
  <2> QED BY <2>1, <2>2, <2>3
<1> QED BY <1>4, <1>5, <1>6, <1>7, <1>8 DEF PresenceNext

\* At every moment, for any number of sockets and wherever their clients go, the
\* process counts its live authenticated sockets and, for good, those whose
\* client went while it authenticated; it never counts too few.
THEOREM TheCountIsExplained == PresenceSpec => []GatewayIsConsistent
<1>1. PresenceInit => CountIsExplained
  BY FS_EmptySet DEF PresenceInit, CountIsExplained
<1>2. SocketsInv /\ CountIsExplained /\ [PresenceNext]_presenceVars => CountIsExplained'
  <2>1. CountIsExplained /\ UNCHANGED presenceVars => CountIsExplained'
    BY DEF CountIsExplained, Counted, presenceVars, gateway
  <2> QED BY <2>1, KeptStep
<1>3. SocketsInv /\ CountIsExplained => GatewayIsConsistent
  <2> SUFFICES ASSUME SocketsInv, CountIsExplained PROVE PresenceTypeOK
    BY DEF GatewayIsConsistent
  <2>1. Kept \subseteq Sockets
    BY DEF Kept, SocketsInv, StateTyped
  <2>2. count \in 0 .. Cardinality(Sockets)
    BY <2>1, PresenceAssumption, FS_Subset, FS_CardinalityType DEF CountIsExplained, Kept
  <2> QED BY <2>2 DEF SocketsInv, StateTyped, PresenceTypeOK, CallRow, Steps
<1> QED BY <1>1, <1>2, <1>3, SocketsInvariance, PTL DEF PresenceSpec

-----------------------------------------------------------------------------
(* The requests of the orchestrator.                                       *)

IsPoll(row) ==
  /\ row = [f \in {"at", "probe", "is"} |-> row[f]]
  /\ row.is = [d \in Dependencies |-> row.is[d]]

\* The probe that runs is the one in flight; a request that was told yes by a
\* dependency, or waits for it, has a reason.
PollIsSound(r) ==
  /\ IsPoll(poll[r])
  /\ poll[r].at \in {"waiting", "ok"} =>
       \A d \in Dependencies : poll[r].is[d] = "healthy" => d \in answered[r]
  /\ poll[r].at = "ok" => \A d \in Dependencies : poll[r].is[d] = "healthy"

ReadinessInv ==
  /\ query = [p \in Probes |-> query[p]]
  /\ poll = [r \in Polls |-> poll[r]] /\ answered = [r \in Polls |-> answered[r]]
  /\ Running \subseteq {probeInFlight}
  /\ probeInFlight # None => probeInFlight \in Running
  /\ \A r \in Polls : answered[r] \subseteq Dependencies /\ PollIsSound(r)

LEMMA ReadinessInvInit == ReadinessInit => ReadinessInv
<1> SUFFICES ASSUME ReadinessInit PROVE ReadinessInv
  OBVIOUS
<1>1. Running = {} /\ probeInFlight = None
  BY DEF ReadinessInit, Running
<1>2. ASSUME NEW r \in Polls PROVE PollIsSound(r)
  <2>1. poll[r] = NoPoll
    BY DEF ReadinessInit
  <2> QED BY <2>1 DEF NoPoll, PollIsSound, IsPoll
<1> QED BY <1>1, <1>2 DEF ReadinessInit, ReadinessInv

\* One probe at most starts, runs or ends.
LEMMA ProbesStep ==
  ASSUME ReadinessInv, ReadinessNext
  PROVE  /\ query' = [p \in Probes |-> query'[p]] /\ Running' \subseteq {probeInFlight'}
         /\ probeInFlight' # None => probeInFlight' \in Running'
<1>1. /\ query = [p \in Probes |-> query[p]] /\ Running \subseteq {probeInFlight} /\ None \notin Probes
      /\ probeInFlight # None => probeInFlight \in Running
  BY DEF ReadinessInv, None, Probes
<1>2. CASE UNCHANGED <<query, probeInFlight>>
  BY <1>1, <1>2 DEF Running
<1>3. ASSUME NEW r \in Polls, Evaluate(r), ~UNCHANGED <<query, probeInFlight>>
      PROVE  /\ query' = [p \in Probes |-> query'[p]] /\ Running' \subseteq {probeInFlight'}
             /\ probeInFlight' # None => probeInFlight' \in Running'
  <2>1. PICK p \in Probes : /\ query' = [query EXCEPT ![p] = "select"] /\ probeInFlight' = p
                            /\ probeInFlight = None
    BY <1>3 DEF Evaluate, MayStart
  <2>2. Running = {}
    BY <1>1, <2>1 DEF Running
  <2> QED BY <1>1, <2>1, <2>2 DEF Running
<1>4. ASSUME NEW p \in Probes, Selected(p)
      PROVE  /\ query' = [q \in Probes |-> query'[q]] /\ Running' \subseteq {probeInFlight'}
             /\ probeInFlight' # None => probeInFlight' \in Running'
  BY <1>1, <1>4 DEF Selected, Running
<1>5. ASSUME NEW p \in Probes, Installed(p) \/ ProbeFails(p)
      PROVE  /\ query' = [q \in Probes |-> query'[q]] /\ Running' \subseteq {probeInFlight'}
             /\ probeInFlight' # None => probeInFlight' \in Running'
  <2>1. PICK found \in {"healthy", "unhealthy"} : Settle(p, found)
    BY <1>5 DEF Installed, ProbeFails
  <2>2. probeInFlight = p
    BY <1>1, <1>5 DEF Installed, ProbeFails, Running
  <2>3. query' = [query EXCEPT ![p] = found] /\ probeInFlight' = None
    BY <2>1, <2>2 DEF Settle
  <2> QED BY <1>1, <2>2, <2>3 DEF Running
<1>6. ASSUME NEW r \in Polls, Serve(r) \/ \E c \in Connections : Pong(r, c) \/ PingFails(r, c)
      PROVE  UNCHANGED <<query, probeInFlight>>
  BY <1>6 DEF Serve, Ready, TimesOut, Pong, PingFails
<1> QED BY <1>2, <1>3, <1>4, <1>5, <1>6 DEF ReadinessNext

\* What one request learns leaves the others as they are.
LEMMA OnePollStep ==
  ASSUME ReadinessInv, NEW r \in Polls, NEW row, NEW news, IsPoll(row),
         poll' = [poll EXCEPT ![r] = row], answered' = [answered EXCEPT ![r] = news],
         news \subseteq Dependencies,
         row.at \in {"waiting", "ok"} => \A d \in Dependencies : row.is[d] = "healthy" => d \in news,
         row.at = "ok" => \A d \in Dependencies : row.is[d] = "healthy"
  PROVE  /\ poll' = [o \in Polls |-> poll'[o]] /\ answered' = [o \in Polls |-> answered'[o]]
         /\ \A o \in Polls : answered'[o] \subseteq Dependencies /\ PollIsSound(o)'
<1>1. /\ poll'[r] = row /\ answered'[r] = news
      /\ \A o \in Polls \ {r} : poll'[o] = poll[o] /\ answered'[o] = answered[o]
  BY DEF ReadinessInv
<1>2. /\ poll' = [o \in Polls |-> poll'[o]] /\ answered' = [o \in Polls |-> answered'[o]]
  BY DEF ReadinessInv
<1>3. PollIsSound(r)'
  BY <1>1 DEF PollIsSound
<1>4. ASSUME NEW o \in Polls, o # r PROVE PollIsSound(o)' /\ answered'[o] \subseteq Dependencies
  <2>1. PollIsSound(o) /\ answered[o] \subseteq Dependencies
    BY DEF ReadinessInv
  <2>2. poll'[o] = poll[o] /\ answered'[o] = answered[o]
    BY <1>1, <1>4
  <2> QED BY <2>1, <2>2 DEF PollIsSound
<1> QED BY <1>1, <1>2, <1>3, <1>4

LEMMA PollsStep ==
  ASSUME ReadinessInv, ReadinessNext
  PROVE  /\ poll' = [r \in Polls |-> poll'[r]] /\ answered' = [r \in Polls |-> answered'[r]]
         /\ \A r \in Polls : answered'[r] \subseteq Dependencies /\ PollIsSound(r)'
<1> DEFINE Goal ==
      /\ poll' = [r \in Polls |-> poll'[r]] /\ answered' = [r \in Polls |-> answered'[r]]
      /\ \A r \in Polls : answered'[r] \subseteq Dependencies /\ PollIsSound(r)'
<1>1. /\ poll = [r \in Polls |-> poll[r]] /\ answered = [r \in Polls |-> answered[r]]
      /\ \A r \in Polls : answered[r] \subseteq Dependencies /\ PollIsSound(r) /\ IsPoll(poll[r])
  BY DEF ReadinessInv, PollIsSound
<1>2. ASSUME UNCHANGED <<poll, answered>> PROVE Goal
  <2>1. \A r \in Polls : PollIsSound(r)'
    BY <1>1, <1>2 DEF PollIsSound
  <2> QED BY <1>1, <1>2, <2>1
<1>3. ASSUME NEW r \in Polls, Evaluate(r) PROVE Goal
  <2>1. PICK p : /\ Join(r, p) /\ ~Over(p) /\ answered' = [answered EXCEPT ![r] = {}]
    <3>1. CASE MayStart
      BY <1>3, <3>1 DEF Evaluate, Over
    <3>2. CASE ~MayStart
      BY <1>3, <3>2 DEF Evaluate, MayStart, Over, ReadinessInv, Running
    <3> QED BY <3>1, <3>2
  <2> DEFINE row == [Asked(p) EXCEPT !.is["database"] = "pending"]
  <2>2. poll' = [poll EXCEPT ![r] = row]
    BY <2>1 DEF Join
  <2>3. IsPoll(row) /\ row.at = "waiting" /\ \A d \in Dependencies : row.is[d] = "pending"
    BY DEF Asked, IsPoll, Dependencies
  <2> HIDE DEF row
  <2> QED BY <2>1, <2>2, <2>3, OnePollStep
<1>4. ASSUME NEW p \in Probes, NEW found \in {"healthy", "unhealthy"}, Settle(p, found) PROVE Goal
  <2>1. ASSUME NEW r \in Polls
        PROVE  /\ poll'[r] = IF Awaits(r, "database") /\ poll[r].probe = p
                              THEN [poll[r] EXCEPT !.is["database"] = found] ELSE poll[r]
               /\ answered'[r] =
                    IF Awaits(r, "database") /\ poll[r].probe = p /\ found = "healthy"
                    THEN answered[r] \cup {"database"} ELSE answered[r]
    BY <1>4 DEF Settle
  <2>2. poll' = [r \in Polls |-> poll'[r]] /\ answered' = [r \in Polls |-> answered'[r]]
    BY <1>4 DEF Settle
  <2>3. ASSUME NEW r \in Polls PROVE answered'[r] \subseteq Dependencies /\ PollIsSound(r)'
    <3>1. CASE Awaits(r, "database") /\ poll[r].probe = p
      <4> DEFINE row == [poll[r] EXCEPT !.is["database"] = found]
      <4>1. /\ IsPoll(row) /\ row.at = "waiting" /\ row.is["database"] = found
            /\ \A d \in Dependencies \ {"database"} : row.is[d] = poll[r].is[d]
        <5>1. "database" \in Dependencies
          BY DEF Dependencies
        <5> QED BY <1>1, <3>1, <5>1 DEF IsPoll, Awaits
      <4>2. poll'[r] = row /\ poll[r].at = "waiting"
        BY <2>1, <3>1 DEF Awaits
      <4> HIDE DEF row
      <4>3. answered'[r] \subseteq Dependencies
        BY <1>1, <2>1 DEF Dependencies
      <4>4. \A d \in Dependencies : row.is[d] = "healthy" => d \in answered'[r]
        BY <1>1, <2>1, <3>1, <4>1, <4>2 DEF PollIsSound
      <4> QED BY <4>1, <4>2, <4>3, <4>4 DEF PollIsSound
    <3>2. CASE ~(Awaits(r, "database") /\ poll[r].probe = p)
      <4>1. poll'[r] = poll[r] /\ answered'[r] = answered[r]
        BY <2>1, <3>2
      <4> QED BY <1>1, <4>1 DEF PollIsSound
    <3> QED BY <3>1, <3>2
  <2> QED BY <2>2, <2>3
<1>5. ASSUME NEW r \in Polls, NEW d \in Dependencies, NEW found \in {"healthy", "unhealthy"},
             NEW news \in SUBSET Dependencies, Awaits(r, d), Learn(r, d, found),
             answered' = [answered EXCEPT ![r] = news], answered[r] \subseteq news,
             found = "healthy" => d \in news
      PROVE  Goal
  <2> DEFINE row == [poll[r] EXCEPT !.is[d] = found]
  <2>1. poll' = [poll EXCEPT ![r] = row]
    BY <1>1, <1>5 DEF Learn
  <2>2. /\ IsPoll(row) /\ row.at = "waiting" /\ row.is[d] = found
        /\ \A e \in Dependencies \ {d} : row.is[e] = poll[r].is[e]
    BY <1>1, <1>5 DEF IsPoll, Awaits
  <2> HIDE DEF row
  <2>3. \A e \in Dependencies : row.is[e] = "healthy" => e \in news
    BY <1>1, <1>5, <2>2 DEF PollIsSound, Awaits
  <2> QED BY <1>5, <2>1, <2>2, <2>3, OnePollStep
<1>6. ASSUME NEW r \in Polls, Ready(r) PROVE Goal
  <2> DEFINE at == IF \A d \in Dependencies : poll[r].is[d] = "healthy" THEN "ok" ELSE "error"
             row == [poll[r] EXCEPT !.at = at]
  <2>1. poll' = [poll EXCEPT ![r] = row] /\ answered' = [answered EXCEPT ![r] = answered[r]]
    BY <1>1, <1>6 DEF Ready
  <2>2. IsPoll(row) /\ row.at = at /\ row.is = poll[r].is
    BY <1>1 DEF IsPoll
  <2> HIDE DEF row
  <2>3. poll[r].at = "waiting"
    BY <1>6 DEF Ready
  <2>4. \A d \in Dependencies : poll[r].is[d] = "healthy" => d \in answered[r]
    BY <1>1, <2>3 DEF PollIsSound
  <2> QED BY <1>1, <2>1, <2>2, <2>4, OnePollStep
<1>7. ASSUME NEW r \in Polls, NEW c \in Connections, Pong(r, c) PROVE Goal
  <2>1. c \in Dependencies
    BY DEF Connections, Dependencies
  <2>2. PICK news : news = answered[r] \cup {c}
    OBVIOUS
  <2>3. /\ news \in SUBSET Dependencies /\ answered' = [answered EXCEPT ![r] = news]
        /\ Awaits(r, c) /\ Learn(r, c, "healthy")
    BY <1>1, <1>7, <2>1, <2>2 DEF Pong
  <2> QED BY <1>5, <2>1, <2>2, <2>3
<1>8. ASSUME NEW r \in Polls, NEW d \in Dependencies, TimesOut(r, d) \/ PingFails(r, d) PROVE Goal
  <2>1. answered' = [answered EXCEPT ![r] = answered[r]]
    BY <1>1, <1>8 DEF TimesOut, PingFails
  <2> QED BY <1>1, <1>5, <1>8, <2>1 DEF TimesOut, PingFails
<1>9. Connections \subseteq Dependencies
  BY DEF Connections, Dependencies
<1>10. CASE \E p \in Probes : Selected(p) \/ Installed(p) \/ ProbeFails(p)
  BY <1>2, <1>4, <1>10 DEF Selected, Installed, ProbeFails
<1>11. CASE \E r \in Polls : \/ Evaluate(r) \/ Serve(r)
                             \/ \E c \in Connections : Pong(r, c) \/ PingFails(r, c)
  BY <1>3, <1>6, <1>7, <1>8, <1>9, <1>11 DEF Serve
<1> QED BY <1>10, <1>11 DEF ReadinessNext

LEMMA ReadinessInvNext == ReadinessInv /\ [ReadinessNext]_readinessVars => ReadinessInv'
<1> SUFFICES ASSUME ReadinessInv, [ReadinessNext]_readinessVars PROVE ReadinessInv'
  OBVIOUS
<1>1. CASE ReadinessNext
  BY <1>1, ProbesStep, PollsStep DEF ReadinessInv
<1>2. CASE UNCHANGED readinessVars
  BY <1>2 DEF readinessVars, ReadinessInv, Running, PollIsSound
<1> QED BY <1>1, <1>2

\* However many requests come and whatever hangs, one query of the pool is
\* enough for them, and a yes rests on answers that are younger than the request:
\* the safety half of ReadinessIsHonest.
THEOREM ProbesAreSharedAndFresh == ReadinessSpec => [](OneProbeAtATime /\ YesMeansNow)
<1>1. ReadinessInv => OneProbeAtATime
  <2> SUFFICES ASSUME ReadinessInv PROVE OneProbeAtATime
    OBVIOUS
  <2>1. Running \subseteq {probeInFlight}
    BY DEF ReadinessInv
  <2>2. IsFiniteSet({probeInFlight}) /\ Cardinality({probeInFlight}) = 1
    BY FS_Singleton
  <2>3. Cardinality(Running) <= 1
    BY <2>1, <2>2, FS_Subset
  <2> QED BY <2>3 DEF OneProbeAtATime
<1>2. ReadinessInv => YesMeansNow
  BY DEF ReadinessInv, PollIsSound, YesMeansNow
<1> QED BY <1>1, <1>2, ReadinessInvInit, ReadinessInvNext, PTL DEF ReadinessSpec
==============================================================================
