------------------------------ MODULE Readiness ------------------------------
(***************************************************************************)
(* GET health/ready: ReadinessService runs the checks of PostgreSQL and of *)
(* the two Redis connections at once.  Requests share the probe of         *)
(* PostgreSQL that is under way; each waits for it, and for its own pings, *)
(* no longer than dependencyCheckTimeoutMs.  A query may never be answered *)
(* and is not cancelled by the one who stops waiting for it.               *)
(***************************************************************************)
EXTENDS Naturals, FiniteSets

CONSTANTS
  Polls,     \* requests of the orchestrator being served at a time
  MaxProbes  \* bound: probes of PostgreSQL started

ASSUME ReadinessAssumption == MaxProbes \in Nat

VARIABLES
  query,         \* per probe: the query it awaits, or what it found
  probeInFlight, \* DatabaseReadinessCheck.probeInFlight
  poll,          \* per request: what it knows of each dependency
  answered       \* history, per request: who answered well since it began

readinessVars == <<query, probeInFlight, poll, answered>>

Probes == 1 .. MaxProbes
None == 0

Dependencies == {"database", "queue", "cache"}
Connections == {"queue", "cache"}

\* A request knows nothing at first.
Asked(p) == [at |-> "waiting", probe |-> p, is |-> [d \in Dependencies |-> "pending"]]
NoPoll == [at |-> "none", probe |-> None, is |-> [d \in Dependencies |-> "pending"]]

Awaits(r, d) == poll[r].at = "waiting" /\ poll[r].is[d] = "pending"

Running == {p \in Probes : query[p] \in {"select", "postgis"}}
Over(p) == query[p] \in {"healthy", "unhealthy"}

-----------------------------------------------------------------------------
\* Mutant: every request starts a probe of its own.
MayStart_Always == TRUE

\* if (!this.probeInFlight)
MayStart == probeInFlight = None

\* The request joins the probe and waits for it, with what it found if it is
\* over already.
Join(r, p) ==
  poll' = [poll EXCEPT ![r] =
    [Asked(p) EXCEPT !.is["database"] = IF Over(p) THEN query[p] ELSE "pending"]]

\* evaluate(): all checks start in the same turn of the event loop.
Evaluate(r) ==
  /\ poll[r].at # "waiting"
  /\ answered' = [answered EXCEPT ![r] = {}]
  /\ IF MayStart
     THEN \E p \in Probes :
            /\ query[p] = "none" /\ \A o \in Probes : o < p => query[o] # "none"
            /\ query' = [query EXCEPT ![p] = "select"]
            /\ probeInFlight' = p
            /\ Join(r, p)
     ELSE /\ Join(r, probeInFlight)
          /\ UNCHANGED <<query, probeInFlight>>

\* The probe is over: it is forgotten, if it still is the one in flight, and
\* whoever waits for it learns what it found.
Settle(p, found) ==
  LET waiting == {r \in Polls : Awaits(r, "database") /\ poll[r].probe = p}
  IN  /\ query' = [query EXCEPT ![p] = found]
      /\ probeInFlight' = IF probeInFlight = p THEN None ELSE probeInFlight
      /\ poll' = [r \in Polls |->
           IF r \in waiting THEN [poll[r] EXCEPT !.is["database"] = found] ELSE poll[r]]
      /\ answered' = [r \in Polls |->
           IF r \in waiting /\ found = "healthy" THEN answered[r] \cup {"database"} ELSE answered[r]]

\* SELECT 1 is answered, and the extension is asked for.
Selected(p) ==
  /\ query[p] = "select"
  /\ query' = [query EXCEPT ![p] = "postgis"]
  /\ UNCHANGED <<probeInFlight, poll, answered>>

\* postgis is installed.
Installed(p) == query[p] = "postgis" /\ Settle(p, "healthy")

\* A query fails, or postgis is missing.
ProbeFails(p) == query[p] \in {"select", "postgis"} /\ Settle(p, "unhealthy")

Learn(r, d, found) == poll' = [poll EXCEPT ![r].is[d] = found]

\* A Redis connection answers the ping.
Pong(r, c) ==
  /\ Awaits(r, c)
  /\ Learn(r, c, "healthy")
  /\ answered' = [answered EXCEPT ![r] = @ \cup {c}]
  /\ UNCHANGED <<query, probeInFlight>>

PingFails(r, c) ==
  /\ Awaits(r, c)
  /\ Learn(r, c, "unhealthy")
  /\ UNCHANGED <<query, probeInFlight, answered>>

\* withTimeout: nobody waits longer, and what was asked goes on.
TimesOut(r, d) ==
  /\ Awaits(r, d)
  /\ Learn(r, d, "unhealthy")
  /\ UNCHANGED <<query, probeInFlight, answered>>

\* 200 if every dependency is healthy, 503 otherwise.
Ready(r) ==
  /\ poll[r].at = "waiting"
  /\ \A d \in Dependencies : ~Awaits(r, d)
  /\ poll' = [poll EXCEPT ![r].at =
       IF \A d \in Dependencies : poll[r].is[d] = "healthy" THEN "ok" ELSE "error"]
  /\ UNCHANGED <<query, probeInFlight, answered>>

ReadinessInit ==
  /\ query = [p \in Probes |-> "none"]
  /\ probeInFlight = None
  /\ poll = [r \in Polls |-> NoPoll]
  /\ answered = [r \in Polls |-> {}]

\* What the process does for a request without any help from outside.
Serve(r) == Ready(r) \/ \E d \in Dependencies : TimesOut(r, d)

ReadinessNext ==
  \/ \E p \in Probes : Selected(p) \/ Installed(p) \/ ProbeFails(p)
  \/ \E r \in Polls :
       \/ Evaluate(r) \/ Serve(r)
       \/ \E c \in Connections : Pong(r, c) \/ PingFails(r, c)

\* Timers pass; PostgreSQL and Redis owe nothing.
ReadinessSpec ==
  /\ ReadinessInit /\ [][ReadinessNext]_readinessVars
  /\ \A r \in Polls : WF_readinessVars(Serve(r))

-----------------------------------------------------------------------------
(* Properties.                                                             *)

\* A dependency that hangs costs one query however often the orchestrator asks,
\* although nobody waits for it any more.
OneProbeAtATime == Cardinality(Running) <= 1

\* "Can this instance serve traffic right now?": a request told yes has heard,
\* since it began, from PostgreSQL and from both Redis connections; no answer
\* of an earlier probe stands in.
YesMeansNow == \A r \in Polls : poll[r].at = "ok" => answered[r] = Dependencies

\* The endpoint holds one query of the pool at most, its yes is fresh, and it
\* answers every request, whatever hangs.
ReadinessIsHonest ==
  /\ [](OneProbeAtATime /\ YesMeansNow)
  /\ \A r \in Polls : poll[r].at = "waiting" ~> poll[r].at \in {"ok", "error"}
=============================================================================
