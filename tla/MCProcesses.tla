---------------------------- MODULE MCProcesses -----------------------------
(***************************************************************************)
(* What a process must bring to an end, whatever hangs or fails: the       *)
(* sockets of Presence, the closing of Shutdown and the requests of        *)
(* Readiness, as one instance for TLC.  A behaviour picks a part, and only *)
(* that part's variables move.                                             *)
(***************************************************************************)
EXTENDS Presence, Shutdown, Readiness

VARIABLE part

processesVars == <<part, presenceVars, shutdownVars, readinessVars>>

\* Only the part that moves starts in each of its initial states.
ProcessesInit ==
  /\ part \in {"presence", "shutdown", "readiness"}
  /\ PresenceInit /\ ShutdownInit /\ ReadinessInit
  /\ part = "shutdown" \/ stopped

Only(p) ==
  /\ part = p /\ UNCHANGED part
  /\ p = "presence" \/ UNCHANGED presenceVars
  /\ p = "shutdown" \/ UNCHANGED shutdownVars
  /\ p = "readiness" \/ UNCHANGED readinessVars

ProcessesNext ==
  \/ Only("presence") /\ PresenceNext
  \/ Only("shutdown") /\ ShutdownNext
  \/ Only("readiness") /\ ReadinessNext

\* The fairness of PresenceLiveSpec, ShutdownSpec and ReadinessSpec, each for its part.
ProcessesSpec ==
  /\ ProcessesInit /\ [][ProcessesNext]_processesVars
  /\ \A c \in Calls : WF_processesVars(Only("presence") /\ GoOnWith(c))
  /\ \A s \in Sockets :
       /\ WF_processesVars(Only("presence") /\ Authenticated(s))
       /\ WF_processesVars(Only("presence") /\ Heartbeat(s))
       /\ WF_processesVars(Only("presence") /\ Lapse(s))
  /\ WF_processesVars(Only("shutdown") /\ GoOn)
  /\ \A w \in Queues : WF_processesVars(Only("shutdown") /\ Closing(w))
  /\ \A r \in Polls : WF_processesVars(Only("readiness") /\ Serve(r))
=============================================================================
