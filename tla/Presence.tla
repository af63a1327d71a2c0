------------------------------ MODULE Presence ------------------------------
(***************************************************************************)
(* The presence of one user with several sockets: the gateway's handling of*)
(* a connection, its heartbeat timers and its connection count, and the    *)
(* session records in Redis the aggregate state is computed from.          *)
(*                                                                         *)
(* Every Redis command is a step of its own: connections, disconnections,  *)
(* heartbeats and activity of the sockets (of one or several processes)    *)
(* interleave between them, and a client may go at any of them.            *)
(* client.join is in memory (the adapter's addAll answers at once): nothing*)
(* comes between the user's ids, the room and the count.                   *)
(***************************************************************************)
EXTENDS Naturals, FiniteSets

CONSTANTS
  Sockets,      \* connections, each with its own sessionId
  MaxFailures,  \* bound: Redis commands that fail
  MaxTouches    \* bound: heartbeats and activities in flight at a time

ASSUME PresenceAssumption ==
  IsFiniteSet(Sockets) /\ MaxFailures \in Nat /\ MaxTouches \in Nat

VARIABLES
  stage,      \* how far handleConnection is with each socket
  up,         \* sockets whose transport is connected
  timers,     \* presenceHeartbeatTimers
  count,      \* ConnectionTracker.count
  index,      \* presence:sessions: scores within or beyond the heartbeat TTL
  hash,       \* presence:session hashes: with recent activity or without
  lastState,  \* presence:laststate
  call,       \* the record... calls in flight
  failed,
  wentAt      \* history: how far handleConnection was when the client went

presenceVars ==
  <<stage, up, timers, count, index, hash, lastState, call, failed, wentAt>>

gateway == <<stage, up, timers, count, wentAt>>
sessions == <<index, hash, lastState>>

States == {"ONLINE", "AFK", "OFFLINE"}

\* A socket has at most one call of each kind in flight; "touch" is a
\* heartbeat or an activity.
Calls == Sockets \X {"connect", "touch", "disconnect"}

NoCall == [at |-> "idle", active |-> FALSE, live |-> {}, state |-> "OFFLINE"]

Idle(c) == call[c].at = "idle"
At(c, at) == call[c].at = at

\* A call goes on with what it still needs.
Begun(active) == [NoCall EXCEPT !.at = "hash", !.active = active]
CallAt(at) == [NoCall EXCEPT !.at = at]

Record(c, row) == call' = [call EXCEPT ![c] = row]
MoveOn(c, at) == Record(c, [call[c] EXCEPT !.at = at])

\* handleConnection goes on when its presence call returns: it starts the
\* heartbeat, whatever became of the socket in the meantime.
Return(c) ==
  /\ Record(c, NoCall)
  /\ IF c[2] = "connect"
     THEN stage' = [stage EXCEPT ![c[1]] = "done"] /\ timers' = timers \cup {c[1]}
     ELSE UNCHANGED <<stage, timers>>

-----------------------------------------------------------------------------
(* The gateway.                                                            *)

Connect(s) ==
  /\ stage[s] = "new"
  /\ stage' = [stage EXCEPT ![s] = "auth"]
  /\ up' = up \cup {s}
  /\ UNCHANGED <<timers, count, sessions, call, failed, wentAt>>

\* authenticate() answers: the user's ids are set, the room is joined, the
\* socket counted and its connection recorded, whether or not the client is
\* still there; or it is disconnected, which is reported before disconnect
\* returns and finds no user.
Authenticated(s) ==
  /\ stage[s] = "auth"
  /\ \/ /\ stage' = [stage EXCEPT ![s] = "record"]
        /\ count' = count + 1
        /\ Record(<<s, "connect">>, Begun(TRUE))
        /\ UNCHANGED up
     \/ /\ stage' = [stage EXCEPT ![s] = "rejected"]
        /\ up' = up \ {s}
        /\ UNCHANGED <<count, call>>
  /\ UNCHANGED <<timers, sessions, failed, wentAt>>

\* Mutant: every socket that goes was counted.
HasUser_Any(s) == TRUE

\* client.data.userId is set.
HasUser(s) == stage[s] \in {"record", "done"}

\* Mutant: the timer is left running.
stopPresenceHeartbeat_Left(s) == timers

stopPresenceHeartbeat(s) == timers \ {s}

\* The client goes, at any time: handleDisconnect.
handleDisconnect(s) ==
  /\ s \in up
  /\ up' = up \ {s}
  /\ wentAt' = [wentAt EXCEPT ![s] = stage[s]]
  /\ timers' = stopPresenceHeartbeat(s)
  /\ IF HasUser(s)
     THEN /\ count' = IF count = 0 THEN 0 ELSE count - 1
          /\ Record(<<s, "disconnect">>, Begun(FALSE))
     ELSE UNCHANGED <<count, call>>
  /\ UNCHANGED <<stage, sessions, failed>>

MayTouch(s) ==
  /\ Idle(<<s, "touch">>)
  /\ Cardinality({t \in Sockets : ~Idle(<<t, "touch">>)}) < MaxTouches

Heartbeat(s) ==
  /\ s \in timers /\ MayTouch(s)
  /\ Record(<<s, "touch">>, Begun(FALSE))
  /\ UNCHANGED <<gateway, sessions, failed>>

handlePresenceActivity(s) ==
  /\ s \in up /\ HasUser(s) /\ MayTouch(s)
  /\ Record(<<s, "touch">>, Begun(TRUE))
  /\ UNCHANGED <<gateway, sessions, failed>>

-----------------------------------------------------------------------------
(* PresenceService.                                                        *)

\* HSET and EXPIRE, or DEL.  A heartbeat leaves the activity as it is.
WriteHash(c) ==
  /\ At(c, "hash")
  /\ hash' = [hash EXCEPT ![c[1]] =
       IF c[2] = "disconnect" THEN "none"
       ELSE IF call[c].active THEN "active"
       ELSE IF @ = "none" THEN "idle" ELSE @]
  /\ Record(c, CallAt("index"))
  /\ UNCHANGED <<gateway, index, lastState, failed>>

\* Mutant: ZREM of all the user's sessions.
Others_Removed(c) == IF c[2] = "disconnect" THEN [s \in Sockets |-> "none"] ELSE index

Others(c) == index

\* ZADD, or ZREM.
Scored(c) == IF c[2] = "disconnect" THEN "none" ELSE "fresh"

WriteIndex(c) ==
  /\ At(c, "index")
  /\ index' = [Others(c) EXCEPT ![c[1]] = Scored(c)]
  /\ MoveOn(c, "sessions")
  /\ UNCHANGED <<gateway, hash, lastState, failed>>

Fresh == {s \in Sockets : index[s] = "fresh"}

\* ZRANGEBYSCORE.
ReadSessions(c) ==
  /\ At(c, "sessions")
  /\ Record(c, IF Fresh = {} THEN CallAt("get") ELSE [CallAt("hashes") EXCEPT !.live = Fresh])
  /\ UNCHANGED <<gateway, sessions, failed>>

\* The loop of HGETs.
ReadHashes(c) ==
  /\ At(c, "hashes")
  /\ Record(c, [CallAt("get") EXCEPT
       !.state = IF \E s \in call[c].live : hash[s] = "active" THEN "ONLINE" ELSE "AFK"])
  /\ UNCHANGED <<gateway, sessions, failed>>

ReadLastState(c) ==
  /\ At(c, "get")
  /\ IF lastState = call[c].state
     THEN Return(c)
     ELSE MoveOn(c, "set") /\ UNCHANGED <<stage, timers>>
  /\ UNCHANGED <<up, count, sessions, failed, wentAt>>

WriteLastState(c) ==
  /\ At(c, "set")
  /\ lastState' = call[c].state
  /\ MoveOn(c, "emit")
  /\ UNCHANGED <<gateway, index, hash, failed>>

\* presence:update goes to the room of the user: no state of ours.
Emit(c) ==
  /\ At(c, "emit")
  /\ Return(c)
  /\ UNCHANGED <<up, count, sessions, failed, wentAt>>

\* A Redis command fails, with or without effect: writes of the session are
\* given up, the state is taken to be OFFLINE, an uncertain change is not told.
Fail(c) ==
  /\ failed < MaxFailures
  /\ failed' = failed + 1
  /\ \/ /\ call[c].at \in {"hash", "index"}
        /\ Record(c, CallAt("sessions"))
        /\ UNCHANGED <<stage, timers, lastState>>
     \/ /\ call[c].at \in {"sessions", "hashes"}
        /\ Record(c, CallAt("get"))
        /\ UNCHANGED <<stage, timers, lastState>>
     \/ /\ call[c].at \in {"get", "set"}
        /\ lastState' \in {lastState} \cup IF At(c, "set") THEN {call[c].state} ELSE {}
        /\ Return(c)
  /\ UNCHANGED <<up, count, index, hash, wentAt>>

\* 45 seconds without a heartbeat: the score is too old and the hash expired.
\* A call does not take that long, and a running timer renews the score in
\* time unless its command failed.
Lapse(s) ==
  /\ index[s] = "fresh"
  /\ \A kind \in {"connect", "touch"} : Idle(<<s, kind>>)
  /\ s \notin timers \/ failed > 0
  /\ index' = [index EXCEPT ![s] = "stale"]
  /\ hash' = [hash EXCEPT ![s] = "none"]
  /\ UNCHANGED <<gateway, lastState, call, failed>>

\* Five minutes without activity.
GoAfk(s) ==
  /\ hash[s] = "active"
  /\ hash' = [hash EXCEPT ![s] = "idle"]
  /\ UNCHANGED <<gateway, index, lastState, call, failed>>

-----------------------------------------------------------------------------
PresenceInit ==
  /\ stage = [s \in Sockets |-> "new"]
  /\ up = {} /\ timers = {} /\ count = 0
  /\ index = [s \in Sockets |-> "none"]
  /\ hash = [s \in Sockets |-> "none"]
  /\ lastState = "none"
  /\ call = [c \in Calls |-> NoCall]
  /\ failed = 0
  /\ wentAt = [s \in Sockets |-> "new"]

GoOnWith(c) ==
  \/ WriteHash(c) \/ WriteIndex(c) \/ ReadSessions(c) \/ ReadHashes(c)
  \/ ReadLastState(c) \/ WriteLastState(c) \/ Emit(c)

PresenceNext ==
  \/ \E s \in Sockets :
       \/ Connect(s) \/ Authenticated(s) \/ handleDisconnect(s)
       \/ Heartbeat(s) \/ handlePresenceActivity(s) \/ Lapse(s) \/ GoAfk(s)
  \/ \E c \in Calls : GoOnWith(c) \/ Fail(c)

PresenceSpec == PresenceInit /\ [][PresenceNext]_presenceVars

\* Calls go on, timers fire, and scores age.
PresenceLiveSpec ==
  /\ PresenceSpec
  /\ \A c \in Calls : WF_presenceVars(GoOnWith(c))
  /\ \A s \in Sockets : WF_presenceVars(Authenticated(s)) /\ WF_presenceVars(Heartbeat(s)) /\ WF_presenceVars(Lapse(s))

-----------------------------------------------------------------------------
(* Properties.                                                             *)

\* The types of the gateway's and of Redis's state.
PresenceTypeOK ==
  /\ stage \in [Sockets -> {"new", "auth", "record", "done", "rejected"}]
  /\ wentAt \in [Sockets -> {"new", "auth", "record", "done"}]
  /\ up \subseteq Sockets /\ timers \subseteq Sockets
  /\ count \in 0 .. Cardinality(Sockets)
  /\ index \in [Sockets -> {"none", "fresh", "stale"}]
  /\ hash \in [Sockets -> {"none", "active", "idle"}]
  /\ lastState \in States \cup {"none"}
  /\ call \in [Calls -> {NoCall} \cup
       [at : {"hash", "index", "sessions", "hashes", "get", "set", "emit"},
        active : BOOLEAN, live : SUBSET Sockets, state : States]]
  /\ failed \in 0 .. MaxFailures

\* Authentication has succeeded and the socket was counted.
Counted(s) == stage[s] \in {"record", "done"}

\* The count is never below the live authenticated sockets, and above them by
\* exactly the sockets whose client went while it authenticated: their
\* handleDisconnect found no user, and what was added later stays.
CountIsExplained ==
  count = Cardinality({s \in Sockets : Counted(s) /\ (s \in up \/ wentAt[s] = "auth")})

\* The state of the gateway and of Redis, and the connections it counts.
GatewayIsConsistent == PresenceTypeOK /\ CountIsExplained

\* As long as some socket of the user is open nobody finds the user OFFLINE:
\* another socket that goes, or a late heartbeat of one that went, takes no
\* session but its own with it.
OthersKeepUserPresent ==
  [][\A c \in Calls :
       At(c, "sessions") /\ At(c, "get")' /\ failed' = 0 =>
         \A s \in up : stage[s] # "done"]_presenceVars

\* "One heartbeat timer per currently-connected socket", and a "count of
\* currently-authenticated live sockets": when no connection is being set up and
\* no call is in flight, neither timer nor count is left of a socket that went.
NothingOutlivesItsSocket ==
  (\A s \in Sockets : stage[s] \notin {"auth", "record"}) /\ (\A c \in Calls : Idle(c)) =>
    /\ timers \subseteq up
    /\ count = Cardinality({s \in up : Counted(s)})

\* A session whose client went once handleConnection was done is eventually
\* gone for good for every reader, whatever heartbeat or command of it was in
\* flight.  Not so one whose client went earlier: NothingOutlivesItsSocket
\* is violated there, and the timer renews the session of a user who is gone.
GoneMeansOffline == \A s \in Sockets : wentAt[s] = "done" ~> [](index[s] # "fresh")

\* "A connected socket alone is enough to keep a session's TTL alive": an open
\* socket's session is found again after every failed Redis command.
OpenMeansPresent ==
  \A s \in Sockets : stage[s] = "done" ~> index[s] = "fresh" \/ s \notin up

\* Whatever fails, Redis comes to agree with the sockets.
PresenceSettles == GoneMeansOffline /\ OpenMeansPresent
=============================================================================
