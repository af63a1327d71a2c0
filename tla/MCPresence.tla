----------------------------- MODULE MCPresence -----------------------------
(* Instances of Presence for TLC. *)
EXTENDS Presence, TLC

\* No action or property tells sockets apart.
PresenceSymmetry == Permutations(Sockets)

\* A command fails before the other socket comes.
FailsAlone == failed = 0 \/ \E s \in Sockets : stage[s] = "new"

\* Once a client went early only connections and disconnections follow, of both
\* sockets: no heartbeat and no failed command.
EarlyQuiet ==
  \A s \in Sockets : wentAt[s] \in {"auth", "record"} =>
    failed = 0 /\ \A t \in Sockets : Idle(<<t, "touch">>)
=============================================================================
