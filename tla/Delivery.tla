------------------------------ MODULE Delivery ------------------------------
(***************************************************************************)
(* What the outbox promises of a business action, without queue, relay or  *)
(* lease: an action that was committed is never forgotten, it is retired   *)
(* as done only after its effect was applied at least once, it is given up *)
(* only openly, as dead, and one of the two happens.  Nothing is promised  *)
(* about how often, or how late, the effect is applied.                    *)
(***************************************************************************)
EXTENDS FiniteSets

CONSTANT Keys   \* the logical actions, one dedupe_key each

VARIABLES
  state,        \* what PostgreSQL says of the action
  applied       \* the actions whose effect was applied

dvars == <<state, applied>>

States == {"absent", "committed", "done", "dead"}

DInit ==
  /\ state = [k \in Keys |-> "absent"]
  /\ applied = {}

Commit(k) ==
  /\ state[k] = "absent"
  /\ state' = [state EXCEPT ![k] = "committed"]
  /\ UNCHANGED applied

ApplyEffect(k) ==
  /\ state[k] # "absent"
  /\ applied' = applied \cup {k}
  /\ UNCHANGED state

Complete(k) ==
  /\ state[k] = "committed" /\ k \in applied
  /\ state' = [state EXCEPT ![k] = "done"]
  /\ UNCHANGED applied

\* One relay pass may give several actions up at once.
GiveUpMany(ks) ==
  /\ \A k \in ks : state[k] = "committed"
  /\ state' = [k \in Keys |-> IF k \in ks THEN "dead" ELSE state[k]]
  /\ UNCHANGED applied

DNext ==
  \/ \E k \in Keys : Commit(k) \/ ApplyEffect(k) \/ Complete(k)
  \/ \E ks \in SUBSET Keys : GiveUpMany(ks)

DSafety == DInit /\ [][DNext]_dvars

Retired(k) == state[k] \in {"done", "dead"}

\* Every committed action is retired in the end.
DLiveness == \A k \in Keys : state[k] = "committed" ~> Retired(k)

DSpec == DSafety /\ DLiveness
=============================================================================
