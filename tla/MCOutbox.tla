------------------------------ MODULE MCOutbox ------------------------------
(* Instances of Outbox for TLC. *)
EXTENDS Outbox, TLC

\* Rows, relays and worker slots are interchangeable in the safety runs.
OutboxSymmetry ==
  Permutations(Keys) \cup Permutations(Relays) \cup Permutations(Workers)
=============================================================================
