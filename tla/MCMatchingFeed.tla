--------------------------- MODULE MCMatchingFeed ---------------------------
(* Instances of MatchingFeed for TLC. *)
EXTENDS MatchingFeed, TLC

CONSTANTS d1, d2

\* No filter, and one that the first candidate does not pass.
NoFilter == Candidates
Filter == Candidates \ {1}
BothFilters == {NoFilter, Filter}

\* The exact order is the other way round than the order of the ids.
Reversed == [c \in Candidates |-> c]

\* One candidate ahead and a tie behind it, across the end of a batch.
Tie == [c \in Candidates |-> IF c = 1 THEN 2 ELSE 1]

\* One device that walks while Redis loses things and candidates move.
Alone ==
  [open |-> Candidates, bound |-> Tie, moving |-> Candidates, filters |-> {NoFilter},
   clients |-> {d1}, walkers |-> {d1},
   changes |-> 1, tokens |-> 3, snapshots |-> 3, failures |-> 1]

\* Two devices, one of which only ever asks for the first page.
Together ==
  [open |-> Candidates, bound |-> Tie, moving |-> {2}, filters |-> {NoFilter},
   clients |-> {d1, d2}, walkers |-> {d1},
   changes |-> 1, tokens |-> 2, snapshots |-> 2, failures |-> 0]

\* One device that changes its filters between pages; one candidate returns.
Choosy ==
  [open |-> {1, 2}, bound |-> Tie, moving |-> {3}, filters |-> BothFilters,
   clients |-> {d1}, walkers |-> {d1},
   changes |-> 1, tokens |-> 1, snapshots |-> 3, failures |-> 0]

AllScenarios == {Alone, Together, Choosy}
=============================================================================
