SPECIFICATION Spec
CONSTANTS
  d1 = d1
  d2 = d2
  Candidates = {1, 2, 3}
  Clients = {d1, d2}
  Filters <- BothFilters
  Score <- Reversed
  Scenarios <- AllScenarios
  Limit = 1
  Cap = 2
  MaxBound = 2
CHECK_DEADLOCK FALSE
INVARIANTS
  PagesAreSound
  FreshAfterBump
  ClosedAreNotShown
