SPECIFICATION Spec
CONSTANTS
  Users = {u1, u2}
  Host = host
  NoUser = nobody
  Configs <- StallConfigs
  GuestCounts = {0}
  MaxRequests = 2
  MaxTime = 2
  RequestTtl = 1
  TxWait = 1
  CapacityLimit = 5
CHECK_DEADLOCK FALSE
SYMMETRY UserSymmetry
INVARIANTS RejoinIsNewest
