SPECIFICATION Spec
CONSTANTS
  Users = {u1, u2}
  Host = host
  NoUser = nobody
  Configs <- GroupConfigs
  GuestCounts = {0, 1}
  MaxRequests = 3
  MaxTime = 2
  RequestTtl = 1
  TxWait = 1
  CapacityLimit = 5
CONSTRAINT ThreeOnlyOnRejoin
SYMMETRY UserSymmetry
INVARIANTS
  GroupIsConsistent
  StatusTellsOccupancy
  DatabaseBackstopIdle
  OverridesExplainCapacity
  DetailIsHonest
PROPERTIES
  HistoryIsFinal
CHECK_DEADLOCK FALSE
