SPECIFICATION ProcessesSpec
CONSTANTS
  Sockets = {s1}
  MaxFailures = 2
  MaxTouches = 1
  Queues = {q1, q2}
  Jobs = {j1, j2}
  Concurrency = 2
  Polls = {r1, r2}
  MaxProbes = 3
INVARIANTS
  ShutdownSparesWork
PROPERTIES
  ShutdownEnds
  PresenceSettles
  ReadinessIsHonest
CHECK_DEADLOCK FALSE
