SPECIFICATION PresenceSpec
CONSTANTS
  Sockets = {s1, s2}
  MaxFailures = 1
  MaxTouches = 1
SYMMETRY PresenceSymmetry
CONSTRAINTS FailsAlone EarlyQuiet
INVARIANTS
  GatewayIsConsistent
PROPERTIES
  OthersKeepUserPresent
CHECK_DEADLOCK FALSE
