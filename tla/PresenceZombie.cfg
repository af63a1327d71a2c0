SPECIFICATION PresenceSpec
CONSTANTS
  Sockets = {s1}
  MaxFailures = 0
  MaxTouches = 1
INVARIANTS
  NothingOutlivesItsSocket
CHECK_DEADLOCK FALSE
