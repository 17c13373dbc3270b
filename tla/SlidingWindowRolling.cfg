CONSTANTS
  Keys = {k1}
  WindowMs = 4
  MaxRequests = 3
  Requests = {1, 2}
  RoundsDown <- Exact
  RoundsUp <- Exact
  MaxTime = 17
SPECIFICATION Spec
INVARIANTS RollingLimit
CHECK_DEADLOCK FALSE
