CONSTANTS
  Keys = {k1}
  WindowMs = 4
  MaxRequests = 4
  Requests = {1, 2, 5}
  RoundsDown <- MixedDown
  RoundsUp <- MixedUp
  MaxTime = 17
SPECIFICATION Spec
INVARIANTS NeverOverdrawn RollingBound LongRunBound RetryHonoured
PROPERTIES ImplementsIdealWindow ImplementsAllowance
CHECK_DEADLOCK FALSE
