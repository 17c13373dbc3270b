CONSTANTS
  Keys = {k1}
  Capacity = 2
  RefillRate = 2
  TicksPerSecond = 3
  Requests = {1, 2, 3}
  MaxTime = 12
SPECIFICATION Spec
INVARIANTS BurstBound RetryHonoured
PROPERTIES ImplementsIdealBucket ImplementsAllowance
CHECK_DEADLOCK FALSE
