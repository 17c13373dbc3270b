CONSTANTS
  Tenants <- MCTenants
  Endpoints <- MCEndpoints
  Configs <- MCConfigs
  NoConfig = NoConfig
  NoLimiter = NoLimiter
  MaxHandled = 3
SPECIFICATION Spec
CHECK_DEADLOCK FALSE
INVARIANTS LimitersFit CapacityHolds MetricsBalance
PROPERTIES RefusedForOwnSpending
