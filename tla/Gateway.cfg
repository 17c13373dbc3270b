CONSTANT Requests = {r1, r2}
SPECIFICATION FairSpec
CHECK_DEADLOCK FALSE
INVARIANTS SingleHead CountedOnce NoBackendLeft
PROPERTIES ImplementsExchange HandlerReturns ShutdownEnds
