SPECIFICATION SuspendingSpec
CONSTANTS
  Producers = {p1, p2}
  Consumers = {c1, c2}
  Suspended = {p2}
  Elements = {a, b, d, zero}
  Zero = zero
  Capacity = 2
  Calls = {"push", "pop", "try_push", "try_pop"}
  OverflowChecks = FALSE
INVARIANTS
  SoleClaim
  InOrderUntilLapped
  KeptUntilLapped
  InOrderWithinCapacity
  IInv
PROPERTIES
  RefusedPushMeansFull
  RefusedPopMeansEmpty
  EveryServedUntilLapped
CHECK_DEADLOCK FALSE
