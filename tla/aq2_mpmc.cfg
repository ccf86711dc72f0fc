SPECIFICATION RacingFairSpec
CONSTANTS
  Producers = {p1, p2}
  Consumers = {c1, c2}
  Elements = {a, b, d}
  Uninit = uninit
  Torn = torn
  Capacity = 2
  Calls = {"push", "pop", "try_push", "try_pop"}
  TotalOrder = TRUE
  SPSC = FALSE
  OverflowChecks = FALSE
INVARIANTS
  SlotsBalanced
  ClaimsApart
  EachOnceUntilRaced
  InTurnUntilCrowded
PROPERTY
  BalancedCallsReturn
CHECK_DEADLOCK FALSE
