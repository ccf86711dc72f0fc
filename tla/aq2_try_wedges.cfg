SPECIFICATION FairSpec
CONSTANTS
  Producers = {p1, p2}
  Consumers = {c1, c2}
  Elements = {a, b}
  Uninit = uninit
  Torn = torn
  Capacity = 2
  Calls = {"try_push", "try_pop"}
  TotalOrder = FALSE
  SPSC = FALSE
  OverflowChecks = FALSE
PROPERTY BalancedCallsReturn
CHECK_DEADLOCK FALSE
