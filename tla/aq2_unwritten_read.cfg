SPECIFICATION Spec
CONSTANTS
  Producers = {p1}
  Consumers = {c1}
  Elements = {a, b}
  Uninit = uninit
  Torn = torn
  Capacity = 2
  Calls = {"push", "pop"}
  TotalOrder = FALSE
  SPSC = FALSE
  OverflowChecks = FALSE
INVARIANT OnlyWritten
CHECK_DEADLOCK FALSE
