SPECIFICATION FairSpec
CONSTANTS
  Producers = {p1}
  Consumers = {c1}
  Elements = {a, b, d, e}
  Uninit = uninit
  Torn = torn
  Capacity = 2
  Calls = {"push", "pop", "try_push", "try_pop"}
  TotalOrder = FALSE
  SPSC = TRUE
  OverflowChecks = TRUE
INVARIANTS
  NoRace
  SpscInv
  EachOnce
PROPERTIES
  ImplementsFifo
  EveryPairServed
CHECK_DEADLOCK FALSE
