SPECIFICATION ObservedSpec
CONSTANTS
  Producers = {p, t}
  Consumers = {c, t}
  Observers = {t}
  Elements = {a, b, d}
  Zero = zero
  Capacity = 2
  Calls = {"try_push", "try_pop"}
  OverflowChecks = FALSE
SYMMETRY Symmetry
INVARIANTS
  NeverOverfull
  SolePopperNeverOverdraws
  OverdraftHeldUntilLapped
  InOrderUntilLapped
PROPERTIES
  NotFullMeansRoom
  NotEmptyMeansElement
  
CHECK_DEADLOCK FALSE
