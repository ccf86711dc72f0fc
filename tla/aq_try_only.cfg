SPECIFICATION Spec
CONSTANTS
  Producers = {p1, p2}
  Consumers = {c1, c2}
  Suspended = {}
  Elements = {a, b, d, e}
  Zero = zero
  Capacity = 2
  Calls = {"try_push", "try_pop"}
  OverflowChecks = TRUE
SYMMETRY Symmetry
PROPERTY ClaimsImplementFifo
CHECK_DEADLOCK FALSE
