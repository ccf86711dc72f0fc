SPECIFICATION Spec
CONSTANTS
  Producers = {p1}
  Consumers = {c1}
  Suspended = {}
  Elements = {a, b, d}
  Zero = zero
  Capacity = 2
  Calls = {"try_push", "try_pop"}
  OverflowChecks = FALSE
INVARIANT NoElementLost
CHECK_DEADLOCK FALSE
