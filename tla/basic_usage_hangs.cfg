SPECIFICATION FairProgramSpec
CONSTANTS
  Producers = {p1, main}
  Consumers = {c1, c2}
  Main = main
  WordSizes = {4}
  N = 2
  Elements = {0, 1, 2}
  Zero = 0
  Capacity = 4
  Calls = {"push", "try_pop"}
  OverflowChecks = FALSE
PROPERTY AllJoined
CHECK_DEADLOCK FALSE
