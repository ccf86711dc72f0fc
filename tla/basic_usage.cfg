SPECIFICATION FairProgramSpec
CONSTANTS
  Producers = {p1, p2, main}
  Consumers = {c1, c2}
  Main = main
  WordSizes = {4, 8}
  N = 2
  Elements = {0, 1, 2}
  Zero = 0
  Capacity = 4
  Calls = {"push", "try_pop"}
  OverflowChecks = FALSE
INVARIANTS
  SumConservedUntilLapped
  TerminatorsLast
PROPERTY
  ConsumersEndUntilLapped
CHECK_DEADLOCK FALSE
