SPECIFICATION Spec
CONSTANTS
  Ping = ping
  Pong = pong
  Rounds = 5
  Uninit = uninit
  Torn = torn
  Capacity = 2
  TotalOrder = FALSE
  SPSC = FALSE
  OverflowChecks = FALSE
INVARIANTS
  OneInFlight
  PushNeverWaits
  PingPongInv
PROPERTY
  BothComplete
CHECK_DEADLOCK FALSE
