\* Two requests, one at a time: the watchdog against its test.
SPECIFICATION Spec
CONSTANTS
  r1 = r1
  r2 = r2
  r3 = r3
  d1 = d1
  Requests <- TwoRequests
  Closers <- None
  Diagrams <- None
  MaxConcurrency = 1
  IdleTimeout = TRUE
  ReconnectCloses = TRUE
  MaxLinks = 3
  MaxDrops = 0
CHECK_DEADLOCK FALSE
INVARIANTS NoExpiryWhileRunning
