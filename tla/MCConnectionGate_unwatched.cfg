\* Three requests, one at a time: a connection nobody uses, against the README.
SPECIFICATION Spec
CONSTANTS
  r1 = r1
  r2 = r2
  r3 = r3
  d1 = d1
  Requests <- ThreeRequests
  Closers <- None
  Diagrams <- None
  MaxConcurrency = 1
  IdleTimeout = TRUE
  ReconnectCloses = TRUE
  MaxLinks = 2
  MaxDrops = 0
CHECK_DEADLOCK FALSE
INVARIANTS IdleIsWatched
