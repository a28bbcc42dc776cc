\* One request at a time, a diagram among them, with the idle timer, on a link
\* that may be dropped and is reopened once.
SPECIFICATION Spec
CONSTANTS
  r1 = r1
  r2 = r2
  r3 = r3
  d1 = d1
  Requests <- ThreeRequests
  Closers <- OneCloser
  Diagrams <- OneRequest
  MaxConcurrency = 1
  IdleTimeout = TRUE
  ReconnectCloses = TRUE
  MaxLinks = 2
  MaxDrops = 1
CHECK_DEADLOCK FALSE
INVARIANTS TypeOK NoStrayLink NoLostWakeup
PROPERTIES EveryRequestEnds ReopenedLinkExpires
