\* Three connects on two worker threads, cancelled by clients and by the end.
SPECIFICATION Spec
CONSTANTS
  c1 = c1
  c2 = c2
  c3 = c3
  Connects <- ThreeConnects
  PoolSize = 2
CHECK_DEADLOCK FALSE
INVARIANTS TypeOK NothingLeftOpen
PROPERTIES CancelledCloses
