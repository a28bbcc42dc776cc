\* Three calls at once on two workers; the statements of one end of themselves,
\* those of the others never.
SPECIFICATION Spec
CONSTANTS
  c1 = c1
  c2 = c2
  c3 = c3
  Calls <- ThreeCalls
  MaxConcurrency = 3
  PoolSize = 2
  MaxStatements = 2
  HasInterrupt = TRUE
  Ending <- OneCall
  PromptThreads = TRUE
CHECK_DEADLOCK FALSE
INVARIANTS TypeOK IdleWhenOver OneLateStatement
PROPERTIES CancelCompletes
