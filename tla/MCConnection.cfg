\* Each machine of a connection: the gate with these constants, the others with
\* those MCConnection gives them.
SPECIFICATION MCSpec
CONSTANTS
  c1 = c1
  c2 = c2
  c3 = c3
  r1 = r1
  r2 = r2
  r3 = r3
  d1 = d1
  Requests <- ThreeRequests
  Closers <- OneCloser
  Diagrams <- NoDiagrams
  MaxConcurrency = 2
  IdleTimeout = TRUE
  ReconnectCloses = TRUE
  MaxLinks = 3
  MaxDrops = 1
  Fds <- ThreeFds
  Connections <- TwoConnections
  MaxSockets = 5
  Files <- FilesOfRows
  Batch = 2
  Chunk = 1
  MaxLines = 1
  MaxPrinted = 2
  MaxRequests = 3
  Configured <- NoneConfigured
  NameOrder <- ObjectKeys
  Places <- PlaceNames
  Disk = "disk"
  Commands <- TransfersOfObjects
  Contents <- Stores
  DeleteBatch = 2
  LobCacheMax = 3
  Results <- ThreeRequests
  MaxValues = 2
  Streams <- Inputs
  NL = "nl"
  Limit = 3
  IdHead = 1
SYMMETRY RequestSymmetry
CHECK_DEADLOCK FALSE
INVARIANTS
  SemaphoreAccounted SeversItsOwn SessionLeftClean LoadNamesTheLine
  NothingLost LatestKept LinesAnsweredOnce
PROPERTIES OwnStatementOnly RetryUndisturbed
