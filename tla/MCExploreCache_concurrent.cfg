\* Two requests at a time: a reset while a fetch is in flight, against the README.
SPECIFICATION Spec
CONSTANTS
  s1 = s1
  s2 = s2
  r1 = r1
  r2 = r2
  f1 = f1
  Sessions <- OneSession
  Slots <- TwoSlots
  MaxConcurrency = 2
  ListPaths <- OnlyRoot
  DescribePaths <- OnlyTable
  Searches <- None
  FanOut <- NothingEmbedded
  ResetPaths <- RootAndTable
  MaxVersion = 2
CHECK_DEADLOCK FALSE
INVARIANTS FreshAfterReset
