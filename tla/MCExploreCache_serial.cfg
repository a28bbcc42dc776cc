\* One session after another and one request at a time, crashes in between.
SPECIFICATION Spec
CONSTANTS
  s1 = s1
  s2 = s2
  r1 = r1
  r2 = r2
  f1 = f1
  Sessions <- TwoSessions
  Slots <- OneSlot
  MaxConcurrency = 1
  ListPaths <- None
  DescribePaths <- TableAndParts
  Searches <- OneSearch
  FanOut <- EmbeddedColumn
  ResetPaths <- OnlyGroup
  MaxVersion = 2
CHECK_DEADLOCK FALSE
INVARIANTS TypeOK FreshAfterReset AnsweredFresh PartsNotOlder ResetSurvivesRestart WarmRestart
SYMMETRY SessionSymmetry
