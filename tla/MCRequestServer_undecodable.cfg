\* A line that is not UTF-8.
SPECIFICATION Spec
CONSTANTS
  i1 = i1
  i2 = i2
  NoId = NoId
  Ids <- OneId
  MaxLines = 2
  MaxBurst = 3
  Progress = FALSE
  Outcomes <- Results
  ReuseIds = FALSE
  MaxOutstanding = 2
INVARIANTS OnlyEndOfInputStops
