\* A client that sends without waiting: the task table against its docstring.
SPECIFICATION Spec
CONSTANTS
  i1 = i1
  i2 = i2
  NoId = NoId
  Ids <- TwoIds
  MaxLines = 3
  MaxBurst = 3
  Progress = FALSE
  Outcomes <- Results
  ReuseIds = FALSE
  MaxOutstanding = 2
INVARIANTS InFlightListed
