\* A client that sends without waiting for answers, and may reuse an id.
SPECIFICATION Spec
CONSTANTS
  i1 = i1
  i2 = i2
  NoId = NoId
  Ids <- TwoIds
  MaxLines = 3
  MaxBurst = 2
  Progress = TRUE
  Outcomes <- SomeResults
  ReuseIds = TRUE
  MaxOutstanding = 2
INVARIANTS TypeOK CancelledOnlyOnDemand
PROPERTIES ImplementsContract StoppedServerExits
