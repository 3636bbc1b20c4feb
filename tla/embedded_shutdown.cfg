\* An embedded server acknowledges what it does not record.
CONSTANTS
  c1 = c1
  c2 = c2
  Client <- MCClient
  Tasks = {"sweeper", "syncer"}
  MaxRequests <- MCMaxRequests
  Embedded = TRUE
SPECIFICATION Spec
INVARIANT AckedIsRecorded
