\* A client is not hung up on.
CONSTANTS
  c1 = c1
  c2 = c2
  Client <- MCClient
  Tasks = {"sweeper", "syncer"}
  MaxRequests <- MCMaxRequests
  Embedded = TRUE
SPECIFICATION Spec
INVARIANT HungUpOn
