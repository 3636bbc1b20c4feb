\* A request runs while the server is torn down.
CONSTANTS
  c1 = c1
  c2 = c2
  Client <- MCClient
  Tasks = {"sweeper", "syncer"}
  MaxRequests <- MCMaxRequests
  Embedded = FALSE
SPECIFICATION Spec
PROPERTY KeyspaceStill
