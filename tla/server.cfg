\* A client that writes and one that only connects, around a shutdown at any moment.
CONSTANTS
  c1 = c1
  c2 = c2
  Client <- MCClient
  Tasks = {"sweeper", "syncer"}
  MaxRequests <- MCMaxRequests
  Embedded = FALSE
SPECIFICATION FairSpec
INVARIANTS AckedIsRecorded NoTaskLeft
PROPERTIES ServeEnds ShutdownEnds
