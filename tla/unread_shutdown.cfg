\* A client that reads no replies keeps a cancelled program from ending.
CONSTANTS
  c1 = c1
  c2 = c2
  Client <- MCClient
  Tasks = {"sweeper"}
  MaxRequests <- MCMaxRequests
  Embedded = FALSE
SPECIFICATION FairSpec
PROPERTY ProgramEnds
