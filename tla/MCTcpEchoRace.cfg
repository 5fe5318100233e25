CONSTANTS
  c1 = c1  c2 = c2  c3 = c3
  NoClient = NoClient
  Clients <- MCPairOfClients
  FdLimit = 2
  ThreadLimit = 2
  MaxSend = 1
SPECIFICATION Spec
INVARIANTS ThreadPerClient
CHECK_DEADLOCK FALSE
