CONSTANTS
  c1 = c1  c2 = c2  c3 = c3
  NoClient = NoClient
  Clients <- MCClients
  FdLimit = 2
  ThreadLimit = 2
  MaxSend = 1
SPECIFICATION FairSpec
INVARIANTS PromptThreads EchoOnce DeathNeedsHaste
PROPERTIES Served
CHECK_DEADLOCK FALSE
