CONSTANTS
  p1 = p1
  p2 = p2
  p3 = p3
  p4 = p4
  x = x
  y = y
  NoProcess = NoProcess
  Process = {p1, p2, p3, p4}
  Name = {"a", "b"}
  Block = {x, y}
  FileOf <- WithAbsent
  BlockLen = 4
  RecvMax = 2
  SockBuf = 2
  KillBudget = 2
  DiskBudget = 2
SPECIFICATION FairSpec
CHECK_DEADLOCK FALSE
INVARIANTS OkMeansStored PublishedWhole StallHasCause DeathNeedsKill
PROPERTIES SenderEnds
