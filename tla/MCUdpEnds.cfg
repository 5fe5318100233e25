CONSTANTS
  na = na  nb = nb  nc = nc
  p1 = p1  p2 = p2
  xa = xa  xb = xb
  i1 = i1  i2 = i2  i3 = i3  i4 = i4
  Name = {na, nb}
  NoName = NoName
  Chunk = {xa, xb, torn}
  Content <- Contents
  ZeroMd5 = ZeroMd5
  Stamp = {s1}
  NoStamp = NoStamp
  Inode <- MCInode
  NoInode = NoInode
  Nested = {nb}
  FdLimit = 9
  DiskBlocks = 4
  Torn = torn
  PathRoom = 6
  Process = {p1, p2}
  Local <- TwoFiles
  Faults = {"overlap", "lose", "late"}
  FaultBudget = 2
SPECIFICATION FairSpec
PROPERTIES SenderEnds AllOk
CHECK_DEADLOCK FALSE
