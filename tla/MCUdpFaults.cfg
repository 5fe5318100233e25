CONSTANTS
  na = na  nb = nb  nc = nc
  p1 = p1  p2 = p2
  xa = xa  xb = xb
  i1 = i1  i2 = i2  i3 = i3  i4 = i4
  Name = {na, nb, nc}
  NoName = NoName
  Chunk = {xa, xb, torn}
  Content <- Contents
  ZeroMd5 = ZeroMd5
  Stamp = {s1}
  NoStamp = NoStamp
  Inode <- MCInode
  NoInode = NoInode
  Nested = {nb}
  FdLimit = 9
  DiskBlocks = 4
  Torn = torn
  PathRoom = 6
  Process = {p1, p2}
  Local <- OneAbsent
  Faults = {"overlap", "lose", "late", "duplicate", "reorder", "kill", "restart", "disk", "mv"}
  FaultBudget = 3
SPECIFICATION Spec
SYMMETRY Symmetry
INVARIANTS OkMeansStored PublishedIntact
PROPERTIES WedgedForever LongLeftoverBlocks
CHECK_DEADLOCK FALSE
