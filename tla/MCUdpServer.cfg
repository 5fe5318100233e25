CONSTANTS
  n1 = n1
  n2 = n2
  x = x
  t = t
  i1 = i1
  i2 = i2
  Name <- MCName
  NoName = NoName
  Chunk <- MCChunk
  Content <- MCContent
  ZeroMd5 = ZeroMd5
  Stamp = {s1}
  NoStamp = NoStamp
  Inode <- MCInode
  NoInode = NoInode
  Nested <- MCNested
  FdLimit = 3
  DiskBlocks = 2
  Torn = t
  PathRoom = 2
SPECIFICATION SrvSpec
SYMMETRY Symmetry
INVARIANTS SrvTypeOK UploadTarget
PROPERTIES LeftoverStays ExhaustedForever StoreSpec
