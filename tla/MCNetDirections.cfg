CONSTANTS
  Words <- MCWords
  BufSize = 5
  MaxWords = 3
  SemMax = 2
  MaxCounts = 4
  Sentences <- MCSentences
  MaxSent = 3
  MaxPauses = 2
  MaxWaits = 2
  Inits <- MCInits
  Bytes = {1, 193}
  SerBuf = 2
  MaxBytes = 4
  MaxTroubles = 1
  CountRange = 10
  Commands <- MCCommands
  MaxWrites = 2
  Contended = {"uart"}
  OneCpu = TRUE
  MaxIoFaults = 2
  MaxIoCycles = 4
  SysPrograms = {"s1", "m1", "m2"}
  Text <- MCText
  Takes = {{}, {97}}
  Paths = {"a", "b"}
  Block = 2
  MaxEntries = 5
  Names = {"a", "b"}
  MaxArrivals = 2
  QueueLimit = 2
  ClearFirst = TRUE
  UsPerMs = 3
  MsPerSec = 2
  IntRange = 16
  Millis <- MCMillis
  Strides <- MCStrides
  MaxClock = 40
  Md5Block = 4
  Word = 64
  LenBytes = 2
  MaxPiece = 11
  MaxMessage = 30
  IfLists <- MCIfLists
  Dev = "eth0"
  CounterRange = 8
  Amounts = {0, 5}
  Shown = {20, 40}
  MaxEvents = 3
SPECIFICATION ProgramsSpec
INVARIANTS DirectionsAsDeclared
CHECK_DEADLOCK FALSE
