SPECIFICATION FairSpec
CONSTANTS
  s1 = s1
  s2 = s2
  NoSlot = NoSlot
  Slots <- OneSlot
  MaxConnections = 1
  GenMax = 3
  MaxClients = 1
  Requests <- AllRequests
  Extra = 0
  MaxRead = 3
  MaxWrite = 2
  RespLen = 2
  Chunks = 1
  ChunkLen = 1
  ChanCap = 1
  UpReqLen = 1
  UpLen = 2
  MaxAddresses = 2
  BufLen = 1
  Buffers = 1
  DnsThreads = 1
  Tls = FALSE
  Faults = {"multishot", "accept", "upstream"}
  Timers = {"drain"}
INVARIANTS
  DrainLeavesNothing
PROPERTIES
  UringServes
  UringTriesEveryAddress
  UringClosesOnlyWhenAnswered
  UringEveryClientIsAnswered
  UringShutdownEnds
