SPECIFICATION Spec
CONSTANTS
  s1 = s1
  s2 = s2
  NoSlot = NoSlot
  Slots <- OneSlot
  MaxConnections = 1
  GenMax = 3
  MaxClients = 1
  Requests <- PlainOnly
  Extra = 0
  MaxRead = 3
  MaxWrite = 2
  RespLen = 1
  Chunks = 1
  ChunkLen = 1
  ChanCap = 1
  UpReqLen = 1
  UpLen = 2
  MaxAddresses = 1
  BufLen = 1
  Buffers = 1
  DnsThreads = 1
  Tls = TRUE
  Faults = {}
  Timers = {}
PROPERTY
  UringClosesOnlyWhenAnswered
