SPECIFICATION Spec
CONSTANTS
  s1 = s1
  s2 = s2
  Slots <- OneSlot
  MaxConnections = 1
  GenMax = 3
  MaxClients = 2
  Requests <- Mixed
  MaxRead = 2
  MaxWrite = 2
  ReadBudget = 2
  WriteBudget = 1
  RespLen = 2
  Chunks = 2
  ChunkLen = 1
  ChanCap = 2
  UpReqLen = 2
  UpLen = 2
  UpReadMax = 1
  MaxAddresses = 1
  SendBuf = 1
  DnsThreads = 1
  MaxEvents = 8
  Faults = {"halfclose", "reset", "register", "dns", "upstream", "accept", "file"}
  Timers = {"idle", "phase"}
  IdleDuringProxy = FALSE
INVARIANTS
  IdsNameOneConnection
  OneResponse
  TypeOK
  EdgesKept
PROPERTY
  IdleSparesUnsentResponse
