SPECIFICATION FairClock
CONSTANTS
  s1 = s1
  s2 = s2
  Slots <- OneSlot
  MaxConnections = 1
  GenMax = 3
  MaxClients = 1
  Requests <- Followed
  MaxRead = 3
  MaxWrite = 2
  ReadBudget = 9
  WriteBudget = 9
  RespLen = 2
  Chunks = 1
  ChunkLen = 1
  ChanCap = 2
  UpReqLen = 1
  UpLen = 2
  UpReadMax = 1
  MaxAddresses = 1
  SendBuf = 1
  DnsThreads = 1
  MaxEvents = 8
  Faults = {"halfclose", "dns", "upstream", "file"}
  Timers = {"idle", "phase", "drain"}
  IdleDuringProxy = FALSE
PROPERTIES
  ResponsesAreDelivered
  ShutdownEnds
  EverySlotIsFreed
