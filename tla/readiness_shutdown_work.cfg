SPECIFICATION Spec
CONSTANTS
  s1 = s1
  s2 = s2
  Slots <- OneSlot
  MaxConnections = 1
  GenMax = 3
  MaxClients = 1
  Requests <- Streams
  MaxRead = 3
  MaxWrite = 2
  ReadBudget = 9
  WriteBudget = 9
  RespLen = 2
  Chunks = 2
  ChunkLen = 1
  ChanCap = 2
  UpReqLen = 1
  UpLen = 2
  UpReadMax = 1
  MaxAddresses = 1
  SendBuf = 1
  DnsThreads = 1
  MaxEvents = 8
  Faults = {}
  Timers = {"drain"}
  IdleDuringProxy = FALSE
PROPERTY
  ShutdownKeepsActiveWork
