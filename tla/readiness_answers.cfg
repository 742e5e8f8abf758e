SPECIFICATION FairPeers
CONSTANTS
  s1 = s1
  s2 = s2
  Slots <- TwoSlots
  MaxConnections = 1
  GenMax = 3
  MaxClients = 2
  Requests <- Exchanges
  MaxRead = 2
  MaxWrite = 2
  ReadBudget = 3
  WriteBudget = 9
  RespLen = 2
  Chunks = 2
  ChunkLen = 1
  ChanCap = 2
  UpReqLen = 1
  UpLen = 2
  UpReadMax = 1
  MaxAddresses = 1
  SendBuf = 1
  DnsThreads = 1
  MaxEvents = 1
  Faults = {}
  Timers = {"drain"}
  IdleDuringProxy = FALSE
INVARIANTS
  AcceptEdgeKept
PROPERTIES
  ReadinessServes
  EveryClientIsAnswered
