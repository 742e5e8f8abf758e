SPECIFICATION Spec
CONSTANTS
  s1 = s1
  s2 = s2
  NoSlot = NoSlot
  Slots <- TwoSlots
  MaxConnections = 2
  GenMax = 3
  MaxClients = 2
  Requests <- Streams
  Extra = 0
  MaxRead = 3
  MaxWrite = 2
  RespLen = 1
  Chunks = 1
  ChunkLen = 1
  ChanCap = 1
  UpReqLen = 1
  UpLen = 2
  MaxAddresses = 1
  BufLen = 1
  Buffers = 1
  DnsThreads = 1
  Tls = FALSE
  Faults = {"halfclose", "reset", "retry", "dns", "upstream", "socket", "file"}
  Timers = {"phase"}
INVARIANTS
  PendingFlagsMatchTheRing
  UringIdsNameOneConnection
  CancelsEndTimedOutWork
  BuffersAreConserved
  UringOneResponse
PROPERTIES
  RingMemoryIsStable
SYMMETRY SlotSymmetry
