SPECIFICATION FairSpec
CONSTANTS
  Size = 4
  Wrap = 8
  InFlight = 2
INVARIANT
  DescriptorsAreFresh
PROPERTIES
  RingIsAPool
  EveryBufferReturns
