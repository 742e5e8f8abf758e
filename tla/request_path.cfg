SPECIFICATION FairSpec
CONSTANTS
  Names <- MCNames
  Lower <- MCLower
  Modulus = 8
  Requests <- MCRequests
  MaxSize = 5
  Chunk = 2
  MaxChanges = 2
  HeadLen = 1
  MaxRead = 4
  Configs <- MCConfigs
  Asks <- MCAsks
INVARIANTS
  RequestIsRouted
  BodyIsFramedOnce
  ValidatedRoutesGetAnUpstream
  GroupShareIsExact
  RangeIsWhatWasAsked
  BodyIsTheRange
PROPERTIES
  ThreadOutlivesNoConnection
  EveryStreamEnds
CHECK_DEADLOCK FALSE
