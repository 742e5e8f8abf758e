SPECIFICATION FairSupervisor
CONSTANTS
  Workers = 2
  MaxDelay = 2
  StableWindow = 2
  MaxExponent = 16
  MaxFailures = 5
  MaxCrashes = 0
  Faults <- NoFaults
PROPERTIES
  MasterShutdownEnds
CHECK_DEADLOCK FALSE
