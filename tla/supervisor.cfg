SPECIFICATION FairSupervisor
CONSTANTS
  Workers = 2
  MaxDelay = 2
  StableWindow = 2
  MaxExponent = 16
  MaxFailures = 5
  MaxCrashes = 3
  Faults <- ForkFails
INVARIANTS
  EveryChildIsTracked
  CleanExitLeavesNoWorker
PROPERTIES
  RestartsFollowFailures
  RestartsAreSpaced
  FailedWorkerIsReplaced
  ShutdownEndsUnlessUnheard
CHECK_DEADLOCK FALSE
