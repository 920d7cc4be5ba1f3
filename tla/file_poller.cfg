SPECIFICATION FairSpec
CONSTANTS
  MaxTime = 4
  MaxFiles = 3
  Offset = 2
  StartAfter = 0
  MaxLookback = 3
  CacheTtl = 2
  QueueSize = 1
  Keep = 0
  MaxFaults = 1
  MaxCleans = 1
  FaultKinds = {"bad_file", "clean", "poll", "download", "shutdown", "crash", "rollback"}
INVARIANTS
  NothingSkipped
  QueueSound

PROPERTIES
  Progress

CHECK_DEADLOCK FALSE
