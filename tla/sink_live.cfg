SPECIFICATION FairSpec

CONSTANTS
  r1 = r1
  r2 = r2
  Records = {r1, r2}
  Poison = {r2}
  BatchSize = 2
  MaxRows = 2
  Builders <- StreamingOnly
  MaxPending = 1
  CommitRetries = 2
  MaxRivals = 1
  FaultKinds = {"crash", "reload", "upload", "manifest", "catalog", "lost_reply", "panic", "delete", "scan"}
  MaxFaults = 2

PROPERTIES
  OwedReachesTable
  ShutdownEnds
  RecordedReachesTable
  ImplementsStore
