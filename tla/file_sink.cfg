SPECIFICATION FairSpec

CONSTANTS
  MaxRecords = 3
  MaxFiles = 3
  BatchSize = 2
  MaxRows = 2
  UploadRetries = 1
  MaxFaults = 2
  FaultKinds = {"open", "flush", "close", "rename", "remove", "put", "lost_reply", "uploader", "boot", "crash"}

INVARIANTS
  NoSilentDrop
  CommittedKept
  BucketSound

PROPERTIES
  CommitsArrive

CHECK_DEADLOCK FALSE
