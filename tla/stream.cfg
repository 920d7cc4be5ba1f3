SPECIFICATION FairSpec

CONSTANTS
  Rows <- MCRows
  PartitionOf <- MCPartitionOf
  KeyOf <- MCKeyOf
  Commits <- Single
  MaxFaults = 1
  Compactors = {"k1", "k2"}
  Deduplicating = {"k2"}
  MinFiles = 2
  MaxCommitRetries = 1
  MaxSplits = 1

INVARIANTS
  DeliverySound

PROPERTIES
  WindowsSound
  PreservesAlways
  Settles
  CatchesUp

CHECK_DEADLOCK FALSE
