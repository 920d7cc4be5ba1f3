SPECIFICATION Spec

CONSTANTS
  Rows <- MCRows
  PartitionOf <- MCPartitionOf
  KeyOf <- MCKeyOf
  Commits <- Across
  MaxFaults = 0
  Compactors = {"k1"}
  Deduplicating = {}
  MinFiles = 2
  MaxCommitRetries = 1
  MaxSplits = 0

PROPERTIES
  PreservesAlways

CHECK_DEADLOCK FALSE
