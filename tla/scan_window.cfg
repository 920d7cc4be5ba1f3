SPECIFICATION Spec

CONSTANTS
  Rows <- MCRows
  PartitionOf <- MCPartitionOf
  KeyOf <- MCKeyOf
  Commits <- Single
  MaxFaults = 0
  Compactors = {"k1"}
  Deduplicating = {}
  MinFiles = 2
  MaxCommitRetries = 1
  MaxSplits = 0

INVARIANTS
  WindowReturnsAdded

CHECK_DEADLOCK FALSE
