SPECIFICATION Spec

CONSTANTS
  MaxTime = 2
  Rows = {r1, r2}
  Schemas = {s1}
  NoSchema = NoSchema
  MaxBatches = 2
  MaxSize = 2
  MaxRuns = 1
  MaxFaults = 0
  FaultKinds = {}

INVARIANTS
  PlanAgrees

CHECK_DEADLOCK FALSE
