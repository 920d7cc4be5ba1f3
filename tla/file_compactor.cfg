SPECIFICATION Spec

CONSTANTS
  MaxTime = 2
  Rows = {r1, r2}
  Schemas = {s1, s2}
  NoSchema = NoSchema
  MaxBatches = 3
  MaxSize = 2
  MaxRuns = 2
  MaxFaults = 2
  FaultKinds = {"get", "put", "put_stored", "head", "mark", "stop", "crash", "delete", "unmark"}

INVARIANTS
  NothingLost
  NothingDoubled
  PlanAgreesUncut

PROPERTIES
  PassedIsCompacted

SYMMETRY SameUpToNames

CHECK_DEADLOCK FALSE
