SPECIFICATION Spec

CONSTANTS
  r1 = r1
  r2 = r2
  r3 = r3
  Records = {r1, r2, r3}
  Poison = {}
  BatchSize = 2
  MaxRows = 2
  Builders <- StreamingOrManual
  MaxPending = 2
  CommitRetries = 1
  MaxRivals = 1
  FaultKinds = {"crash", "reload", "upload", "manifest", "catalog", "lost_reply", "panic", "delete", "scan"}
  MaxFaults = 2

SYMMETRY RecordSymmetry

CONSTRAINT FewDisturbances

INVARIANTS
  TypeOK
  NoSilentDrop
  RecordedNotLost
  RolledBackStaysOut
  AccountsExact
  OnceWithoutLoss
  CommittedIsRecoverable
  CommittedIsDurable
  StopFlushesAll
