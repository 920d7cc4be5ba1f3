SPECIFICATION Spec

CONSTANTS
  c1 = c1
  c2 = c2
  c3 = c3
  o1 = o1
  audit = audit
  Branch = audit
  Branches = {audit}
  Own = {c1, c2, c3}
  Others = {o1}
  Files = {c1, c2, c3, o1}
  MaxPending = 1
  PublishIdle = TRUE
  FaultKinds = {"catalog", "lost_reply", "delay", "reload", "timer_reload", "crash", "manifest", "scan"}
  AutoFaults = {"catalog", "timer_reload", "crash", "manifest", "scan"}
  MaxFaults = 2

SYMMETRY FileSymmetry

INVARIANTS
  SettledSound
  AuditedOrRecovered

PROPERTIES
  PublishShowsAll

CHECK_DEADLOCK FALSE
