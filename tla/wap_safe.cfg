SPECIFICATION FairSpec

CONSTANTS
  Jobs = {j1, j2}
  Branches = {j1, j2}
  Files = {j1, j2, o1}
  EmptyJobs = {j2}
  Others = {o1}
  FaultKinds = {"catalog", "lost_reply", "load", "write", "crash", "delay"}
  MaxFaults = 2

INVARIANTS
  WrittenSound
  HiddenUntilPublish

PROPERTIES
  PublishShowsData
  MainGrows
  EveryJobEnds

CHECK_DEADLOCK FALSE
