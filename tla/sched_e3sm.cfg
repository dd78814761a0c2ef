SPECIFICATION Spec
CONSTANTS
  NumTests = 3
  FirstOf <- MCShared
  ProcPool = 3
  ParallelJobs = 2
  ModelBuildCost = 4
  TotalPes <- MCPes
  LastPhase = 7
  IsE3SM = TRUE
  NoBatch = TRUE
  BuildOnly = {2}
  UseExisting = FALSE
  Wait = FALSE
  Faults = {"phase"}
INVARIANTS
  TypeOK
  ProcsAccounted
  NoHardAbort
  BuildIsThere
  ErrorsInTestStatus
PROPERTIES
  RefusedOnlyIfHopeless
  SchedulerEnds
