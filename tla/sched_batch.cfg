SPECIFICATION Spec
CONSTANTS
  NumTests = 3
  FirstOf <- MCSeparate
  ProcPool = 5
  ParallelJobs = 2
  ModelBuildCost = 4
  TotalPes <- MCPes
  LastPhase = 7
  IsE3SM = FALSE
  NoBatch = FALSE
  BuildOnly = {}
  UseExisting = FALSE
  Wait = TRUE
  Faults = {"phase"}
INVARIANTS
  Throttled
  SubmittedOnce
PROPERTIES
  SchedulerEnds
