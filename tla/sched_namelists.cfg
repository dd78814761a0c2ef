SPECIFICATION Spec
CONSTANTS
  NumTests = 2
  FirstOf <- MCPairOwn
  ProcPool = 5
  ParallelJobs = 2
  ModelBuildCost = 4
  TotalPes <- MCPesPair
  LastPhase = 7
  IsE3SM = FALSE
  NoBatch = FALSE
  BuildOnly = {}
  UseExisting = FALSE
  Wait = TRUE
  Faults = {"namelists"}
PROPERTIES
  SchedulerEnds
