SPECIFICATION Spec
CONSTANTS
  NumTests = 2
  FirstOf <- MCPair
  ProcPool = 4
  ParallelJobs = 2
  ModelBuildCost = 4
  TotalPes <- MCPesPair
  LastPhase = 7
  IsE3SM = TRUE
  NoBatch = TRUE
  BuildOnly = {}
  UseExisting = TRUE
  Wait = FALSE
  Faults = {}
INVARIANTS
  BuildIsThere
