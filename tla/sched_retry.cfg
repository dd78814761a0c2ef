SPECIFICATION Spec
CONSTANTS
  NumTests = 2
  FirstOf <- MCPair
  ProcPool = 4
  ParallelJobs = 2
  ModelBuildCost = 4
  TotalPes <- MCPesPair
  LastPhase = 7
  IsE3SM = TRUE
  NoBatch = FALSE
  BuildOnly = {}
  UseExisting = TRUE
  Wait = TRUE
  Faults = {"phase", "namelists", "log"}
INVARIANTS
  FileKeepsUp
  WaitedForJobs
PROPERTIES
  RefusedOnlyIfHopeless

