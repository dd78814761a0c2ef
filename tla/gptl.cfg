SPECIFICATION Spec
CONSTANTS
  MAX_CHARS = 3
  MAX_STACK = 4
  tablesize = 4
  maxthreads = 2
  FLT_MAX = 1000
  Names <- MCNames
  PrefixNames <- MCPrefixNames
  FreeCalls <- MCFreeCalls
  Scenarios <- MCScenarios
  DepthLimits = {2, 99}
  Method = "full_tree"
INVARIANTS StackCovers TreeHasNoLoops SummaryTotals
PROPERTIES KeepsTime SummaryEnds
