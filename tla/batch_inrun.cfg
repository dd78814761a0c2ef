SPECIFICATION Spec
CONSTANTS
  Resubmits = 1
  Archive = FALSE
  CompareTwo = FALSE
  Baseline = FALSE
  MaxRetries = 0
  Faults = {}
INVARIANTS
  WaitedForAllJobs
