SPECIFICATION Spec
CONSTANTS
  Resubmits = 1
  Archive = TRUE
  CompareTwo = TRUE
  Baseline = TRUE
  MaxRetries = 2
  Faults = {"submit", "st_archive", "init", "run", "post", "compare", "baseline"}
INVARIANTS
  CopyIsCurrent
PROPERTIES
  KeepsPromise
