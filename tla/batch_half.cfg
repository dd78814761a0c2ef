SPECIFICATION Spec
CONSTANTS
  Resubmits = 1
  Archive = TRUE
  CompareTwo = TRUE
  Baseline = TRUE
  MaxRetries = 0
  Faults = {"archive"}
INVARIANTS
  SubmitFailureMarked
