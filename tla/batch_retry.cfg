SPECIFICATION Spec
CONSTANTS
  Resubmits = 1
  Archive = TRUE
  CompareTwo = TRUE
  Baseline = TRUE
  MaxRetries = 1
  Faults = {"run"}
PROPERTIES
  RerunStartsOver
