SPECIFICATION Spec
CONSTANTS
    Namelists <- RofHeat
    Year = 8
    Never = 1000
    Horizon = 16
    MaxRuns = 3
    Day = 4
    Month = 8
PROPERTY ExactRestart
CHECK_DEADLOCK FALSE
