SPECIFICATION Spec
CONSTANTS
    Namelists <- LimitBeforeStopDate
    Year = 8
    Never = 1000
    Horizon = 16
    MaxRuns = 3
    Day = 4
    Month = 8
INVARIANT StopsInTime
CHECK_DEADLOCK FALSE
