SPECIFICATION Spec
CONSTANTS
    Namelists <- PassNamelists
    Year = 8
    Never = 1000
    Horizon = 16
    MaxRuns = 3
    Day = 4
    Month = 8
INVARIANTS
    EachFieldOnce
    ClocksInStep
    RestartsComplete
    StopsInTime
    LeavesRestart
PROPERTIES
    ExactRestart
CHECK_DEADLOCK FALSE
