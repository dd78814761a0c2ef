\* A demonstration.  With UnknownCalls CallsReturn is violated, with NullIdCalls
\* in their place NothingLeft.
CONSTANTS
    Component = {c1}
    CompRanks = 1
    IORanks = 1
    Calls <- UnknownCalls
    Handlers = {"BCAST"}
    InnerErrors = FALSE
    SyncErrors = FALSE
    Cap = 1
    Ahead = 0
    MaxFile = 1
    MaxDecomp = 0
SPECIFICATION Spec
INVARIANT NothingLeft
PROPERTY CallsReturn
CHECK_DEADLOCK FALSE
