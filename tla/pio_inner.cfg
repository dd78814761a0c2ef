CONSTANTS
    Component = {c1}
    CompRanks = 1
    IORanks = 1
    Calls <- InnerCalls
    Handlers = {"BCAST"}
    InnerErrors = TRUE
    SyncErrors = FALSE
    Cap = 1
    Ahead = 0
    MaxFile = 1
    MaxDecomp = 0
SPECIFICATION Spec
PROPERTY CallsReturn
CHECK_DEADLOCK FALSE
