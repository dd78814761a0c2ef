CONSTANTS
    Component = {c1, c2}
    CompRanks = 1
    IORanks = 2
    Calls <- FewCalls
    Handlers = {"RETURN"}
    InnerErrors = FALSE
    SyncErrors = FALSE
    Cap = 1
    Ahead = 0
    MaxFile = 1
    MaxDecomp = 0
SPECIFICATION Spec
PROPERTIES CallsReturn LoopEnds
