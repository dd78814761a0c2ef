CONSTANTS
    Component = {c1}
    CompRanks = 2
    IORanks = 1
    Calls <- AllCalls
    Handlers = {"BCAST", "RETURN", "INTERNAL"}
    InnerErrors = FALSE
    SyncErrors = FALSE
    Cap = 1
    Ahead = 0
    MaxFile = 1
    MaxDecomp = 1
SPECIFICATION Spec
INVARIANTS InStep NothingLeft SameAnswer TablesAgree
