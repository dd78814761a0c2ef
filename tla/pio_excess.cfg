CONSTANTS
    NTasks = 4
    ioranks <- Ranks
    blocksize = 8
    Margin = 4
    TypeSize = 4
    Var = {1, 2, 3}
    RecVar = {1}
    Scenarios <- LongArrays
    FillValue <- SameFill
    MaxRecord = 1
    MaxWrites = 2
    MaxIoData = 8
SPECIFICATION Spec
PROPERTIES KeepsData
