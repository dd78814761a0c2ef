CONSTANTS
    NTasks = 4
    Rounds = 1
    Patterns <- TestedPatterns
    Options <- TestedOptions
    Eager = {FALSE}
SPECIFICATION Spec
INVARIANTS FlowControl
PROPERTIES Exchanges ExchangeEnds
