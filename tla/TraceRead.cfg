SPECIFICATION ReadSpec
CONSTANTS
    Keys = {k1}
    MaxDay = 2
    MaxTraces = 3
    MaxExports = 0
    EvictionCap = 1
    MaxFaults = 1
    Faults <- FaultKinds
    MaxReads = 1
INVARIANTS RowsResolve ReadAnswersOwnLine
