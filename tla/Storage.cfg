SPECIFICATION FairSpec
CONSTANTS
    Keys = {k1}
    MaxDay = 2
    MaxTraces = 2
    MaxExports = 1
    EvictionCap = 1
    MaxFaults = 1
    Faults <- FaultKinds
INVARIANT LeasesSafe
PROPERTIES KeepsPromise LeaseTableClears OrphansReconciled
