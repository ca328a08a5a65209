SPECIFICATION Spec
CONSTANTS
    Traces <- MCTraces
    Stamp <- MCStamp
    Requests <- MCRequests
    Sent <- MCSent
    Keys = {"k1", "k2"}
    Contents = {"a", "b", "c", "s"}
    Filters <- MCFilters
    Limits = {1, 2}
    MaxDay = 2
CHECK_DEADLOCK FALSE
INVARIANTS RootIsPrefix SessionsShareSystem ContinuationsJoin ListedOnce
