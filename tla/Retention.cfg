SPECIFICATION FairStatusSpec
CONSTANTS
    Puts = {p1, p2}
    Configs = {c1}
    Off = Off
    Pending = Pending
    MaxBytes = 1
    MaxEvictions = 2
INVARIANTS SerialStatusExact
PROPERTY StatusConverges
