SPECIFICATION FairSpec
CONSTANTS
    Requests = {r1, r2, r3}
    Queries = {q1}
    ChanCap = 1
    MaxGzip = 1
CHECK_DEADLOCK FALSE
INVARIANTS AcceptedIsWritten StoreOutlivesWriter OrderlyWithinGrace
PROPERTY ShutdownEnds
