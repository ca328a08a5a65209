SPECIFICATION FairSpec
CONSTANTS
    MaxChunks <- ShortUpload
    ChunkLens <- Lens
    ChanSize = 1
    MaxBody = 3
    Streams = {TRUE}
    Faults <- FaultKinds
CHECK_DEADLOCK FALSE
INVARIANTS RecordTellsTruth EventsTimedByTheirChunk
PROPERTIES RecordFinal FinalizeReturns StalledRequestsEnd
