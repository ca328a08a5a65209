SPECIFICATION FairStartSpec
CONSTANTS
    Traces = {t1}
    Releases <- MCReleases
    Archive <- MCArchive
    Pins <- MCPins
    MaxCrashes = 2
    MaxRemovals = 1
INVARIANTS TmpIsOwn TokenStands ViewerWholeOrNone
PROPERTY StartEnds
