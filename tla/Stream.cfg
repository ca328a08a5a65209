SPECIFICATION FairSpec
CONSTANTS
    Protocols = {"messages", "responses", "chat", "gemini"}
    MaxEvents = 7
    MaxBlocks = 3
    MaxPanics = 1
INVARIANTS WholeStream TextInPlace
PROPERTY GoroutineEnds
