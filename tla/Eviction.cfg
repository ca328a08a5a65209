SPECIFICATION FairSpec
CONSTANTS
    N = 3
    Sizes <- SmallSizes
    ByteCaps <- SmallCaps
    EvictionCap = 2
    MaxRefusals = 1
INVARIANTS OldestFirst UnderCapUnlessHindered
PROPERTY CatchesUp
