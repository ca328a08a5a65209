SPECIFICATION WalkSpec
CONSTANTS
    k1 = k1
    k2 = k2
    Keys <- TwoKeys
    KeyOrder <- TwoKeysOrder
    MaxSize = 2
INVARIANT QuietBucketMeasured
