SPECIFICATION Spec
CONSTANTS
    a = a
    b = b
    c = c
    null = null
    NumNodes = 2
    Keys <- MCKeys
    Null <- null
    Signature <- MCSignature
    HotThreshold = 1
    FieldBits = 1
    Values <- MCValues
    Sessions = {s1}
    Loaders = {l1}
    LeftBatches <- MCLeft
    RightBatches <- MCRightShort
    Predicates <- MCPredicates
    MaxBatches <- MCOneBatch
    MaxQueries = 1
INVARIANTS BarrierWaits
CHECK_DEADLOCK FALSE
