SPECIFICATION FairSpec
CONSTANTS
    a = a
    b = b
    c = c
    null = null
    NumNodes = 2
    Keys <- MCKeys
    Null <- null
    Signature <- MCSignature
    HotThreshold = 2
    FieldBits = 1
    Values <- MCValues
    Sessions = {s1, s2}
    Loaders = {l1}
    LeftBatches <- MCLeftShort
    RightBatches <- MCRightShort
    Predicates <- MCOnePredicate
    MaxBatches <- MCOneBatch
    MaxQueries = 2
PROPERTIES AnswersAreExact QueryReturns
CHECK_DEADLOCK FALSE
