SPECIFICATION FairSpec
CONSTANTS
    Callers = {c1, c2}
    c1 = c1
    c2 = c2
    Keys = {k1, k2}
    k1 = k1
    k2 = k2
    MaxWrites = 3
INVARIANTS TypeOK FlushedWritesAreSettled LastUploadWins
PROPERTIES FlushReturns DestructorReturns
CHECK_DEADLOCK FALSE
