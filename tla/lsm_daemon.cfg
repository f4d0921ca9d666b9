SPECIFICATION FairSpec
CONSTANTS
    Rows = {r1, r2}
    Preloaded = {}
    Clients = {c1, c2}
    Manual = {}
    Registrars = {}
    Daemon = daemon
    Threshold = 0
    MaxMem = 4
INVARIANTS TypeOK AckedRowsSurvive ErasedRowsStayAway
PROPERTIES ImplementsContract FullMemTableIsFrozen StopReturns
