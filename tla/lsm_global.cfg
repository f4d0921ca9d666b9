SPECIFICATION GlobalSpec
CONSTANTS
    Rows = {r1}
    Preloaded = {}
    Clients = {c1}
    Manual = {c1}
    Registrars = {c1}
    Daemon = daemon
    Threshold = 1
    MaxMem = 3
    Readers = {q1}
    Operators = {o1}
    MaxCalls = 3
INVARIANTS NoRowTwiceAnywhere TotalCountsRowsOnce QueryAnswersItsPast
