SPECIFICATION Spec
CONSTANTS
    Rows = {r1, r2}
    Preloaded = {}
    Clients = {c1}
    Manual = {}
    Registrars = {}
    Daemon = daemon
    Threshold = 1
    MaxMem = 2
INVARIANTS IncomingWritesKept
