SPECIFICATION Spec
CONSTANTS
    Threads = {t1}
    Tasks = {a1, a2}
    Workers = {w1, w2}
    Conns = {1, 2, 3, 4, 5}
    Writes <- MCWrites
    None = None
    Calls = {"txn", "helper", "execute", "many", "script"}
    Faults = {}
    MaxOps = 1
    MaxRows = 2
    MaxDepth = 1
    MaxSaves = 0
SYMMETRY Symmetry
INVARIANTS
    TypeOK
    LocksMatch
    ConnectionsNotShared
    WritersNeverContend
    PoolSuffices
    NoTransactionLeftOpen
    BatchesAtomic
