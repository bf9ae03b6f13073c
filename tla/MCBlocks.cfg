SPECIFICATION FairSpec
CONSTANTS
    Threads = {t1}
    Tasks = {a1}
    Workers = {w1}
    Conns = {1, 2, 3, 4}
    Writes <- MCWrites
    None = None
    Calls = {"txn", "helper", "execute", "many"}
    Faults = {"commit", "overflow"}
    MaxOps = 1
    MaxRows = 2
    MaxDepth = 3
    MaxSaves = 2
INVARIANTS
    SavepointsMatchBlocks
PROPERTIES
    ImplementsAtomicBlocks
    OperationsEnd
