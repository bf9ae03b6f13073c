SPECIFICATION Spec
CONSTANTS
    Threads = {t1, t2}
    Tasks = {}
    Workers = {}
    Conns = {1, 2, 3}
    Writes <- MCWrites
    None = None
    Calls = {"txn", "execute"}
    Faults = {"commit"}
    MaxOps = 1
    MaxRows = 1
    MaxDepth = 1
    MaxSaves = 0
SYMMETRY Symmetry
INVARIANTS
    WritersNeverContend
