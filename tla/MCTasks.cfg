SPECIFICATION Spec
CONSTANTS
    t1 = t1
    t2 = t2
    t3 = t3
    L1 = L1
    L2 = L2
    Tasks = {t1, t2, t3}
    Loops = {L1, L2}
    None = None
    LoopOf <- MCLoopOf
    First = {t1, t3}
    Conns = {1, 2, 3}
    Writes <- MCWrites
    MaxOps = 4
    MaxDepth = 2
    MaxCancels = 1
INVARIANTS
    BlocksWhole
    GatesSerialize
