SPECIFICATION Spec
CONSTANTS
    Threads = {t1, t2}
    Tasks = {a1, a2}
    Workers = {w1, w2}
    None = None
    Kinds = {"write", "returning", "stream"}
    MaxOps = 1
SYMMETRY Symmetry
INVARIANTS
    ThreadsReadOwnWrites
    StreamsSeeOneState
    TaskWritesCommitted
