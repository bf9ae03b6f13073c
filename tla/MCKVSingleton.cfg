SPECIFICATION Spec
CONSTANTS
    Threads = {t1, t2}
    None = None
    Attributes = 2
    MaxCalls = 2
    MaxResets = 1
SYMMETRY Symmetry
INVARIANTS
    OneInstance
    ReturnedIsWhole
