SPECIFICATION Spec
CONSTANTS
    Procs = {p1, p2}
    Keys = {1, 2}
    Vals = {1, Text}
    None = None
    Text = Text
    TTLs = {1}
    Ops = {"set", "delete", "expire", "purge", "pop", "popitem", "setdefault", "increment", "swap", "get", "get_many", "items"}
    MaxOps = 1
    MaxTime = 2
SYMMETRY Symmetry
INVARIANTS
    ReadsExcludeExpired
PROPERTIES
    ImplementsExpiringMap
