SPECIFICATION Spec
CONSTANTS
    Procs = {p1, p2}
    Keys = {1}
    Vals = {1}
    None = None
    Text = Text
    TTLs = {1}
    Ops = {"set", "get"}
    MaxOps = 2
    MaxTime = 2
SYMMETRY Symmetry
PROPERTIES
    RemovalsAreAsked
