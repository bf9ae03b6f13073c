SPECIFICATION Spec
CONSTANTS
    Procs = {p1, p2}
    None = None
    MaxKey = 2
    MaxOps = 4
    Ops = {"new", "load", "assign", "refresh", "save", "soft_delete", "delete", "get_or_create", "upsert", "bulk_update", "block"}
SYMMETRY Symmetry
INVARIANTS
    CleanMatchesRow
    CreatesOnlyIfAbsent
PROPERTIES
    UnchangedFieldsKept
    SavesHitOwnRow
