SPECIFICATION Spec
CONSTANTS
    Procs = {p1, p2}
    None = None
    Pks = {1}
    MaxJobs = 3
    MaxWrites = 2
SYMMETRY Symmetry
INVARIANTS
    NoHalfMigration
    SchemaSynced
    SearchAgrees
    TriggersHaveIndex
PROPERTIES
    MigrateKeepsRows
