SPECIFICATION Spec
CONSTANTS
    Threads = {t1}
    Tasks = {a1}
    Workers = {w1}
    None = None
    Calls = {"execute", "block", "scope", "reenter", "inherit", "configure", "close", "close_all"}
    InMemory = {1, 2}
    PoolLimit = 1
    MaxBindings = 3
    MaxConns = 4
    MaxCalls = 3
CHECK_DEADLOCK FALSE
INVARIANTS
    GivenIsOpen
    ConnectionsAccounted
    MemoryKept
