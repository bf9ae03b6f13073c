SPECIFICATION AlgorithmsSpec
CONSTANTS
    MaxCode = 4
    FirstSurrogate = 2
    LastSurrogate = 2
    MaxLen = 3
    NoBound = NoBound
    NoType = NoType
    Null = Null
    MaxCalls = 3
    MaxWrites = 3
    MaxSeen = 5
    Stores = {s1}
    Types = {Number, String}
    Pickle = Pickle
    Ids = {1, 2}
    Modes <- Mode
    ModelCount = 4
    Signatures = {1, 2, 3}
    ChunkSize = 2
    MaxItems = 5
CHECK_DEADLOCK FALSE
INVARIANTS
    TargetsFirst
    BulkMatchesItems
    NothingHidden
    BoundIsExact
    MeansWhatItSays
    
    DeletesWhatIsMeant
    OffsetWalkExact
    CursorWalkExact
