SPECIFICATION PartsSpec
CONSTANTS
    Session = {s1, s2}
    Key = {k1, k2}
    MaxXid = 3
    MaxWrites = 4
    Pages = 2
    Capacity = 2
    Circumstances <- Ordinary
    Client = {s1, s2, s3}
    Keeper = s3
    Frames = 2
    FilePages = 3
    Data = {zeroes, formatted}
    Zeroes = zeroes
    Formatted = formatted
    Nothing = Nothing
    MaxUsage = 1
    Tx = 4
    PerPage = 2
    Buffers = 1
    MaxCrashes = 1
    Leaves = 4
    HeapPages = 5
    PageBytes = 8
    PerCat = 4
    Needed = 3
    EmptyRoom = 6
    MaxMapCrashes = 1
    IndexKey = {1, 2, 3, 4}
    RowId = {1, 2}
    MaxLeafKeys = 3
    MaxInternalKeys = 3
    MaxEntries = 6
    TreeCircumstances <- Ordinary
    Writer = {1, 2}
    ChunkCounts = {1, 2}
    ChunksPerPage = 2
    MaxValues = 2
    MaxPowerCuts = 2
    ToastCircumstances <- Ordinary
    Wire = {s1, s2}
    Rest = rest
    Console = console
    MaxTx = 1
    MaxStatements = 3
INVARIANTS
    TypesOK
    NothingHeldIsDead
    IndexFindsRows
    OneVersionEach
    PinsAccounted
    VictimFound
    EntriesFound
    ScansAgree
    ValuesKept
    SearchIsFirstFit
    AnswersQuery
    PinsReleased
    RangesReadBack
    MixedOnlyByOverlap
PROPERTIES
    RepeatableReads
    ImplementsSI
    ImplementsPageStore
    ImplementsStatusLog
    ImplementsIndex
    GrowsOnlyWhenFull
SYMMETRY Alike
CHECK_DEADLOCK FALSE
