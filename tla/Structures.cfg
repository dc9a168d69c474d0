CONSTANTS
    WordSize = 16
    MaxEnd = 11
    MaxConcurrency = 5
    Item = {x, y}
    Raw = Raw
    MaxItems = 4
    k1 = k1  k2 = k2  k3 = k3  k4 = k4
    HashKey = {k1, k2, k3, k4}
    Value = {x, y}
    EmptyKey = EmptyKey
    Missing = Missing
    InitSize = 4
    Hashes <- CollidingHashes
    BlockId <- TenBlocks
    Requests <- MixedRequests
    Null = Null
    ArenaSize = 7
    MaxArena = 9
    WriteSizes = {100}
    FrameOps = {2, 8, 9, 10}
    FrameSizes = {0, 126, 2049}
    ReadSizes = {50, 901}
    MaxFrames = 2
    MaxWrites = 1
    Periods = {0, 2}
    SendPeriod = 2
    MaxTime = 4
    MaxTimers = 2
    Key = {k1, k2}
    Texture = {x1, x2}
    NoTexture = NoTexture
    Main = Main
    Others = {u1, u2}
    max_tex_mem_usage = 1
    MaxReports = 2
    RefThread = {w1, w2, w3, w4}
    Nobody = Nobody
    Readers = {reader}
    Listener = L
    Workers = {worker}
    Manager = M
    WorkerManager = W
    MaxMessages = 1
SPECIFICATION Spec
INVARIANTS
    TypeOK
    EachIndexOnce
    ArenaIsTiled
    StreamIsWhatWasWritten
    FiresAsPromised
    UpdatesGetSent
    UnusedAreUnreferenced
    UnreferencedAreNoticed
    StrongRefIsAlive
    ObjectsInUseExist
    KilledThreadsAreOver
PROPERTIES
    
    ImplementsDeque
    ImplementsMap
CHECK_DEADLOCK FALSE
