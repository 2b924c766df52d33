SPECIFICATION LibrarySpec
CONSTANTS
    None = None
    Empty = Empty
    Garbled = Garbled
    Backoff = 1
    BackoffMax = 3
    RunTimes = {0, 3}
    Levels = {10, 20}
    Debug = 10
    MaxSignals = 2
    MaxLives = 4
    Program = {p0, p2}
    OfMain = {p0}
    Stubborn = {p2}
    Foreign = {p0}
    MaxExits = 2
    Main = Main
    Worker = Worker
    NoOne = NoOne
    Key = {k1, k2}
    CacheTimes = {0, 1, 3}
    PurgeInterval = 2
    MaxItem = 2
    MaxNow = 4
    Sender = {s1, s2}
    Status = {0, 200, 404}
    ConnectTries = 2
    QueryTries = 2
    MaxQueries = 3
    Task = {t1, t2, t3}
    MaxWorkers = 2
    Skipped = {t1}
    MaxChanges = 3
    Candidate = {n1, n2, n3}
    Right <- MCRight
    Threads = 2
    MaxContexts = 3
    Archiver = {e1, e2}
    Archived <- MCArchived
    Recorded <- MCRecorded
    Asked <- MCAsked
INVARIANTS
    CrashesSpaced
    
    KilledOff
    ChannelsSound
    ToolInsideContexts
    DataFits
    StaleKeyDropped
    OutputAgrees
    LimitsAgree
PROPERTIES
    EverySignalExits
    ChangesHeeded
    BulkAnswers
CHECK_DEADLOCK FALSE
