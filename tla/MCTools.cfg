SPECIFICATION ToolsSpec
CONSTANTS
    Faults = {"crash", "disk", "cast", "other", "rpc", "lost", "slow"}
    Runs = {p1, p2}
    MaxEdits = 2
    MaxNonce = 5
    MaxReads = 5
    MaxBlocks = 3
    MaxRefreshes = 2
    Levels = {0, 1}
    Interval = 2
    MaxCatchup = 4
    DefaultInterval = 1
    DefaultCatchup = 3
    SUBMISSION_ALLOWANCE_BLOCKS = 4
    BlocksPerHour = 3
    BatchLimit = 2
    batchMax = 2
    lagSamples = 2
    MaxHead = 34
    MaxSampled = 6
    FUNDING = 10
    FACE_VALUE = 11
    PARTIAL_A = 4
    PARTIAL_B = 6
    Balances = {0, 1, 2, 9, 10, 11}
    Strays = {1}
    MaxRuns = 2
INVARIANTS
    PrintedKeysAreStored
    RecordsAreSound
    ShownIsTrue
    ReportIsSound
    PlanIsTrue
PROPERTIES
    NothingOverwritten
    WordIsKept
CHECK_DEADLOCK FALSE
