SPECIFICATION FairSpec
CONSTANTS
    one = one
    both = both
    first = first
    second = second
    Txs = {one, both}
    Deals = {first, second}
    Logs <- MCLogs
    Start = 1
    Window = 2
    Overlap = 1
    MaxDepth = 1
    Earlier = {}
    MaxEvents = 2
    MaxTasks = 1
    MaxHeight = 4
    MaxForks = 1
    MaxEnrollments = 2
    MaxFailures = 1
INVARIANTS
    NothingPassed
PROPERTIES
    ReleasedOnlyWhole
    EveryEventMet
