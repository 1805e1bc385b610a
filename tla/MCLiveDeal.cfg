SPECIFICATION Spec
CONSTANTS
    FUNDING = 10
    FACE_VALUE = 11
    IMPOSTOR_AMOUNT = 1
    StartA = 20
    StartB = 2
    BaseLimit = 22
    MaxExecutions = 2
    MaxRuns = 2
    MaxBroadcasts = 2
    Poor = {1}
    Inspects = TRUE
    Faults = {"crash", "drop", "reply", "slow", "relay", "late"}
INVARIANTS
    NothingRepeated
    ReportIsTrue
PROPERTIES
    PreflightCovers
CHECK_DEADLOCK FALSE
