SPECIFICATION Spec
CONSTANTS
    deal = deal
    pay = pay
    again = again
    Txs <- Together
    Deals <- OneDeal
    Logs <- SingleLogs
    Enrolled <- OneDeal
    Nobody = Nobody
    MaxInclusions = 2
    MaxNonce = 2
    Faults = {"operator", "expiry", "call", "budget", "revert", "rpc", "crash", "drop", "reorg", "deepReorg"}
INVARIANTS
    AutomationIsBacked
    BelievesFacts
    OutstandingIsPersisted
PROPERTIES
    DeadlinesHold
    EnvelopeIsExact
