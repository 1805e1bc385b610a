SPECIFICATION Spec
CONSTANTS
    deal = deal
    pay = pay
    again = again
    Txs <- Together
    Deals <- OneDeal
    Logs <- SingleLogs
    Enrolled <- OneDeal
    Nobody = Nobody
    MaxInclusions = 2
    MaxNonce = 2
    Faults = {"deepReorg"}
INVARIANT
    IncidentStopsTask
