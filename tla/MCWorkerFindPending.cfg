SPECIFICATION FairSpec
CONSTANTS
    deal = deal
    pay = pay
    again = again
    Txs <- Together
    Deals <- OneDeal
    Logs <- TogetherLogs
    Enrolled <- OneDeal
    Nobody = Nobody
    MaxInclusions = 1
    MaxNonce = 4
    Faults = {"operator"}
PROPERTY
    PendingIsRevisited
