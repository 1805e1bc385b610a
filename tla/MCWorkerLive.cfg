SPECIFICATION FairSpec
CONSTANTS
    deal = deal
    pay = pay
    again = again
    Txs <- Together
    Deals <- OneDeal
    Logs <- TogetherLogs
    Enrolled <- OneDeal
    Nobody = Nobody
    MaxInclusions = 2
    MaxNonce = 4
    Faults = {"crash", "drop", "outsider", "reorg"}
INVARIANT
    ReleasedOnlyWhenFinal
PROPERTY
    Carried
