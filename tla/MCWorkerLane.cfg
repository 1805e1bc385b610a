SPECIFICATION Spec
CONSTANTS
    deal = deal
    pay = pay
    again = again
    Txs <- Apart
    Deals <- OneDeal
    Logs <- ApartLogs
    Enrolled <- OneDeal
    Nobody = Nobody
    MaxInclusions = 1
    MaxNonce = 2
    Faults = {"crash", "drop", "destReorg", "foreign"}
SYMMETRY Alike
PROPERTY
    NonceSpentOnce
