SPECIFICATION FairSpec
CONSTANTS
    alice = alice
    bob = bob
    ivan = ivan
    Stranger = Stranger
    Accounts <- MCAccounts
    NoAccount = NoAccount
    Terms <- MCTerms
    MaxDeals = 2
    SourceTxs <- MCSourceTxs
    Gateway = Gateway
    MAX_BATCH = 1
    BaseLimit = 8
    GracePeriod = 1
    MaxHeight = 3
INVARIANTS
    DefaultOnlyAfterGrace
PROPERTY
    ImplementsLedger
    ServesTheWorker
    EveryFactDecided
