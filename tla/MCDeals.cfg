SPECIFICATION Spec
CONSTANTS
    alice = alice
    ivan = ivan
    mallory = mallory
    Accounts <- MCAccounts
    NoAccount = NoAccount
    Terms <- MCTerms
    MaxDeals = 2
    SourceTxs <- MCSourceTxs
    Gateway = Gateway
    MAX_BATCH = 2
    BaseLimit = 10
    GracePeriod = 1
    MaxHeight = 4
INVARIANTS
    AmountsAreSums
    LayersAgree
    StatusMatchesTotals
    NoFactStranded
    DecisionsAreFinal
    DeliveryOrderForgotten
PROPERTIES
    LifecycleOnlyRises
    SubmissionLeavesNothingReady
