SPECIFICATION Spec
CONSTANTS
    investor = investor
    borrower = borrower
    deal = deal
    Accounts = {investor, borrower}
    ZeroAccount = ZeroAccount
    DealRefs = {deal}
    ZeroDeal = ZeroDeal
    Calls <- MCCalls
    Supply = 3
    Gateway = Gateway
    Stranger = Stranger
    MaxTxs = 3
    MaxCalls = 2
    MAX_BATCH = 2
INVARIANTS
    GatewayBooks
    FactsAreGatewayEvents
    TransactionAllOrNothing
    NoPaymentBlocked
CHECK_DEADLOCK FALSE
