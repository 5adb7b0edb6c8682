\* One trade, two requests or sweeps in flight, a contract timeout of one ledger, one
\* transaction of each kind.
SPECIFICATION FairSpec
CONSTANTS
    Trades = {t1}
    t1 = t1
    Workers = {w1, w2}
    w1 = w1
    w2 = w2
    LockAttempts = {1}
    ReleaseAttempts = {1}
    RefundAttempts = {1}
    Seller = seller
    Buyer = buyer
    Platform = platform
    Contract = contract
    NoUser = NoUser
    Amount = 2
    Fee = 1
    TimeoutMinutes = 1
    LedgersPerMinute = 1
    MaxLedger = 1
    Endowment = 3
    None = None
PROPERTY
    CancelledFundsReturn
CHECK_DEADLOCK FALSE
